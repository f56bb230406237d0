--------------------------- MODULE AuthResolveProofs ---------------------------
(***************************************************************************)
(* Whatever becomes of the auth files while they are looked at, _auth      *)
(* returns what is documented of them, a process changes its credentials   *)
(* only upwards, and a token is used where and for the role it was issued  *)
(* for: for any Vaults, files, contents and profiles.                      *)
(***************************************************************************)
EXTENDS AuthResolve, TLAPS

Looking == pc \in {"pick", "look", "open"}

(* The key for what a login sent: the Vault, the path and the role of it.    *)
KeyOf(v, login) ==
    IF login.method = "approle"
    THEN <<v, "approle", login.role>>
    ELSE <<v, "jwt", login.mount, login.role>>

(* A login that can be told from others by its key, but for its proof.       *)
WellFormed(login) ==
    /\ login.method \in {"approle", "jwt"}
    /\ login.method = "approle" => login.mount = "approle"

(* A token is kept under the key for what it was issued for.                 *)
OwnKeys ==
    \A e \in tokens :
        /\ e.key = KeyOf(e.token.vault, e.token.login)
        /\ WellFormed(e.token.login)

(* While _auth looks at the files, what each of them says, or is remembered  *)
(* to say, has been taken down.                                              *)
Watched ==
    /\ (Looking \/ pc = "idle") => auth = None
    /\ Looking => \A f \in Files : Effective(f) \in seen[f]
    /\ path # None => pc \in {"look", "open"}

(* Why a file was chosen, and what is still true of that.                    *)
ConfChosen ==
    /\ path = Conf
    /\ HostOf[vault] # None =>
           memo[HostOf[vault]] = None /\ Absent \in seen[HostOf[vault]]

HostChosen ==
    /\ path = HostOf[vault] /\ HostOf[vault] # None
    /\ gap \/ Effective(path) # Absent

Chosen ==
    /\ pc \in {"look", "open"} => ConfChosen \/ HostChosen
    /\ pc = "open" => memo[path] = None /\ (gap \/ file[path] # Absent)

(* What was used before is inline, or is still remembered.                   *)
UsedInline(v) == settled[v] = <<0, inline>>

UsedConf(v) ==
    memo[Conf] # None /\ settled[v] = <<1, Overlay(inline, memo[Conf])>>

UsedHost(v) ==
    /\ HostOf[v] # None
    /\ memo[HostOf[v]] # None
    /\ settled[v] = <<2, Overlay(inline, memo[HostOf[v]])>>

Used ==
    \A v \in Vaults :
        settled[v] # None => UsedInline(v) \/ UsedConf(v) \/ UsedHost(v)

AuthInv == TypeOK /\ OwnKeys /\ TokenIsOwn /\ Watched /\ Chosen /\ Used

-----------------------------------------------------------------------------
(* A few facts about files and ranks *)

LEMMA FilesOfVaults ==
  /\ Conf \in Files /\ Conf # None
  /\ \A v \in Vaults : HostOf[v] # None => HostOf[v] \in Files /\ HostOf[v] # Conf
  BY AuthAssumption DEF Files

LEMMA MappingFacts ==
  /\ Mappings \subseteq Contents
  /\ \A c \in Contents : c \in Mappings \/ c = Absent \/ c = Broken
  /\ Absent \notin Mappings /\ Broken \notin Mappings /\ None \notin Mappings
  /\ None \notin Contents
  BY AuthAssumption DEF Mappings

LEMMA RankFacts ==
  /\ Rank(None) = 0 /\ Rank(Conf) = 1
  /\ \A v \in Vaults : HostOf[v] # None => Rank(HostOf[v]) = 2
  BY FilesOfVaults DEF Rank

LEMMA OverlaysResolve ==
  /\ inline \in Resolvable
  /\ \A c \in Mappings : Overlay(inline, c) \in Resolvable
  BY DEF Resolvable

(* The key of the settings is that of the login they lead to.                *)
LEMMA KeyOfPayload ==
  ASSUME NEW v, NEW m, NEW place
  PROVE  /\ TokenKey(v, m) = KeyOf(v, Payload(m, place))
         /\ WellFormed(Payload(m, place))
<1>1. CASE Method(m) = "approle"
  BY <1>1 DEF TokenKey, Payload, KeyOf, WellFormed
<1>2. CASE Method(m) # "approle"
  BY <1>2 DEF TokenKey, Payload, KeyOf, WellFormed
<1> QED BY <1>1, <1>2

(* Logins of one key agree on everything but their proof.                    *)
LEMMA KeysTellLogins ==
  ASSUME NEW v, NEW w, NEW l, NEW k,
         WellFormed(l), WellFormed(k), KeyOf(v, l) = KeyOf(w, k)
  PROVE  v = w /\ l.method = k.method /\ l.mount = k.mount /\ l.role = k.role
<1>1. l.method = k.method
  BY DEF KeyOf, WellFormed
<1>2. CASE l.method = "approle"
  BY <1>1, <1>2 DEF KeyOf, WellFormed
<1>3. CASE l.method = "jwt"
  BY <1>1, <1>3 DEF KeyOf
<1> QED BY <1>1, <1>2, <1>3 DEF WellFormed

(* The inline block and what follows from it stay as they are.               *)
LEMMA StableTypes ==
  ASSUME inline' = inline
  PROVE  Resolvable' = Resolvable /\ TokenType' = TokenType
<1>1. Resolvable' = Resolvable
  BY DEF Resolvable
<1> QED BY <1>1 DEF TokenType

LEMMA InitAuthInv == Init => AuthInv
<1> SUFFICES ASSUME Init PROVE AuthInv
  OBVIOUS
<1> USE AuthAssumption, FilesOfVaults DEF Init
<1>1. TypeOK
  <2>1. edits \in 0..MaxEdits
    OBVIOUS
  <2>2. {force, gap} \subseteq BOOLEAN
    OBVIOUS
  <2>3. tokens \subseteq TokenType
    OBVIOUS
  <2>4. /\ memo \in [Files -> Mappings \cup {None}]
        /\ seen \in [Files -> SUBSET Contents]
        /\ settled \in [Vaults -> {None} \cup ((0..2) \X Resolvable)]
    OBVIOUS
  <2> QED BY <2>1, <2>2, <2>3, <2>4 DEF TypeOK
<1>2. OwnKeys /\ TokenIsOwn
  BY DEF OwnKeys, TokenIsOwn
<1>3. Watched /\ Chosen
  BY DEF Watched, Chosen, Looking
<1>4. Used
  BY DEF Used
<1> QED BY <1>1, <1>2, <1>3, <1>4 DEF AuthInv

-----------------------------------------------------------------------------
(* Steps of _auth *)

LEMMA CallAuthInv ==
  ASSUME AuthInv, NEW v \in Vaults, NEW forced \in BOOLEAN, Call(v, forced)
  PROVE  AuthInv'
<1> USE DEF AuthInv, Call, world
<1>1. Resolvable' = Resolvable /\ TokenType' = TokenType
  BY StableTypes
<1>2. \A f \in Files : Effective(f) \in Contents
  BY MappingFacts DEF TypeOK, Effective
<1>3. TypeOK'
  BY <1>1, <1>2, AuthAssumption DEF TypeOK
<1>4. OwnKeys' /\ TokenIsOwn'
  BY DEF OwnKeys, TokenIsOwn
<1>5. Watched'
  BY DEF Watched, Looking, Effective
<1>6. Chosen'
  BY DEF Chosen
<1>7. Used'
  BY DEF Used, UsedInline, UsedConf, UsedHost
<1> QED BY <1>3, <1>4, <1>5, <1>6, <1>7

LEMMA PickAuthInv ==
  ASSUME AuthInv, Pick
  PROVE  AuthInv'
<1> USE DEF AuthInv, Pick, world, history
<1>1. Resolvable' = Resolvable /\ TokenType' = TokenType
  BY StableTypes
<1>2. vault \in Vaults
  BY DEF TypeOK
<1>3. TypeOK'
  BY <1>1, <1>2, FilesOfVaults DEF TypeOK, HostFirst
<1>4. OwnKeys' /\ TokenIsOwn'
  BY DEF OwnKeys, TokenIsOwn
<1>5. Watched'
  BY DEF Watched, Looking, Effective
<1>6. Chosen'
  <2>1. CASE HostFirst(vault)
    BY <2>1, <1>2, FilesOfVaults, MappingFacts
       DEF Chosen, HostChosen, HostFirst, Effective, TypeOK
  <2>2. CASE ~HostFirst(vault)
    BY <2>2, <1>2, FilesOfVaults
       DEF Chosen, ConfChosen, HostFirst, Watched, Looking, Effective
  <2> QED BY <2>1, <2>2
<1>7. Used'
  BY DEF Used, UsedInline, UsedConf, UsedHost
<1> QED BY <1>3, <1>4, <1>5, <1>6, <1>7

LEMMA LookAuthInv ==
  ASSUME AuthInv, Look
  PROVE  AuthInv'
<1> USE DEF AuthInv, Look, world, history
<1>1. Resolvable' = Resolvable /\ TokenType' = TokenType
  BY StableTypes
<1>2. TypeOK'
  BY <1>1 DEF TypeOK
<1>3. OwnKeys' /\ TokenIsOwn'
  BY DEF OwnKeys, TokenIsOwn
<1>4. Watched'
  BY DEF Watched, Looking, Effective
<1>5. Chosen'
  BY DEF Chosen, ConfChosen, HostChosen, Effective
<1>6. Used'
  BY DEF Used, UsedInline, UsedConf, UsedHost
<1> QED BY <1>2, <1>3, <1>4, <1>5, <1>6

(* _auth returns a mapping, from file f or from none: what was used for the  *)
(* other Vaults is still remembered, and what is used for this one is, too.  *)
LEMMA ResolvedAuthInv ==
  ASSUME AuthInv, pc \in {"look", "open"},
         NEW f \in Files \cup {None}, NEW m \in Resolvable, Resolved(f, m),
         UNCHANGED <<world, tokens, vault, force, token>>,
         memo' \in [Files -> Mappings \cup {None}],
         \A g \in Files : memo[g] # None => memo'[g] = memo[g],
         \/ f = None /\ m = inline
         \/ /\ f = Conf \/ (f = HostOf[vault] /\ f # None)
            /\ memo'[f] # None /\ m = Overlay(inline, memo'[f])
  PROVE  AuthInv'
<1> USE DEF AuthInv, Resolved, Leave, world
<1>1. Resolvable' = Resolvable /\ TokenType' = TokenType
  BY StableTypes
<1>2. vault \in Vaults
  BY DEF TypeOK
<1>3. Rank(f) \in 0..2
  BY <1>2, RankFacts, FilesOfVaults DEF Rank
<1>4. TypeOK'
  BY <1>1, <1>2, <1>3, FilesOfVaults DEF TypeOK
<1>5. OwnKeys' /\ TokenIsOwn'
  BY DEF OwnKeys, TokenIsOwn
<1>6. Watched' /\ Chosen'
  BY DEF Watched, Chosen, Looking
<1>7. ASSUME NEW v \in Vaults, settled'[v] # None
      PROVE  (UsedInline(v) \/ UsedConf(v) \/ UsedHost(v))'
  <2>1. CASE v = vault
    <3>1. settled'[v] = <<Rank(f), m>>
      BY <2>1, <1>2 DEF TypeOK
    <3>2. CASE f = None
      BY <3>1, <3>2, RankFacts, FilesOfVaults DEF UsedInline
    <3>3. CASE f = Conf
      BY <3>1, <3>3, RankFacts, FilesOfVaults DEF UsedConf
    <3>4. CASE f = HostOf[vault] /\ f # None
      BY <3>1, <3>4, <2>1, <1>2, RankFacts, FilesOfVaults DEF UsedHost
    <3> QED BY <3>2, <3>3, <3>4
  <2>2. CASE v # vault
    <3>1. settled'[v] = settled[v]
      BY <2>2, <1>2 DEF TypeOK
    <3>2. UsedInline(v) \/ UsedConf(v) \/ UsedHost(v)
      BY <3>1, <1>7 DEF Used
    <3> QED BY <3>1, <3>2, FilesOfVaults DEF UsedInline, UsedConf, UsedHost
  <2> QED BY <2>1, <2>2
<1>8. Used'
  BY <1>7 DEF Used
<1> QED BY <1>4, <1>5, <1>6, <1>8

(* It fails.                                                                 *)
LEMMA RefusedAuthInv ==
  ASSUME AuthInv, pc \in {"look", "open"}, Refused,
         UNCHANGED <<world, memo, tokens, vault, force, token>>
  PROVE  AuthInv'
<1> USE DEF AuthInv, Refused, Leave, world
<1>1. Resolvable' = Resolvable /\ TokenType' = TokenType
  BY StableTypes
<1>2. TypeOK'
  BY <1>1 DEF TypeOK
<1>3. OwnKeys' /\ TokenIsOwn'
  BY DEF OwnKeys, TokenIsOwn
<1>4. Watched' /\ Chosen'
  BY DEF Watched, Chosen, Looking
<1>5. Used'
  BY DEF Used, UsedInline, UsedConf, UsedHost
<1> QED BY <1>2, <1>3, <1>4, <1>5

LEMMA RememberedAuthInv ==
  ASSUME AuthInv, Remembered
  PROVE  AuthInv'
<1> USE DEF AuthInv, Remembered, world
<1>1. path \in Files /\ memo[path] \in Mappings
  BY MappingFacts DEF TypeOK
<1>2. Overlay(inline, memo[path]) \in Resolvable
  BY <1>1, OverlaysResolve
<1>3. path = Conf \/ (path = HostOf[vault] /\ path # None)
  BY DEF Chosen, ConfChosen, HostChosen
<1>4. memo' = memo /\ memo' \in [Files -> Mappings \cup {None}]
  BY DEF TypeOK
<1> QED BY <1>1, <1>2, <1>3, <1>4, ResolvedAuthInv

LEMMA NoFileAuthInv ==
  ASSUME AuthInv, NoFile
  PROVE  AuthInv'
<1> USE DEF NoFile, world
<1>1. CASE Refused
  BY <1>1, RefusedAuthInv
<1>2. CASE Resolved(None, inline)
  <2>1. memo' \in [Files -> Mappings \cup {None}]
    BY DEF AuthInv, TypeOK
  <2> QED BY <1>2, <2>1, OverlaysResolve, ResolvedAuthInv
<1> QED BY <1>1, <1>2 DEF Fallback

LEMMA OpenAuthInv ==
  ASSUME AuthInv, Open
  PROVE  AuthInv'
<1> USE DEF AuthInv, Open, world
<1>1. path \in Files /\ file[path] \in Mappings /\ memo[path] = None
  BY DEF TypeOK, Chosen
<1>2. Overlay(inline, file[path]) \in Resolvable
  BY <1>1, OverlaysResolve
<1>3. path = Conf \/ (path = HostOf[vault] /\ path # None)
  BY DEF Chosen, ConfChosen, HostChosen
<1>4. memo' = [memo EXCEPT ![path] = file[path]]
  BY DEF Kept
<1>5. /\ memo' \in [Files -> Mappings \cup {None}]
      /\ memo'[path] = file[path]
      /\ \A g \in Files : memo[g] # None => memo'[g] = memo[g]
  BY <1>1, <1>4 DEF TypeOK
<1>6. memo'[path] # None
  BY <1>1, <1>5, MappingFacts
<1> QED BY <1>1, <1>2, <1>3, <1>5, <1>6, ResolvedAuthInv

LEMMA CannotOpenAuthInv ==
  ASSUME AuthInv, CannotOpen
  PROVE  AuthInv'
  BY RefusedAuthInv DEF CannotOpen

-----------------------------------------------------------------------------
(* Steps of _token and of the caller *)

LEMMA StaticTokenAuthInv ==
  ASSUME AuthInv, StaticToken
  PROVE  AuthInv'
<1> USE DEF AuthInv, StaticToken, world, history
<1>1. Resolvable' = Resolvable /\ TokenType' = TokenType
  BY StableTypes
<1>2. TypeOK'
  BY <1>1 DEF TypeOK
<1>3. OwnKeys' /\ TokenIsOwn'
  BY DEF OwnKeys, TokenIsOwn
<1>4. Watched' /\ Chosen'
  BY DEF Watched, Chosen, Looking
<1>5. Used'
  BY DEF Used, UsedInline, UsedConf, UsedHost
<1> QED BY <1>2, <1>3, <1>4, <1>5

LEMMA NeedLoginAuthInv ==
  ASSUME AuthInv, NeedLogin
  PROVE  AuthInv'
<1> USE DEF AuthInv, NeedLogin, world, history
<1>1. Resolvable' = Resolvable /\ TokenType' = TokenType
  BY StableTypes
<1>2. TypeOK'
  BY <1>1 DEF TypeOK
<1>3. OwnKeys' /\ TokenIsOwn'
  BY DEF OwnKeys, TokenIsOwn
<1>4. Watched' /\ Chosen'
  BY DEF Watched, Chosen, Looking
<1>5. Used'
  BY DEF Used, UsedInline, UsedConf, UsedHost
<1> QED BY <1>2, <1>3, <1>4, <1>5

LEMMA IncompleteAuthInv ==
  ASSUME AuthInv, Incomplete
  PROVE  AuthInv'
<1> USE DEF AuthInv, Incomplete, world, history
<1>1. Resolvable' = Resolvable /\ TokenType' = TokenType
  BY StableTypes
<1>2. TypeOK'
  BY <1>1 DEF TypeOK
<1>3. OwnKeys' /\ TokenIsOwn'
  BY DEF OwnKeys, TokenIsOwn
<1>4. Watched' /\ Chosen'
  BY DEF Watched, Chosen, Looking
<1>5. Used'
  BY DEF Used, UsedInline, UsedConf, UsedHost
<1> QED BY <1>2, <1>3, <1>4, <1>5

LEMMA NoLoginAuthInv ==
  ASSUME AuthInv, NoLogin
  PROVE  AuthInv'
<1> USE DEF AuthInv, NoLogin, world, history
<1>1. Resolvable' = Resolvable /\ TokenType' = TokenType
  BY StableTypes
<1>2. TypeOK'
  BY <1>1 DEF TypeOK
<1>3. OwnKeys' /\ TokenIsOwn'
  BY DEF OwnKeys, TokenIsOwn
<1>4. Watched' /\ Chosen'
  BY DEF Watched, Chosen, Looking
<1>5. Used'
  BY DEF Used, UsedInline, UsedConf, UsedHost
<1> QED BY <1>2, <1>3, <1>4, <1>5

LEMMA ReturnAuthInv ==
  ASSUME AuthInv, Return
  PROVE  AuthInv'
<1> USE DEF AuthInv, Return, world, history
<1>1. Resolvable' = Resolvable /\ TokenType' = TokenType
  BY StableTypes
<1>2. TypeOK'
  BY <1>1 DEF TypeOK
<1>3. OwnKeys' /\ TokenIsOwn'
  BY DEF OwnKeys, TokenIsOwn
<1>4. Watched' /\ Chosen'
  BY DEF Watched, Chosen, Looking
<1>5. Used'
  BY DEF Used, UsedInline, UsedConf, UsedHost
<1> QED BY <1>2, <1>3, <1>4, <1>5

LEMMA ReuseAuthInv ==
  ASSUME AuthInv, Reuse
  PROVE  AuthInv'
<1> USE DEF AuthInv, Reuse, world, history
<1>1. Resolvable' = Resolvable /\ TokenType' = TokenType
  BY StableTypes
<1>2. TypeOK'
  BY <1>1 DEF TypeOK
<1>3. OwnKeys' /\ TokenIsOwn'
  <2>1. PICK e \in tokens : e.key = TokenKey(vault, auth) /\ token' = e.token
    BY DEF Cached
  <2>2. KeyOf(e.token.vault, e.token.login) = KeyOf(vault, Payload(auth, env))
    BY <2>1, KeyOfPayload DEF OwnKeys
  <2>3. /\ e.token.vault = vault
        /\ e.token.login.method = Payload(auth, env).method
        /\ e.token.login.mount = Payload(auth, env).mount
        /\ e.token.login.role = Payload(auth, env).role
    BY <2>2, KeyOfPayload, KeysTellLogins DEF OwnKeys
  <2> QED BY <2>1, <2>3 DEF OwnKeys, TokenIsOwn
<1>4. Watched' /\ Chosen'
  BY DEF Watched, Chosen, Looking
<1>5. Used'
  BY DEF Used, UsedInline, UsedConf, UsedHost
<1> QED BY <1>2, <1>3, <1>4, <1>5

LEMMA LoginAuthInv ==
  ASSUME AuthInv, Login
  PROVE  AuthInv'
<1> USE DEF AuthInv, Login, world, history
<1>1. Resolvable' = Resolvable /\ TokenType' = TokenType
  BY StableTypes
<1>2. [key |-> TokenKey(vault, auth), token |-> token'] \in TokenType
  BY DEF TypeOK, TokenType
<1>3. TypeOK'
  BY <1>1, <1>2 DEF TypeOK
<1>4. OwnKeys' /\ TokenIsOwn'
  BY KeyOfPayload DEF OwnKeys, TokenIsOwn
<1>5. Watched' /\ Chosen'
  BY DEF Watched, Chosen, Looking
<1>6. Used'
  BY DEF Used, UsedInline, UsedConf, UsedHost
<1> QED BY <1>3, <1>4, <1>5, <1>6

-----------------------------------------------------------------------------
(* Steps of the world *)

LEMMA EditAuthInv ==
  ASSUME AuthInv, NEW f \in Files, NEW content \in Contents, Edit(f, content)
  PROVE  AuthInv'
<1> USE DEF AuthInv, Edit, world
<1>1. Resolvable' = Resolvable /\ TokenType' = TokenType
  BY StableTypes
<1>2. TypeOK'
  <2>1. edits' \in 0..MaxEdits
    BY AuthAssumption DEF TypeOK
  <2>2. /\ file' \in [Files -> Contents]
        /\ seen' \in [Files -> SUBSET Contents]
    BY DEF TypeOK
  <2>3. {force', gap'} \subseteq BOOLEAN
    BY DEF TypeOK
  <2> QED BY <1>1, <2>1, <2>2, <2>3 DEF TypeOK
<1>3. OwnKeys' /\ TokenIsOwn'
  BY DEF OwnKeys, TokenIsOwn
<1>4. file'[f] = content /\ \A g \in Files : g # f => file'[g] = file[g]
  BY DEF TypeOK
<1>5. \A g \in Files : seen[g] \subseteq seen'[g]
  BY DEF TypeOK
<1>6. Watched'
  <2>1. ASSUME Looking, NEW g \in Files PROVE Effective(g)' \in seen'[g]
    BY <2>1, <1>4, <1>5 DEF Looking, Watched, Effective, TypeOK
  <2> QED BY <2>1 DEF Watched, Looking
<1>7. ASSUME path \in Files, pc \in {"look", "open"}, file[path] # Absent
      PROVE  (gap \/ file[path] # Absent)'
  BY <1>4, <1>7
<1>8. Chosen'
  <2>1. ASSUME pc \in {"look", "open"} PROVE (ConfChosen \/ HostChosen)'
    <3>1. CASE ConfChosen
      BY <3>1, <1>5, <2>1, FilesOfVaults DEF ConfChosen, TypeOK
    <3>2. CASE HostChosen
      BY <3>2, <1>7, <2>1 DEF HostChosen, Effective, TypeOK
    <3> QED BY <2>1, <3>1, <3>2 DEF Chosen
  <2>2. ASSUME pc = "open" PROVE (memo[path] = None /\ (gap \/ file[path] # Absent))'
    BY <1>7, <2>2 DEF Chosen, TypeOK
  <2> QED BY <2>1, <2>2 DEF Chosen
<1>9. Used'
  BY DEF Used, UsedInline, UsedConf, UsedHost
<1> QED BY <1>2, <1>3, <1>6, <1>8, <1>9

LEMMA ExpireAuthInv ==
  ASSUME AuthInv, NEW e \in tokens, Expire(e)
  PROVE  AuthInv'
<1> USE DEF AuthInv, Expire, world, history
<1>1. Resolvable' = Resolvable /\ TokenType' = TokenType
  BY StableTypes
<1>2. TypeOK'
  BY <1>1 DEF TypeOK
<1>3. OwnKeys' /\ TokenIsOwn'
  BY DEF OwnKeys, TokenIsOwn
<1>4. Watched'
  BY DEF Watched, Looking, Effective
<1>5. Chosen'
  BY DEF Chosen, ConfChosen, HostChosen, Effective
<1>6. Used'
  BY DEF Used, UsedInline, UsedConf, UsedHost
<1> QED BY <1>2, <1>3, <1>4, <1>5, <1>6

LEMMA RestartAuthInv ==
  ASSUME AuthInv, Restart
  PROVE  AuthInv'
<1> USE DEF AuthInv, Restart, Leave
<1>1. Resolvable' = Resolvable /\ TokenType' = TokenType
  BY StableTypes
<1>2. TypeOK'
  <2>1. /\ memo' \in [Files -> Mappings \cup {None}]
        /\ seen' \in [Files -> SUBSET Contents]
        /\ settled' \in [Vaults -> {None} \cup ((0..2) \X Resolvable')]
    OBVIOUS
  <2> QED BY <1>1, <2>1 DEF TypeOK
<1>3. OwnKeys' /\ TokenIsOwn'
  BY DEF OwnKeys, TokenIsOwn
<1>4. Watched' /\ Chosen'
  BY DEF Watched, Chosen, Looking
<1>5. Used'
  BY DEF Used
<1> QED BY <1>2, <1>3, <1>4, <1>5

LEMMA StutterAuthInv ==
  ASSUME AuthInv, UNCHANGED vars
  PROVE  AuthInv'
<1> USE DEF AuthInv, vars
<1>1. Resolvable' = Resolvable /\ TokenType' = TokenType
  BY StableTypes
<1>2. TypeOK'
  BY <1>1 DEF TypeOK
<1>3. OwnKeys' /\ TokenIsOwn'
  BY DEF OwnKeys, TokenIsOwn
<1>4. Watched'
  BY DEF Watched, Looking, Effective
<1>5. Chosen'
  BY DEF Chosen, ConfChosen, HostChosen, Effective
<1>6. Used'
  BY DEF Used, UsedInline, UsedConf, UsedHost
<1> QED BY <1>2, <1>3, <1>4, <1>5, <1>6

LEMMA NextAuthInv ==
  ASSUME AuthInv, [Next]_vars
  PROVE  AuthInv'
<1>1. CASE \E v \in Vaults, forced \in BOOLEAN : Call(v, forced)
  BY <1>1, CallAuthInv
<1>2. CASE Resolve
  BY <1>2, PickAuthInv, RememberedAuthInv, LookAuthInv, NoFileAuthInv,
     OpenAuthInv, CannotOpenAuthInv DEF Resolve
<1>3. CASE Obtain
  BY <1>3, StaticTokenAuthInv, NeedLoginAuthInv, IncompleteAuthInv,
     ReuseAuthInv, LoginAuthInv, NoLoginAuthInv DEF Obtain
<1>4. CASE Return
  BY <1>4, ReturnAuthInv
<1>5. CASE \E f \in Files, content \in Contents : Edit(f, content)
  BY <1>5, EditAuthInv
<1>6. CASE \E e \in tokens : Expire(e)
  BY <1>6, ExpireAuthInv
<1>7. CASE Restart
  BY <1>7, RestartAuthInv
<1>8. CASE UNCHANGED vars
  BY <1>8, StutterAuthInv
<1> QED BY <1>1, <1>2, <1>3, <1>4, <1>5, <1>6, <1>7, <1>8 DEF Next

LEMMA AuthInvHolds == Spec => []AuthInv
  BY InitAuthInv, NextAuthInv, PTL DEF Spec

-----------------------------------------------------------------------------
(* Invariants of the specification *)

(* A call past _auth has its mapping, one past the choice of a file has its  *)
(* file, and what is remembered of a file is a mapping (287-306).            *)
THEOREM AuthTypeCorrect == Spec => []TypeOK
<1>1. AuthInv => TypeOK
  BY DEF AuthInv
<1> QED BY <1>1, AuthInvHolds, PTL

(* A token that comes from a login was issued by the Vault it is sent to, at *)
(* the mount and for the role of the settings in force, for any history of   *)
(* logins, expiries, edits and processes, though its key leaves out the JWT  *)
(* or secret_id it was issued to; and it was issued to those of this very    *)
(* call when that had to log in anew (366-442).                              *)
THEOREM TokensAreOwn == Spec => []TokenIsOwn
<1>1. AuthInv => TokenIsOwn
  BY DEF AuthInv
<1> QED BY <1>1, AuthInvHolds, PTL

-----------------------------------------------------------------------------
(* What _auth returns *)

(* The chosen file has this content, and it is the one that is documented to *)
(* count; or it was removed after it was chosen.                             *)
LEMMA TheFileThatCounts ==
  ASSUME AuthInv, pc \in {"look", "open"}, NEW content \in seen[path],
         content = Absent => path = Conf \/ gap
  PROVE  \/ gap /\ content = Absent
         \/ \E conf \in seen[Conf] :
              \E host \in IF HostOf[vault] = None THEN {Absent}
                          ELSE seen[HostOf[vault]] :
                content = IF HostOf[vault] # None /\ host # Absent THEN host ELSE conf
<1>1. path \in Files /\ vault \in Vaults
  BY DEF AuthInv, TypeOK
<1>2. \A f \in Files : Effective(f) \in seen[f]
  BY DEF AuthInv, Watched, Looking
<1>3. CASE ConfChosen
  BY <1>1, <1>3 DEF ConfChosen
<1>4. CASE HostChosen /\ content # Absent
  <2>1. Effective(Conf) \in seen[Conf]
    BY <1>2, FilesOfVaults
  <2> QED BY <2>1, <1>4 DEF HostChosen
<1>5. CASE HostChosen /\ content = Absent
  BY <1>1, <1>5, FilesOfVaults DEF HostChosen
<1> QED BY <1>3, <1>4, <1>5 DEF AuthInv, Chosen

(* However the files change while _auth looks at them, its result is what    *)
(* the docstring says of contents they had in this call or that the process  *)
(* remembers, unless the chosen file is removed under its hands (287-306).   *)
THEOREM CredentialsAsDocumented == Spec => AsDocumented
<1> DEFINE Step ==
      (path # None /\ pc' \in {"token", "noauth"}) =>
          Told \/ (gap /\ auth' \in {inline, None})
<1>1. ASSUME AuthInv, Next PROVE Step
  <2> SUFFICES ASSUME path # None, pc' \in {"token", "noauth"}
               PROVE  Told \/ (gap /\ auth' \in {inline, None})
    OBVIOUS
  <2>1. pc \in {"look", "open"} /\ path \in Files /\ vault \in Vaults /\ auth = None
    BY <1>1 DEF AuthInv, Watched, TypeOK, Looking
  <2>2. Effective(path) \in seen[path]
    BY <1>1, <2>1 DEF AuthInv, Watched, Looking
  <2>3. CASE Remembered
    <3>1. Effective(path) = memo[path] /\ memo[path] \in Mappings
      BY <1>1, <2>1, <2>3 DEF Remembered, Effective, AuthInv, TypeOK
    <3>2. auth' = Overlay(inline, memo[path])
      BY <2>3 DEF Remembered, Resolved
    <3>3. memo[path] # Absent /\ memo[path] # Broken
      BY <3>1, MappingFacts
    <3>4. PICK conf \in seen[Conf],
               host \in IF HostOf[vault] = None THEN {Absent} ELSE seen[HostOf[vault]] :
            memo[path] = IF HostOf[vault] # None /\ host # Absent THEN host ELSE conf
      BY <1>1, <2>1, <2>2, <3>1, <3>3, TheFileThatCounts
    <3>5. auth' = Documented(vault, host, conf)
      BY <3>2, <3>3, <3>4 DEF Documented
    <3> QED BY <3>5 DEF Told
  <2>4. CASE Open
    <3>1. Effective(path) = file[path] /\ file[path] \in Mappings
      BY <1>1, <2>4 DEF Open, Effective, AuthInv, Chosen
    <3>2. auth' = Overlay(inline, file[path])
      BY <2>4 DEF Open, Resolved
    <3>3. file[path] # Absent /\ file[path] # Broken
      BY <3>1, MappingFacts
    <3>4. PICK conf \in seen[Conf],
               host \in IF HostOf[vault] = None THEN {Absent} ELSE seen[HostOf[vault]] :
            file[path] = IF HostOf[vault] # None /\ host # Absent THEN host ELSE conf
      BY <1>1, <2>1, <2>2, <3>1, <3>3, TheFileThatCounts
    <3>5. auth' = Documented(vault, host, conf)
      BY <3>2, <3>3, <3>4 DEF Documented
    <3> QED BY <3>5 DEF Told
  <2>5. CASE NoFile
    <3>1. Effective(path) = Absent
      BY <2>5 DEF NoFile, Effective
    <3>2. auth' = IF explicit /\ DOMAIN inline = {} THEN None ELSE inline
      BY <2>1, <2>5 DEF NoFile, Refused, Resolved, Fallback
    <3>3. gap \/ path = Conf
      BY <1>1, <2>1, <3>1 DEF AuthInv, Chosen, ConfChosen, HostChosen
    <3>4. CASE gap
      BY <3>2, <3>4
    <3>5. CASE ~gap
      <4>1. PICK conf \in seen[Conf],
                 host \in IF HostOf[vault] = None THEN {Absent} ELSE seen[HostOf[vault]] :
              Absent = IF HostOf[vault] # None /\ host # Absent THEN host ELSE conf
        BY <1>1, <2>1, <2>2, <3>1, <3>3, <3>5, TheFileThatCounts
      <4>2. auth' = Documented(vault, host, conf)
        BY <3>2, <4>1, AuthAssumption DEF Documented
      <4> QED BY <4>2 DEF Told
    <3> QED BY <3>4, <3>5
  <2>6. CASE CannotOpen
    <3>1. auth' = None
      BY <2>1, <2>6 DEF CannotOpen, Refused
    <3>2. CASE gap
      BY <3>1, <3>2
    <3>3. CASE ~gap
      <4>1. Effective(path) = Broken
        BY <1>1, <2>6, <3>3 DEF CannotOpen, Effective, AuthInv, Chosen
      <4>2. PICK conf \in seen[Conf],
                 host \in IF HostOf[vault] = None THEN {Absent} ELSE seen[HostOf[vault]] :
              Broken = IF HostOf[vault] # None /\ host # Absent THEN host ELSE conf
        BY <1>1, <2>1, <2>2, <4>1, <3>3, AuthAssumption, TheFileThatCounts
      <4>3. auth' = Documented(vault, host, conf)
        BY <3>1, <4>2 DEF Documented
      <4> QED BY <4>3 DEF Told
    <3> QED BY <3>2, <3>3
  <2>7. ASSUME Pick \/ Look \/ Obtain \/ Return
               \/ (\E v \in Vaults, forced \in BOOLEAN : Call(v, forced))
               \/ (\E f \in Files, content \in Contents : Edit(f, content))
               \/ (\E e \in tokens : Expire(e)) \/ Restart
        PROVE  FALSE
    BY <2>1, <2>7 DEF Pick, Look, Obtain, StaticToken, NeedLogin, Incomplete,
       Reuse, Login, NoLogin, Return, Call, Edit, Expire, Restart
  <2> QED BY <1>1, <2>3, <2>4, <2>5, <2>6, <2>7 DEF Next, Resolve
<1>2. AuthInv /\ [Next]_vars => [Step]_vars
  BY <1>1
<1>3. Spec => [][Step]_vars
  BY <1>2, AuthInvHolds, PTL DEF Spec
<1> QED BY <1>3 DEF AsDocumented

-----------------------------------------------------------------------------
(* How the credentials of a process change *)

(* What was used for a Vault does not outrank the chosen file, and is what   *)
(* the process remembers of that file if it is of the same rank.             *)
LEMMA ChosenIsNotBelow ==
  ASSUME AuthInv, pc \in {"look", "open"}, settled[vault] # None,
         NEW m, memo[path] # None => m = Overlay(inline, memo[path])
  PROVE  \/ settled[vault] = <<Rank(path), m>>
         \/ Rank(path) > settled[vault][1]
<1>1. vault \in Vaults
  BY DEF AuthInv, TypeOK
<1>2. UsedInline(vault) \/ UsedConf(vault) \/ UsedHost(vault)
  BY <1>1 DEF AuthInv, Used
<1>3. CASE ConfChosen
  <2>1. Rank(path) = 1 /\ ~UsedHost(vault)
    BY <1>3, RankFacts DEF ConfChosen, UsedHost
  <2>2. CASE UsedInline(vault)
    BY <2>1, <2>2 DEF UsedInline
  <2>3. CASE UsedConf(vault)
    BY <2>1, <2>3, <1>3 DEF UsedConf, ConfChosen
  <2> QED BY <1>2, <2>1, <2>2, <2>3
<1>4. CASE HostChosen
  <2>1. Rank(path) = 2
    BY <1>1, <1>4, RankFacts DEF HostChosen
  <2>2. CASE UsedInline(vault)
    BY <2>1, <2>2 DEF UsedInline
  <2>3. CASE UsedConf(vault)
    BY <2>1, <2>3 DEF UsedConf
  <2>4. CASE UsedHost(vault)
    BY <2>1, <2>4, <1>4 DEF UsedHost, HostChosen
  <2> QED BY <1>2, <2>2, <2>3, <2>4
<1> QED BY <1>3, <1>4 DEF AuthInv, Chosen

(* Within one process the credentials for a Vault change only upwards, from  *)
(* inline to the configured file to that of the host, and never between two  *)
(* versions of one file, unless the chosen file is removed while it is       *)
(* looked at (276, 291-301).                                                 *)
THEOREM CredentialsOnlyRise == Spec => OnlyUpwards
<1> DEFINE Rises(v) ==
      \/ settled[v] = None \/ settled'[v] = None
      \/ settled'[v] = settled[v]
      \/ settled'[v][1] > settled[v][1]
      \/ gap
<1>1. ASSUME AuthInv, Next, NEW v \in Vaults PROVE Rises(v)
  <2>1. ASSUME pc \in {"look", "open"}, NEW f, NEW m, Resolved(f, m),
               settled[vault] # None => \/ settled[vault] = <<Rank(f), m>>
                                        \/ Rank(f) > settled[vault][1]
                                        \/ gap
        PROVE  Rises(v)
    <3>1. settled' = [settled EXCEPT ![vault] = <<Rank(f), m>>]
          /\ settled \in [Vaults -> {None} \cup ((0..2) \X Resolvable)]
      BY <1>1, <2>1 DEF Resolved, AuthInv, TypeOK
    <3>2. CASE v # vault
      BY <3>1, <3>2
    <3>3. CASE v = vault
      <4>1. settled'[v] = <<Rank(f), m>>
        BY <3>1, <3>3
      <4> QED BY <4>1, <3>3, <2>1
    <3> QED BY <3>2, <3>3
  <2>2. CASE Remembered
    <3>1. pc \in {"look", "open"} /\ Resolved(path, Overlay(inline, memo[path]))
      BY <2>2 DEF Remembered
    <3>2. settled[vault] # None =>
            \/ settled[vault] = <<Rank(path), Overlay(inline, memo[path])>>
            \/ Rank(path) > settled[vault][1]
      BY <1>1, <3>1, ChosenIsNotBelow
    <3> QED BY <2>1, <3>1, <3>2
  <2>3. CASE Open
    <3>1. pc \in {"look", "open"} /\ Resolved(path, Overlay(inline, file[path]))
      BY <2>3 DEF Open
    <3>2. memo[path] = None
      BY <1>1, <2>3 DEF Open, AuthInv, Chosen
    <3>3. settled[vault] # None =>
            \/ settled[vault] = <<Rank(path), Overlay(inline, file[path])>>
            \/ Rank(path) > settled[vault][1]
      BY <1>1, <3>1, <3>2, ChosenIsNotBelow
    <3> QED BY <2>1, <3>1, <3>3
  <2>4. CASE NoFile
    <3>1. CASE Refused
      BY <3>1 DEF Refused
    <3>2. CASE Resolved(None, inline)
      <4>1. pc = "look" /\ Effective(path) = Absent /\ memo[path] = None
        BY <2>4 DEF NoFile, Effective
      <4>2. CASE gap
        BY <4>2
      <4>3. CASE ~gap
        <5>1. ConfChosen
          BY <1>1, <4>1, <4>3 DEF AuthInv, Chosen, HostChosen
        <5>2. vault \in Vaults
          BY <1>1, <4>1 DEF AuthInv, TypeOK
        <5>3. settled[vault] # None => UsedInline(vault)
          BY <1>1, <5>1, <5>2, <4>1 DEF AuthInv, Used, UsedConf, UsedHost, ConfChosen
        <5>4. settled[vault] # None => settled[vault] = <<Rank(None), inline>>
          BY <5>3, RankFacts DEF UsedInline
        <5> QED BY <2>1, <3>2, <4>1, <5>4
      <4> QED BY <4>2, <4>3
    <3> QED BY <2>4, <3>1, <3>2 DEF NoFile, Fallback
  <2>5. CASE Restart
    BY <2>5 DEF Restart
  <2>6. ASSUME Pick \/ Look \/ CannotOpen \/ Obtain \/ Return
               \/ (\E w \in Vaults, forced \in BOOLEAN : Call(w, forced))
               \/ (\E f \in Files, content \in Contents : Edit(f, content))
               \/ (\E e \in tokens : Expire(e))
        PROVE  Rises(v)
    BY <2>6 DEF Pick, Look, CannotOpen, Refused, Obtain, StaticToken, NeedLogin,
       Incomplete, Reuse, Login, NoLogin, Return, Call, Edit, Expire, history
  <2> QED BY <1>1, <2>2, <2>3, <2>4, <2>5, <2>6 DEF Next, Resolve
<1>2. AuthInv /\ [Next]_vars => [\A v \in Vaults : Rises(v)]_vars
  BY <1>1
<1>3. Spec => [][\A v \in Vaults : Rises(v)]_vars
  BY <1>2, AuthInvHolds, PTL DEF Spec
<1> QED BY <1>3 DEF OnlyUpwards
=============================================================================
