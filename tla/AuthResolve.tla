------------------------------ MODULE AuthResolve ------------------------------
(***************************************************************************)
(* Which credentials the Vault driver uses: _auth, _host_auth_file,        *)
(* _jwt_token, _token and _login of vault_salt_sdb.py.                     *)
(*                                                                         *)
(* The inline auth block of the profile is the base.  A file is laid over  *)
(* it: <vault-host>.conf next to the configured auth_file when it exists,  *)
(* the configured one otherwise.  A file that was read is kept for the     *)
(* life of the process in _AUTH_FILES; that a file is absent is not.       *)
(* Meanwhile people write, replace and remove these files.                 *)
(*                                                                         *)
(* One process makes one call of _token after the other, for several       *)
(* Vaults whose profiles differ in their URL only.  Tokens are kept in the *)
(* cache file and outlive the process; how it is loaded and saved is left  *)
(* to VaultSaltSdb and CacheSave.                                          *)
(***************************************************************************)
EXTENDS Naturals, FiniteSets

CONSTANTS
    Vaults,         \* base URLs
    HostOf,         \* the file of the host of each, None without a host name
    Conf,           \* the configured auth_file
    Contents,       \* what a file may say: mappings, Broken, Absent
    Profiles,       \* what profiles say: [inline |-> mapping, explicit |-> BOOLEAN]
    Surroundings,   \* JWTs of jobs, by the name of the variable or the file
    MaxEdits,       \* bound on the changes to files
    Absent,         \* no such file
    Broken,         \* cannot be opened or parsed, or is no mapping
    None

Files == {Conf} \cup ({HostOf[v] : v \in Vaults} \ {None})

Mappings == Contents \ {Absent, Broken}

ASSUME AuthAssumption ==
    /\ {Absent, Broken} \subseteq Contents
    /\ Absent # Broken
    /\ None \notin Contents /\ None \notin {Conf} \cup Vaults
    /\ \A v \in Vaults : HostOf[v] # Conf
    /\ MaxEdits \in Nat

VARIABLES
    (* the world *)
    file,       \* content of every file
    inline,     \* the inline auth block of the profile
    explicit,   \* it names an auth_file
    env,        \* the variables and files that hold a JWT, and which
    edits,
    (* the process *)
    memo,       \* _AUTH_FILES: file -> mapping, None when not read yet
    tokens,     \* tokens of the cache: [key, token]
    pc, vault, force, path, auth, token,
    (* for the properties *)
    seen,       \* what each file said, or is remembered to say, in this call
    gap,        \* the chosen file was removed before it was read
    settled     \* what this process last used for each Vault

world == <<file, inline, explicit, env, edits>>
history == <<seen, gap, settled>>
vars == <<file, inline, explicit, env, edits, memo, tokens, pc, vault,
          force, path, auth, token, seen, gap, settled>>

-----------------------------------------------------------------------------
(* Mappings *)

Get(mapping, key, default) ==
    IF key \in DOMAIN mapping THEN mapping[key] ELSE default

(* {**base, **over}                                                          *)
Overlay(base, over) ==
    [key \in DOMAIN base \cup DOMAIN over |->
        IF key \in DOMAIN over THEN over[key] ELSE base[key]]

(* What _auth can return besides an exception.                               *)
Resolvable == {inline} \cup {Overlay(inline, c) : c \in Mappings}

Method(mapping) == Get(mapping, "method", "token")

(* inline auth:jwt, else the environment, else auth:jwt_file                 *)
Jwt(mapping, place) ==
    LET variable == Get(place, Get(mapping, "jwt_env", "VAULT_ID_TOKEN"), None)
    IN  IF "jwt" \in DOMAIN mapping THEN mapping["jwt"]
        ELSE IF variable # None THEN variable
        ELSE Get(place, Get(mapping, "jwt_file", None), None)

(* What a login sends: the path it is sent to, the role it asks for and what *)
(* proves that it may.                                                       *)
Payload(mapping, place) ==
    IF Method(mapping) = "approle"
    THEN [method |-> "approle", mount |-> "approle",
          role   |-> Get(mapping, "role_id", None),
          proof  |-> Get(mapping, "secret_id", None)]
    ELSE [method |-> "jwt", mount |-> Get(mapping, "mount", "jwt"),
          role   |-> Get(mapping, "role", None),
          proof  |-> Jwt(mapping, place)]

CanLogin(mapping) ==
    \/ /\ Method(mapping) = "approle"
       /\ {"role_id", "secret_id"} \subseteq DOMAIN mapping
    \/ /\ Method(mapping) = "jwt"
       /\ "role" \in DOMAIN mapping
       /\ Jwt(mapping, env) # None

(* The key without the method and the mount; as it is.  The proof is in none.*)
TokenKeyOfRole(v, mapping) ==
    <<v, Get(mapping, IF Method(mapping) = "approle" THEN "role_id" ELSE "role", None)>>

TokenKey(v, mapping) ==
    IF Method(mapping) = "approle"
    THEN <<v, "approle", Get(mapping, "role_id", None)>>
    ELSE <<v, "jwt", Get(mapping, "mount", "jwt"), Get(mapping, "role", None)>>

Cached(v, mapping) == {e \in tokens : e.key = TokenKey(v, mapping)}

-----------------------------------------------------------------------------
(* Which file *)

(* A configured file that was read already wins; the code.                   *)
HostFirstUnread(v) ==
    /\ HostOf[v] # None
    /\ memo[Conf] = None
    /\ memo[HostOf[v]] # None \/ file[HostOf[v]] # Absent

HostFirst(v) ==
    /\ HostOf[v] # None
    /\ memo[HostOf[v]] # None \/ file[HostOf[v]] # Absent

(* Without a file there are no credentials at all; the inline ones.          *)
NoFallback == None

Fallback == inline

(* Nothing is kept; the mapping is.                                          *)
KeptNothing(content) == None

Kept(content) == content

Effective(f) == IF memo[f] # None THEN memo[f] ELSE file[f]

(* How far a file overrules: inline, the configured one, that of the host.   *)
Rank(f) == IF f = None THEN 0 ELSE IF f = Conf THEN 1 ELSE 2

(* _auth is left, and with it what it looked at.                             *)
Leave ==
    /\ path' = None
    /\ seen' = [f \in Files |-> {}] /\ gap' = FALSE

(* It returns a mapping, from file f or from none.                           *)
Resolved(f, mapping) ==
    /\ auth' = mapping
    /\ settled' = [settled EXCEPT ![vault] = <<Rank(f), mapping>>]
    /\ pc' = "token"
    /\ Leave

Refused == pc' = "noauth" /\ Leave /\ UNCHANGED <<auth, settled>>

-----------------------------------------------------------------------------
TokenType ==
    [key : {TokenKey(v, m) : v \in Vaults, m \in Resolvable},
     token : [vault : Vaults,
              login : {Payload(m, e) : m \in Resolvable, e \in Surroundings}]]

(* A call past _auth has its mapping, one that ended well its token, and     *)
(* what is remembered is a mapping.                                          *)
TypeOK ==
    /\ file \in [Files -> Contents]
    /\ \E p \in Profiles : inline = p.inline /\ explicit = p.explicit
    /\ {force, gap} \subseteq BOOLEAN
    /\ env \in Surroundings
    /\ edits \in 0..MaxEdits
    /\ memo \in [Files -> Mappings \cup {None}]
    /\ tokens \subseteq TokenType
    /\ pc \in {"idle", "pick", "look", "open", "token", "login", "done",
               "noauth", "failed"}
    /\ vault \in Vaults \cup {None} /\ (vault = None <=> pc = "idle")
    /\ path \in Files \cup {None} /\ (pc \in {"look", "open"} => path # None)
    /\ pc \in {"token", "login", "done"} => auth \in Resolvable
    /\ seen \in [Files -> SUBSET Contents]
    /\ settled \in [Vaults -> {None} \cup ((0..2) \X Resolvable)]

Init ==
    /\ file \in [Files -> Contents]
    /\ \E p \in Profiles : inline = p.inline /\ explicit = p.explicit
    /\ env \in Surroundings
    /\ edits = 0
    /\ memo = [f \in Files |-> None]
    /\ tokens = {}
    /\ pc = "idle" /\ vault = None /\ force = FALSE
    /\ path = None /\ auth = None /\ token = None
    /\ seen = [f \in Files |-> {}]
    /\ gap = FALSE
    /\ settled = [v \in Vaults |-> None]

-----------------------------------------------------------------------------
(* _auth *)

(* _token is called; after a 403 with force.                                 *)
Call(v, forced) ==
    /\ pc = "idle"
    /\ pc' = "pick" /\ vault' = v /\ force' = forced
    /\ seen' = [f \in Files |-> {Effective(f)}]
    /\ UNCHANGED <<world, memo, tokens, path, auth, token, gap, settled>>

(* The existence of the host's file is asked here, and again in Look.        *)
Pick ==
    /\ pc = "pick"
    /\ path' = IF HostFirst(vault) THEN HostOf[vault] ELSE Conf
    /\ pc' = "look"
    /\ UNCHANGED <<world, memo, tokens, vault, force, auth, token, history>>

Remembered ==
    /\ pc = "look"
    /\ memo[path] # None
    /\ Resolved(path, Overlay(inline, memo[path]))
    /\ UNCHANGED <<world, memo, tokens, vault, force, token>>

Look ==
    /\ pc = "look"
    /\ memo[path] = None
    /\ file[path] # Absent
    /\ pc' = "open"
    /\ UNCHANGED <<world, memo, tokens, vault, force, path, auth, token, history>>

(* An absent file is fatal only when it is configured and there is no inline *)
(* auth.                                                                     *)
NoFile ==
    /\ pc = "look"
    /\ memo[path] = None
    /\ file[path] = Absent
    /\ IF explicit /\ DOMAIN inline = {} THEN Refused ELSE Resolved(None, Fallback)
    /\ UNCHANGED <<world, memo, tokens, vault, force, token>>

Open ==
    /\ pc = "open"
    /\ file[path] \in Mappings
    /\ memo' = [memo EXCEPT ![path] = Kept(file[path])]
    /\ Resolved(path, Overlay(inline, file[path]))
    /\ UNCHANGED <<world, tokens, vault, force, token>>

CannotOpen ==
    /\ pc = "open"
    /\ file[path] \in {Absent, Broken}
    /\ Refused
    /\ UNCHANGED <<world, memo, tokens, vault, force, token>>

-----------------------------------------------------------------------------
(* _token, _jwt_token and _login *)

(* A static token is nobody's but the file's.                                *)
StaticToken ==
    /\ pc = "token"
    /\ Method(auth) = "token"
    /\ "token" \in DOMAIN auth
    /\ token' = auth["token"]
    /\ pc' = "done"
    /\ UNCHANGED <<world, memo, tokens, vault, force, path, auth, history>>

(* The JWT has to be there even when a cached token will do.                 *)
NeedLogin ==
    /\ pc = "token"
    /\ CanLogin(auth)
    /\ pc' = "login"
    /\ UNCHANGED <<world, memo, tokens, vault, force, path, auth, token, history>>

(* A setting or the JWT is missing, or the method is not known.              *)
Incomplete ==
    /\ pc = "token"
    /\ ~CanLogin(auth)
    /\ ~(Method(auth) = "token" /\ "token" \in DOMAIN auth)
    /\ pc' = "failed"
    /\ UNCHANGED <<world, memo, tokens, vault, force, path, auth, token, history>>

Reuse ==
    /\ pc = "login"
    /\ ~force
    /\ \E e \in Cached(vault, auth) : token' = e.token
    /\ pc' = "done"
    /\ UNCHANGED <<world, memo, tokens, vault, force, path, auth, history>>

(* The Vault issues a token, which is to the driver whatever was sent for it,*)
(* and which replaces the one under its key.                                 *)
Login ==
    /\ pc = "login"
    /\ force \/ Cached(vault, auth) = {}
    /\ token' = [vault |-> vault, login |-> Payload(auth, env)]
    /\ tokens' = (tokens \ Cached(vault, auth))
                     \cup {[key |-> TokenKey(vault, auth), token |-> token']}
    /\ pc' = "done"
    /\ UNCHANGED <<world, memo, vault, force, path, auth, history>>

(* It denies the login or cannot be reached.                                 *)
NoLogin ==
    /\ pc = "login"
    /\ force \/ Cached(vault, auth) = {}
    /\ pc' = "failed"
    /\ UNCHANGED <<world, memo, tokens, vault, force, path, auth, token, history>>

Return ==
    /\ pc \in {"done", "noauth", "failed"}
    /\ pc' = "idle" /\ vault' = None /\ force' = FALSE
    /\ auth' = None /\ token' = None
    /\ UNCHANGED <<world, memo, tokens, path, history>>

-----------------------------------------------------------------------------
(* The world *)

Edit(f, content) ==
    /\ edits < MaxEdits
    /\ content # file[f]
    /\ edits' = edits + 1
    /\ file' = [file EXCEPT ![f] = content]
    /\ seen' = IF pc \in {"pick", "look", "open"} /\ memo[f] = None
               THEN [seen EXCEPT ![f] = @ \cup {content}]
               ELSE seen
    /\ gap' = (gap \/ (content = Absent /\ f = path /\ pc \in {"look", "open"}))
    /\ UNCHANGED <<inline, explicit, env, memo, tokens, pc, vault, force,
                   path, auth, token, settled>>

Expire(e) ==
    /\ tokens' = tokens \ {e}
    /\ UNCHANGED <<world, memo, pc, vault, force, path, auth, token, history>>

(* Another process, perhaps another job of the pipeline.                     *)
Restart ==
    /\ env' \in Surroundings
    /\ memo' = [f \in Files |-> None]
    /\ pc' = "idle" /\ vault' = None /\ force' = FALSE
    /\ auth' = None /\ token' = None
    /\ Leave
    /\ settled' = [v \in Vaults |-> None]
    /\ UNCHANGED <<file, inline, explicit, edits, tokens>>

-----------------------------------------------------------------------------
(* Specification *)

Resolve == Pick \/ Remembered \/ Look \/ NoFile \/ Open \/ CannotOpen

Obtain == StaticToken \/ NeedLogin \/ Incomplete \/ Reuse \/ Login \/ NoLogin

Next ==
    \/ \E v \in Vaults, forced \in BOOLEAN : Call(v, forced)
    \/ Resolve \/ Obtain \/ Return
    \/ \E f \in Files, content \in Contents : Edit(f, content)
    \/ \E e \in tokens : Expire(e)
    \/ Restart

Spec == Init /\ [][Next]_vars

-----------------------------------------------------------------------------
(* Properties *)

(* The docstring (35-36, 69-71) as a function of what the two files say:     *)
(* that of the host is read INSTEAD of the configured one when it exists,    *)
(* its keys OVERRIDE the inline ones, and a broken file is an error, never   *)
(* passed over.  None stands for the error.                                  *)
Documented(v, host, conf) ==
    LET content == IF HostOf[v] # None /\ host # Absent THEN host ELSE conf
    IN  IF content = Broken \/ (content = Absent /\ explicit /\ DOMAIN inline = {})
        THEN None
        ELSE IF content = Absent THEN inline
        ELSE Overlay(inline, content)

(* What is returned is documented for contents of this call.                 *)
Told ==
    \E conf \in seen[Conf] :
      \E host \in IF HostOf[vault] = None THEN {Absent} ELSE seen[HostOf[vault]] :
          auth' = Documented(vault, host, conf)

(* However the files change while _auth looks at them, its result is what    *)
(* the docstring says of contents they had in this call, or that the process *)
(* remembers.  Only when the file it has chosen is removed under its hands   *)
(* may it fail, or do with the inline block, and pass over the configured    *)
(* file (293, 300).                                                          *)
AsDocumented ==
    [][(path # None /\ pc' \in {"token", "noauth"}) =>
         Told \/ (gap /\ auth' \in {inline, None})]_vars

(* Within one process the credentials for a Vault change only upwards, from  *)
(* inline to the configured file to that of the host, and never between two  *)
(* versions of one file: a retry after a 403, and every later lookup, is     *)
(* made by the same identity or by one of a file that came later.            *)
OnlyUpwards ==
    [][\A v \in Vaults :
         \/ settled[v] = None \/ settled'[v] = None
         \/ settled'[v] = settled[v]
         \/ settled'[v][1] > settled[v][1]
         \/ gap]_vars

(* A token that comes from a login, of this process or of another that the   *)
(* cache outlived, was issued by the Vault it is sent to, at the mount and   *)
(* for the role of the settings in force now, whatever files, methods and    *)
(* processes the cache has seen.  It may have been issued to the JWT of an   *)
(* earlier job or to a secret_id since replaced, which the key leaves out    *)
(* (421, 437); but not after a 403, when it is what the credentials of this  *)
(* very call are worth (366-372, 504).                                       *)
TokenIsOwn ==
    LET login == Payload(auth, env)
    IN  (pc = "done" /\ Method(auth) # "token") =>
          /\ token.vault = vault
          /\ token.login.method = login.method
          /\ token.login.mount = login.mount
          /\ token.login.role = login.role
          /\ force => token.login.proof = login.proof
=============================================================================
