---------------------------- MODULE MCAuthResolve ----------------------------
(* Auth files and inline blocks for the run of AuthResolve: an AppRole, a    *)
(* static token, an empty file; one Vault with a host name and one without.  *)
(* The role of the JWT and the role_id of the AppRole are alike.             *)
EXTENDS AuthResolve

CONSTANTS va, vb, ha

OneHost == [v \in Vaults |-> IF v = va THEN ha ELSE None]

Empty == [key \in {} |-> None]

AppRole == [method |-> "approle", role_id |-> "web", secret_id |-> "s"]

Static == [method |-> "token", token |-> "t"]

JwtBlock == [method |-> "jwt", role |-> "web", jwt_file |-> "id"]

SomeContents == {Absent, Broken, Empty, AppRole, Static}

SomeProfiles ==
    {[inline |-> Empty, explicit |-> TRUE],
     [inline |-> Empty, explicit |-> FALSE],
     [inline |-> JwtBlock, explicit |-> TRUE]}

(* No JWT, that of one job in a variable, that of another in a file.         *)
SomeSurroundings ==
    {Empty, [VAULT_ID_TOKEN |-> "job 1"], [id |-> "job 2"]}
=============================================================================
