---------------------------- MODULE MCPillarCheck ----------------------------
(* Rosters for the runs of PillarCheck.                                      *)
EXTENDS PillarCheck, TLC

CONSTANTS h1, h2, h3, e1, e2, e3

ThreeHosts == {h1, h2, h3}
AllEnvs    == {e1, e2, e3}

(* Names that do not collide.                                                *)
OwnEnv == h1 :> e1 @@ h2 :> e2 @@ h3 :> e3

(* web-1.example, web.1-example and a third one.                             *)
SharedEnv == h1 :> e1 @@ h2 :> e1 @@ h3 :> e3
=============================================================================
