-------------------------- MODULE MCBullyElection --------------------------
(* Small instances of BullyElection for TLC. *)
EXTENDS BullyElection, TLC

CONSTANTS hub, a, b, c

(* The hub has a joiner below it and two above. *)
MCPriority == b :> 1 @@ hub :> 2 @@ a :> 3 @@ c :> 4
MCPriorityOneEachSide == b :> 1 @@ hub :> 2 @@ a :> 3
=============================================================================
