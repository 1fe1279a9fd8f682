-------------------------- MODULE MCJobScheduling --------------------------
(* Small instances of JobScheduling for TLC. *)
EXTENDS JobScheduling, TLC

CONSTANTS w1, w2

(* Equal nodes. *)
EqualCores == [w \in Workers |-> 1]

(* Nothing tells segments, jobs or equal nodes apart. *)
Symmetry == Permutations(Segs) \union Permutations(Jobs) \union Permutations(Workers)

(* w2 is the more powerful node. *)
MCCores == w1 :> 1 @@ w2 :> 2
=============================================================================
