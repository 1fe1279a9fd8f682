----------------------------- MODULE JobPromise -----------------------------
(***************************************************************************)
(* What a cluster promises whoever submits a job: an accepted job is       *)
(* decided at most once, by failure at any time or by success when every   *)
(* segment has been encoded, and no encoding is ever taken back.  How the  *)
(* segments travel, wait and move between nodes does not show.             *)
(***************************************************************************)
CONSTANTS Jobs, Segs

VARIABLES
  accepted,      \* the jobs the master answered JobAccepted
  encoded,       \* the segments of a job some worker has encoded
  verdict        \* the terminal messages broadcast for a job

vars == <<accepted, encoded, verdict>>

(* The verdicts a job may get once enc is encoded. *)
Verdicts(enc) ==
  {"failed"} \union (IF enc = Segs THEN {"complete", "completeWithOutput"} ELSE {})

Init ==
  /\ accepted = {}
  /\ encoded = [j \in Jobs |-> {}]
  /\ verdict = [j \in Jobs |-> <<>>]

Accept(j) ==
  /\ accepted' = accepted \union {j}
  /\ j \notin accepted
  /\ UNCHANGED <<encoded, verdict>>

(* One more segment is encoded; if that was the last result the master      *)
(* waited for, the job may be decided with it.                              *)
Encode(j, s) ==
  /\ j \in accepted
  /\ encoded' = [encoded EXCEPT ![j] = @ \union {s}]
  /\ \/ UNCHANGED verdict
     \/ /\ verdict[j] = <<>>
        /\ \E v \in Verdicts(encoded'[j]) : verdict' = [verdict EXCEPT ![j] = <<v>>]
  /\ UNCHANGED accepted

(* Jobs are decided on what has been encoded: several at once if several    *)
(* assemblies ended between two ticks.                                      *)
Decide(J) ==
  /\ \A j \in J : verdict[j] = <<>>
  /\ \E v \in [J -> {"failed", "complete", "completeWithOutput"}] :
       /\ \A j \in J : v[j] \in Verdicts(encoded[j])
       /\ verdict' = [j \in Jobs |-> IF j \in J THEN <<v[j]>> ELSE verdict[j]]
  /\ UNCHANGED <<accepted, encoded>>

Next ==
  \/ \E j \in Jobs : Accept(j)
  \/ \E j \in Jobs, s \in Segs : Encode(j, s)
  \/ \E J \in SUBSET accepted : Decide(J)

Spec == Init /\ [][Next]_vars
=============================================================================
