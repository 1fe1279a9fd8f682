---------------------------- MODULE JobScheduling ----------------------------
(***************************************************************************)
(* The life of transcode jobs in a cluster, from the master's JobSubmit    *)
(* handler to the terminal broadcast.  The master's side is the Scheduler  *)
(* of cluster/src/scheduler.rs, the node table of cluster/src/node.rs and  *)
(* the handlers of cluster/src/main.rs that drive them; the worker's side  *)
(* is handle_segment_assign and poll_worker_results.  One process, one     *)
(* event loop: each handler or tick of `tokio::select!` is one action.     *)
(*                                                                         *)
(* Abstractions of data: a segment descriptor is its id and whether it is  *)
(* the one the analysis made or the placeholder of reassign_from_node; an  *)
(* encoding is "running", then "ok" or "err"; time is nondeterministic.    *)
(* A connection is a bag in each direction: the order of two messages of   *)
(* one connection never matters here except that NodeLeave comes last,     *)
(* and its guard says so.                                                  *)
(***************************************************************************)
EXTENDS Integers, Sequences, FiniteSets

CONSTANTS
  Workers,       \* the nodes that encode; the master is not one of them
  Jobs,          \* job ids, each submitted at most once
  Segs,          \* the segment ids of every job (ids restart in each job)
  MaxWorkers,    \* capabilities.max_concurrent_workers of every node
  Cores,         \* capabilities.cpu_cores, a function on Workers
  HasStore,      \* the cluster has an object store (K8s mode)
  None,          \* no node, no task
  MaxSuspects,   \* bound: nodes declared dead while a message of theirs can arrive
  MaxFaults      \* bound: these, lost connections, stopped workers, lost roles

Desc == [id: Segs, real: BOOLEAN]
AssignMsg == [job: Jobs, seg: Segs, real: BOOLEAN]
ResultMsg == [job: Jobs, seg: Segs, ok: BOOLEAN]
Task == [job: Jobs, real: BOOLEAN, st: {"running", "ok", "err"}]
NodeStatus == {"unknown", "active", "busy", "dead", "gone"}
Outcome == {"failed", "complete", "completeWithOutput"}

ASSUME ConstAssumption ==
  /\ IsFiniteSet(Workers) /\ IsFiniteSet(Segs) /\ IsFiniteSet(Jobs)
  /\ Segs # {}                       \* analyze_video returns at least one segment
  /\ MaxWorkers \in Nat \ {0}
  /\ Cores \in [Workers -> Nat]
  /\ HasStore \in BOOLEAN
  /\ None \notin Workers /\ None \notin Task
  /\ MaxSuspects \in Nat /\ MaxFaults \in Nat

VARIABLES
  isMaster,      \* election.is_leader() of the node that is modelled as master
  known,         \* the keys of Scheduler.jobs
  pending,       \* JobSchedule.pending, a queue of descriptors per job
  assigned,      \* JobSchedule.assigned, segment -> node or None
  completed,     \* the keys of JobSchedule.completed
  failed,        \* the keys of JobSchedule.failed
  ctx,           \* the keys of App.job_contexts
  uris,          \* the keys of JobContext.output_uris
  assembly,      \* the assembly task of a job and its entry in pending_assembly
  told,          \* the terminal messages broadcast for a job, in order
  status,        \* the master's NodeInfo.status of a node
  load,          \* the master's NodeInfo.load.active_workers of a node
  connected,     \* the master's transport has a peer handle tagged with the node
  up,            \* the worker process runs
  replaced,      \* history: receivers replaced by another job's, <<worker, job, segment>>
  slot,          \* pending_results of a worker: segment id -> its task or None
  toWorker,      \* SegmentAssign messages on their way to a worker
  toMaster,      \* SegmentComplete and SegmentFailed on their way to the master
  leaving,       \* a NodeLeave of the worker is on its way to the master
  suspects, drops, stepDowns   \* faults so far, for the bounds only

schedVars == <<known, pending, assigned, completed, failed>>
jobVars   == <<ctx, uris, assembly, told>>
nodeVars  == <<status, load, connected>>
workVars  == <<up, slot, replaced>>
netVars   == <<toWorker, toMaster, leaving>>
bounds    == <<suspects, drops, stepDowns>>
faults    == suspects + drops + stepDowns
vars == <<isMaster, schedVars, jobVars, nodeVars, workVars, netVars, bounds>>

-----------------------------------------------------------------------------
(* Helpers *)

BagAdd(b, S) == [m \in DOMAIN b |-> IF m \in S THEN b[m] + 1 ELSE b[m]]
BagRemove(b, m) == [b EXCEPT ![m] = @ - 1]

(* The sequences that hold each element of S once. *)
Orderings(S) ==
  { q \in [1..Cardinality(S) -> S] :
      /\ \A i, k \in 1..Cardinality(S) : q[i] = q[k] => i = k
      /\ \A x \in S : \E i \in 1..Cardinality(S) : q[i] = x }

(* The sequence that holds each number of I once, smallest first. *)
InOrder(I) ==
  { q \in Orderings(I) : \A i, k \in 1..Cardinality(I) : i < k => q[i] < q[k] }

PendingIds(j) == { pending[j][i].id : i \in 1..Len(pending[j]) }
HeldBy(j, w) == { s \in Segs : assigned[j][s] = w }
LocalWorkers(w) == { s \in Segs : slot[w][s] # None }

(* NodeManager::active_nodes, restricted to nodes with a live peer. *)
Reachable == { w \in Workers : connected[w] /\ status[w] \in {"active", "busy"} }

Slots(w) == IF load[w] >= MaxWorkers THEN 0 ELSE MaxWorkers - load[w]
Score(w) == Slots(w) * Cores[w]
(* Mutant: the status filter is lost. *)
AvailableAnyStatus == { w \in Workers : connected[w] /\ Slots(w) > 0 }
Available == { w \in Reachable : status[w] = "active" /\ Slots(w) > 0 }

-----------------------------------------------------------------------------
Init ==
  /\ isMaster = TRUE
  /\ known = {} /\ ctx = {}
  /\ pending = [j \in Jobs |-> <<>>]
  /\ assigned = [j \in Jobs |-> [s \in Segs |-> None]]
  /\ completed = [j \in Jobs |-> {}]
  /\ failed = [j \in Jobs |-> {}]
  /\ uris = [j \in Jobs |-> {}]
  /\ assembly = [j \in Jobs |-> "none"]
  /\ told = [j \in Jobs |-> <<>>]
  /\ status = [w \in Workers |-> "unknown"]
  /\ load = [w \in Workers |-> 0]
  /\ connected = [w \in Workers |-> FALSE]
  /\ up = [w \in Workers |-> TRUE]
  /\ replaced = {}
  /\ slot = [w \in Workers |-> [s \in Segs |-> None]]
  /\ toWorker = [w \in Workers |-> [m \in AssignMsg |-> 0]]
  /\ toMaster = [w \in Workers |-> [m \in ResultMsg |-> 0]]
  /\ leaving = [w \in Workers |-> FALSE]
  /\ suspects = 0 /\ drops = 0 /\ stepDowns = 0

(* The handshake of a new worker ends: handle_identified tags the peer and  *)
(* registers the node, Active and with no load.                             *)
Join(w) ==
  /\ status[w] = "unknown"
  /\ status' = [status EXCEPT ![w] = "active"]
  /\ connected' = [connected EXCEPT ![w] = TRUE]
  /\ UNCHANGED <<isMaster, schedVars, jobVars, load, workVars, netVars, bounds>>

(* handle_job_submit when segmentation succeeds: a context, a schedule with *)
(* every segment pending, by complexity estimate (so in any order), and     *)
(* JobAccepted.  The error replies change no state.                         *)
AddJob(j) ==
  \E q \in Orderings(Segs) :
    /\ pending' = [pending EXCEPT ![j] = [i \in DOMAIN q |-> [id |-> q[i], real |-> TRUE]]]
    /\ assigned' = [assigned EXCEPT ![j] = [s \in Segs |-> None]]
    /\ completed' = [completed EXCEPT ![j] = {}]
    /\ failed' = [failed EXCEPT ![j] = {}]

JobSubmit(j) ==
  /\ isMaster
  /\ j \notin known
  /\ ctx' = ctx \union {j}
  /\ uris' = [uris EXCEPT ![j] = {}]
  /\ known' = known \union {j}
  /\ AddJob(j)
  /\ UNCHANGED <<isMaster, assembly, told, nodeVars, workVars, netVars, bounds>>

-----------------------------------------------------------------------------
(* Scheduler::schedule.  A plan gives each job the nodes of the prefix of   *)
(* its queue that is assigned in this tick.                                 *)

Given(t, w) ==
  Cardinality({ p \in Jobs \X (1..Cardinality(Segs)) :
                  p[2] <= Len(t[p[1]]) /\ t[p[1]][p[2]] = w })

(* Slots are never exceeded and never left while a segment waits; jobs are  *)
(* drained one after the other; the best node is filled before the next,    *)
(* and the most complex segments go to it.                                  *)
IsPlan(t) ==
  /\ \A j \in Jobs : Len(t[j]) <= Len(pending[j])
  /\ \A w \in Available : Given(t, w) <= Slots(w)
  /\ (\E j \in Jobs : Len(t[j]) < Len(pending[j]))
       => \A w \in Available : Given(t, w) = Slots(w)
  /\ \A j, k \in Jobs : j # k /\ 0 < Len(t[j]) /\ Len(t[j]) < Len(pending[j])
       => Len(t[k]) \in {0, Len(pending[k])}
  /\ \A w, v \in Available : Score(w) > Score(v) /\ Given(t, v) > 0
       => Given(t, w) = Slots(w)
  /\ \A j \in Jobs : \A i, k \in 1..Len(t[j]) :
       i < k => Score(t[j][i]) >= Score(t[j][k])

Plans ==
  { t \in [Jobs -> UNION { [1..n -> Available] : n \in 0..Cardinality(Segs) }] : IsPlan(t) }

(* run_scheduler with the plan t.  It sends one segment after the other, so *)
(* a connection that is lost after the filter fails the sends of a job to    *)
(* that node from some segment on.  What could not be sent is requeued in    *)
(* turn, each with its own descriptor; a segment of a job without context is *)
(* marked assigned and never sent.                                           *)
Taken(t, j) == 1..Len(t[j])

Failures(t, D) ==
  { F \in SUBSET { p \in ctx \X (1..Cardinality(Segs)) :
                    p[2] \in Taken(t, p[1]) /\ t[p[1]][p[2]] \in D } :
      \A p \in F : \A i \in Taken(t, p[1]) :
        i > p[2] /\ t[p[1]][i] = t[p[1]][p[2]] => <<p[1], i>> \in F }

Unsent(t, j, F) == { i \in Taken(t, j) : <<j, i>> \in F }

(* Mutant: a segment that is given out stays in the queue. *)
UntakenAll(t, j) == pending[j]

Untaken(t, j) == SubSeq(pending[j], Len(t[j]) + 1, Len(pending[j]))

RunScheduler(t, F) ==
  /\ assigned' = [j \in Jobs |-> [s \in Segs |->
       IF \E i \in Taken(t, j) : pending[j][i].id = s
         THEN LET i == CHOOSE i \in Taken(t, j) : pending[j][i].id = s
              IN  IF i \in Unsent(t, j, F) THEN None ELSE t[j][i]
         ELSE assigned[j][s]]]
  /\ failed' = [j \in Jobs |-> failed[j] \ { pending[j][i].id : i \in Unsent(t, j, F) }]
  /\ \E q \in [Jobs -> UNION { InOrder(Unsent(t, j, F)) : j \in Jobs }] :
       /\ \A j \in Jobs : q[j] \in InOrder(Unsent(t, j, F))
       /\ pending' = [j \in Jobs |->
            Untaken(t, j) \o [k \in DOMAIN q[j] |-> pending[j][q[j][k]]]]
  /\ toWorker' = [w \in Workers |-> BagAdd(toWorker[w],
       IF ~up[w] THEN {} ELSE
         { m \in AssignMsg : /\ m.job \in ctx
                             /\ \E i \in Taken(t, m.job) \ Unsent(t, m.job, F) :
                                  /\ t[m.job][i] = w
                                  /\ pending[m.job][i] = [id |-> m.seg, real |-> m.real] })]

(* Mutant: pending_assembly keeps what it announced. *)
PollAssemblyKeeps ==
  /\ told' = [j \in Jobs |->
       CASE assembly[j] = "ok"  -> Append(told[j], "completeWithOutput")
         [] assembly[j] = "err" -> Append(told[j], "failed")
         [] OTHER -> told[j]]
  /\ UNCHANGED assembly

(* poll_assembly_results: announce every assembly that has ended. *)
PollAssembly ==
  /\ told' = [j \in Jobs |->
       CASE assembly[j] = "ok"  -> Append(told[j], "completeWithOutput")
         [] assembly[j] = "err" -> Append(told[j], "failed")
         [] OTHER -> told[j]]
  /\ assembly' = [j \in Jobs |-> IF assembly[j] \in {"ok", "err"} THEN "none" ELSE assembly[j]]

(* The schedule tick of a master. *)
ScheduleTick ==
  \E t \in IF isMaster THEN Plans ELSE { [j \in Jobs |-> <<>>] } :
  \E D \in SUBSET { w \in Available : Given(t, w) > 0 } : \E F \in Failures(t, D) :
    /\ faults + Cardinality(D) <= MaxFaults
    /\ drops' = drops + Cardinality(D)
    /\ connected' = [w \in Workers |-> connected[w] /\ w \notin D]
    /\ RunScheduler(t, F)
    /\ PollAssembly
    /\ UNCHANGED <<isMaster, known, completed, ctx, uris, status, load, workVars,
                   toMaster, leaving, suspects, stepDowns>>

-----------------------------------------------------------------------------
(* Results at the master *)

(* Mutant: the failures are not looked at. *)
CheckJobCompletionBlind(j, done, bad, out) ==
  \/ /\ Cardinality(done) + Cardinality(bad) < Cardinality(Segs)
     /\ UNCHANGED <<told, ctx, assembly>>
  \/ /\ Cardinality(done) + Cardinality(bad) >= Cardinality(Segs)
     /\ told' = [told EXCEPT ![j] = Append(@, "complete")]
     /\ ctx' = ctx \ {j}
     /\ UNCHANGED assembly

(* Mutant: the first failure ends the job, the others announce it again. *)
CheckJobCompletionEarly(j, done, bad, out) ==
  \/ /\ bad # {}
     /\ told' = [told EXCEPT ![j] = Append(@, "failed")]
     /\ ctx' = ctx \ {j}
     /\ UNCHANGED assembly
  \/ /\ bad = {}
     /\ UNCHANGED <<told, ctx, assembly>>

(* check_job_completion(j), given what the handler just made of the job's  *)
(* completed, failed and output_uris.                                      *)
CheckJobCompletion(j, done, bad, out) ==
  LET finished == Cardinality(done) + Cardinality(bad) >= Cardinality(Segs)
      assemble == HasStore /\ j \in ctx /\ Cardinality(out) = Cardinality(Segs)
  IN
  \/ /\ ~finished
     /\ UNCHANGED <<told, ctx, assembly>>
  \/ /\ finished /\ bad # {}
     /\ told' = [told EXCEPT ![j] = Append(@, "failed")]
     /\ ctx' = ctx \ {j}
     /\ UNCHANGED assembly
  \/ /\ finished /\ bad = {} /\ assemble
     /\ assembly' = [assembly EXCEPT ![j] = "running"]
     /\ ctx' = ctx \ {j}
     /\ UNCHANGED told
  \/ /\ finished /\ bad = {} /\ ~assemble
     /\ told' = [told EXCEPT ![j] = Append(@, "complete")]
     /\ ctx' = ctx \ {j}
     /\ UNCHANGED assembly

(* Mutant: the output is recorded after the check. *)
SegmentCompleteLate(j, s) ==
  /\ uris' = [uris EXCEPT ![j] = @ \union {s}]
  /\ assigned' = [assigned EXCEPT ![j][s] = None]
  /\ completed' = [completed EXCEPT ![j] = @ \union {s}]
  /\ CheckJobCompletion(j, completed[j] \union {s}, failed[j], uris[j])
  /\ UNCHANGED failed

(* Scheduler::mark_complete, after recording the output if it is in the    *)
(* store and the job still has a context.                                  *)
SegmentComplete(j, s) ==
  LET done == completed[j] \union {s}
      out  == IF HasStore /\ j \in ctx THEN uris[j] \union {s} ELSE uris[j]
  IN /\ uris' = [uris EXCEPT ![j] = out]
     /\ assigned' = [assigned EXCEPT ![j][s] = None]
     /\ completed' = [completed EXCEPT ![j] = done]
     /\ CheckJobCompletion(j, done, failed[j], out)
     /\ UNCHANGED failed

(* Scheduler::mark_failed *)
SegmentFailed(j, s) ==
  LET bad == failed[j] \union {s}
  IN /\ assigned' = [assigned EXCEPT ![j][s] = None]
     /\ failed' = [failed EXCEPT ![j] = bad]
     /\ CheckJobCompletion(j, completed[j], bad, uris[j])
     /\ UNCHANGED <<uris, completed>>

(* handle_segment_complete and handle_segment_failed.  A node that is not  *)
(* master drops the message; a job this node never knew is ignored.        *)
RecvResult(w, m) ==
  /\ toMaster[w][m] > 0
  /\ toMaster' = [toMaster EXCEPT ![w] = BagRemove(@, m)]
  /\ \/ /\ isMaster /\ m.job \in known
        /\ \/ m.ok  /\ SegmentComplete(m.job, m.seg)
           \/ ~m.ok /\ SegmentFailed(m.job, m.seg)
     \/ /\ ~(isMaster /\ m.job \in known)
        /\ UNCHANGED <<assigned, completed, failed, jobVars>>
  /\ UNCHANGED <<isMaster, known, pending, nodeVars, workVars, toWorker, leaving, bounds>>

(* The task spawned by check_job_completion ends. *)
AssemblyEnds(j, r) ==
  /\ assembly[j] = "running"
  /\ assembly' = [assembly EXCEPT ![j] = r]
  /\ UNCHANGED <<isMaster, schedVars, ctx, uris, told, nodeVars, workVars, netVars, bounds>>

-----------------------------------------------------------------------------
(* Node health *)

(* Mutant: the segments leave the table and are not queued. *)
ReassignFromNodeDrops(w) ==
  /\ assigned' = [j \in Jobs |-> [s \in Segs |->
                    IF assigned[j][s] = w THEN None ELSE assigned[j][s]]]
  /\ UNCHANGED pending

(* Mutant: the segments are queued and stay in the table. *)
ReassignFromNodeKeeps(w) ==
  /\ UNCHANGED assigned
  /\ \E q \in [Jobs -> UNION { Orderings(HeldBy(j, w)) : j \in Jobs }] :
       /\ \A j \in Jobs : q[j] \in Orderings(HeldBy(j, w))
       /\ pending' = [j \in Jobs |->
            pending[j] \o [i \in DOMAIN q[j] |-> [id |-> q[j][i], real |-> FALSE]]]

(* Scheduler::reassign_from_node: what the node held, in HashMap order, goes *)
(* to the end of the queue with a placeholder descriptor.                    *)
ReassignFromNode(w) ==
  /\ assigned' = [j \in Jobs |-> [s \in Segs |->
                    IF assigned[j][s] = w THEN None ELSE assigned[j][s]]]
  /\ \E q \in [Jobs -> UNION { Orderings(HeldBy(j, w)) : j \in Jobs }] :
       /\ \A j \in Jobs : q[j] \in Orderings(HeldBy(j, w))
       /\ pending' = [j \in Jobs |->
            pending[j] \o [i \in DOMAIN q[j] |-> [id |-> q[j][i], real |-> FALSE]]]

(* check_health finds w past the deadline.  That costs one of MaxSuspect    *)
(* unless w is gone for good: no connection and nothing of it in flight.    *)
Silent(w) ==
  /\ ~(up[w] /\ connected[w])
  /\ ~leaving[w] /\ \A m \in ResultMsg : toMaster[w][m] = 0

DeclareDead(w) ==
  /\ status[w] \in {"active", "busy"}
  /\ status' = [status EXCEPT ![w] = "dead"]
  /\ \/ Silent(w) /\ UNCHANGED suspects
     \/ ~Silent(w) /\ suspects < MaxSuspects /\ faults < MaxFaults /\ suspects' = suspects + 1
  /\ \/ isMaster /\ ReassignFromNode(w)
     \/ ~isMaster /\ UNCHANGED <<assigned, pending>>
  /\ UNCHANGED <<isMaster, known, completed, failed, jobVars, load, connected,
                 workVars, netVars, drops, stepDowns>>

(* Mutant: a leaving node takes its segments with it. *)
RecvLeaveOnly(w) ==
  /\ leaving[w]
  /\ \A m \in ResultMsg : toMaster[w][m] = 0
  /\ leaving' = [leaving EXCEPT ![w] = FALSE]
  /\ status' = [status EXCEPT ![w] = "gone"]
  /\ UNCHANGED <<isMaster, schedVars, jobVars, load, connected, workVars, toWorker,
                 toMaster, bounds>>

(* handle_node_leave; NodeLeave is the last message of its connection. *)
RecvLeave(w) ==
  /\ leaving[w]
  /\ \A m \in ResultMsg : toMaster[w][m] = 0
  /\ leaving' = [leaving EXCEPT ![w] = FALSE]
  /\ status' = [status EXCEPT ![w] = "gone"]
  /\ \/ isMaster /\ ReassignFromNode(w)
     \/ ~isMaster /\ UNCHANGED <<assigned, pending>>
  /\ UNCHANGED <<isMaster, known, completed, failed, jobVars, load, connected,
                 workVars, toWorker, toMaster, bounds>>

(* Mutant: the load accumulates. *)
HeartbeatAdds(w) ==
  /\ up[w] /\ connected[w]
  /\ status[w] \in {"active", "busy", "dead"}
  /\ LET n == load[w] + Cardinality(LocalWorkers(w)) IN
       /\ load' = [load EXCEPT ![w] = n]
       /\ status' = [status EXCEPT ![w] = IF n >= MaxWorkers THEN "busy" ELSE "active"]
  /\ UNCHANGED <<isMaster, schedVars, jobVars, connected, workVars, netVars, bounds>>

(* send_heartbeat at the worker and handle_heartbeat at the master, in one  *)
(* step: NodeManager::update_heartbeat ignores a node that is not in the    *)
(* table.  Between two heartbeats the master's load of the node is stale.   *)
Heartbeat(w) ==
  /\ up[w] /\ connected[w]
  /\ status[w] \in {"active", "busy", "dead"}
  /\ LET n == Cardinality(LocalWorkers(w)) IN
       /\ load' = [load EXCEPT ![w] = n]
       /\ status' = [status EXCEPT ![w] = IF n >= MaxWorkers THEN "busy" ELSE "active"]
  /\ UNCHANGED <<isMaster, schedVars, jobVars, connected, workVars, netVars, bounds>>

-----------------------------------------------------------------------------
(* Workers *)

(* Mutant: a full worker drops the assignment. *)
RecvAssignIfFree(w, m) ==
  /\ up[w] /\ toWorker[w][m] > 0
  /\ toWorker' = [toWorker EXCEPT ![w] = BagRemove(@, m)]
  /\ slot' = IF LocalWorkers(w) # {} THEN slot
             ELSE [slot EXCEPT ![w][m.seg] = [job |-> m.job, real |-> m.real, st |-> "running"]]
  /\ UNCHANGED <<isMaster, schedVars, jobVars, nodeVars, up, replaced, toMaster, leaving, bounds>>

(* handle_segment_assign.  The entry is keyed by the segment id alone: an   *)
(* earlier receiver under the same id is replaced, its task's result lost.  *)
RecvAssign(w, m) ==
  /\ up[w] /\ toWorker[w][m] > 0
  /\ toWorker' = [toWorker EXCEPT ![w] = BagRemove(@, m)]
  /\ slot' = [slot EXCEPT ![w][m.seg] = [job |-> m.job, real |-> m.real, st |-> "running"]]
  /\ replaced' = replaced \union
       { <<w, j, m.seg>> : j \in { k \in Jobs : slot[w][m.seg] # None
                                              /\ slot[w][m.seg].job = k /\ k # m.job } }
  /\ UNCHANGED <<isMaster, schedVars, jobVars, nodeVars, up, toMaster, leaving, bounds>>

(* spawn_worker returns. *)
WorkerEnds(w, s, r) ==
  /\ slot[w][s] # None /\ slot[w][s].st = "running"
  /\ slot' = [slot EXCEPT ![w][s].st = r]
  /\ UNCHANGED <<isMaster, schedVars, jobVars, nodeVars, up, replaced, netVars, bounds>>

(* poll_worker_results: every ended task is removed and its result sent, if *)
(* the connection it came from is still there.                              *)
Ended(w) == { s \in LocalWorkers(w) : slot[w][s].st # "running" }

PollWorkerResults(w) ==
  /\ Ended(w) # {}
  /\ slot' = [slot EXCEPT ![w] = [s \in Segs |-> IF s \in Ended(w) THEN None ELSE @[s]]]
  /\ toMaster' = [toMaster EXCEPT ![w] = BagAdd(@,
       IF connected[w]
         THEN { [job |-> slot[w][s].job, seg |-> s, ok |-> slot[w][s].st = "ok"] : s \in Ended(w) }
         ELSE {})]
  /\ UNCHANGED <<isMaster, schedVars, jobVars, nodeVars, up, replaced, toWorker, leaving, bounds>>

(* The worker process ends, and with it its tasks and the assignments it    *)
(* has not read.  On a signal it sends NodeLeave first (send_leave).        *)
StopWorker(w) ==
  /\ up[w] /\ connected[w] /\ faults < MaxFaults
  /\ drops' = drops + 1
  /\ up' = [up EXCEPT ![w] = FALSE]
  /\ slot' = [slot EXCEPT ![w] = [s \in Segs |-> None]]
  /\ toWorker' = [toWorker EXCEPT ![w] = [m \in AssignMsg |-> 0]]
  /\ UNCHANGED <<isMaster, schedVars, jobVars, nodeVars, replaced, toMaster, suspects, stepDowns>>

Leave(w) == StopWorker(w) /\ leaving' = [leaving EXCEPT ![w] = TRUE]
Crash(w) == StopWorker(w) /\ UNCHANGED leaving

(* The master's handle of w goes away: the connection of a stopped worker,  *)
(* or one that breaks while both ends live on.  Nobody ever reconnects.     *)
Disconnect(w) ==
  /\ connected[w]
  /\ \/ ~up[w] /\ UNCHANGED drops
     \/ up[w] /\ faults < MaxFaults /\ drops' = drops + 1
  /\ connected' = [connected EXCEPT ![w] = FALSE]
  /\ UNCHANGED <<isMaster, schedVars, jobVars, status, load, workVars, netVars,
                 suspects, stepDowns>>

(* What a lost connection had not delivered may never arrive. *)
LoseInFlight(w) ==
  /\ ~connected[w]
  /\ \/ leaving[w]
     \/ \E m \in AssignMsg : toWorker[w][m] > 0
     \/ \E m \in ResultMsg : toMaster[w][m] > 0
  /\ leaving' = [leaving EXCEPT ![w] = FALSE]
  /\ toWorker' = [toWorker EXCEPT ![w] = [m \in AssignMsg |-> 0]]
  /\ toMaster' = [toMaster EXCEPT ![w] = [m \in ResultMsg |-> 0]]
  /\ UNCHANGED <<isMaster, schedVars, jobVars, nodeVars, workVars, bounds>>

-----------------------------------------------------------------------------
(* The election takes the role from this node and may give it back; its     *)
(* scheduler and contexts stay in memory all along.                         *)
StepDown ==
  /\ isMaster /\ faults < MaxFaults
  /\ isMaster' = FALSE
  /\ stepDowns' = stepDowns + 1
  /\ UNCHANGED <<schedVars, jobVars, nodeVars, workVars, netVars, suspects, drops>>

StepUp ==
  /\ ~isMaster
  /\ isMaster' = TRUE
  /\ UNCHANGED <<schedVars, jobVars, nodeVars, workVars, netVars, bounds>>

-----------------------------------------------------------------------------
WorkerStep(w) ==
  \/ \E m \in AssignMsg : RecvAssign(w, m)
  \/ \E s \in Segs, r \in {"ok", "err"} : WorkerEnds(w, s, r)
  \/ PollWorkerResults(w)

MasterStep(w) ==
  \/ \E m \in ResultMsg : RecvResult(w, m)
  \/ Heartbeat(w)
  \/ RecvLeave(w)
  \/ DeclareDead(w)

Fault(w) == Leave(w) \/ Crash(w) \/ Disconnect(w) \/ LoseInFlight(w)

Next ==
  \/ \E j \in Jobs : JobSubmit(j)
  \/ ScheduleTick
  \/ \E j \in Jobs, r \in {"ok", "err"} : AssemblyEnds(j, r)
  \/ \E w \in Workers : Join(w) \/ WorkerStep(w) \/ MasterStep(w) \/ Fault(w)
  \/ StepDown
  \/ StepUp

Spec == Init /\ [][Next]_vars

(* The event loop of a running process takes every branch of its select    *)
(* again and again; a spawned task ends; TCP delivers; the health tick      *)
(* finds a silent node.  Nothing makes a fault, a job or a worker appear.   *)
Fairness ==
  /\ WF_vars(ScheduleTick)
  /\ \A j \in Jobs : WF_vars(\E r \in {"ok", "err"} : AssemblyEnds(j, r))
  /\ \A w \in Workers :
       /\ WF_vars(\E m \in AssignMsg : RecvAssign(w, m))
       /\ \A s \in Segs : WF_vars(\E r \in {"ok", "err"} : WorkerEnds(w, s, r))
       /\ WF_vars(PollWorkerResults(w))
       /\ WF_vars(\E m \in ResultMsg : RecvResult(w, m))
       /\ WF_vars(Heartbeat(w))
       /\ WF_vars(RecvLeave(w))
       /\ WF_vars(Silent(w) /\ DeclareDead(w))
       /\ WF_vars(Join(w))

FairSpec == Spec /\ Fairness

-----------------------------------------------------------------------------
(* Properties *)

TypeOK ==
  /\ isMaster \in BOOLEAN
  /\ known \subseteq Jobs /\ ctx \subseteq Jobs
  /\ pending \in [Jobs -> Seq(Desc)]
  /\ assigned \in [Jobs -> [Segs -> Workers \union {None}]]
  /\ completed \in [Jobs -> SUBSET Segs]
  /\ failed \in [Jobs -> SUBSET Segs]
  /\ uris \in [Jobs -> SUBSET Segs]
  /\ assembly \in [Jobs -> {"none", "running", "ok", "err"}]
  /\ told \in [Jobs -> Seq(Outcome)]
  /\ status \in [Workers -> NodeStatus]
  /\ load \in [Workers -> 0..Cardinality(Segs)]
  /\ connected \in [Workers -> BOOLEAN]
  /\ up \in [Workers -> BOOLEAN]
  /\ slot \in [Workers -> [Segs -> Task \union {None}]]
  /\ replaced \subseteq Workers \X Jobs \X Segs
  /\ toWorker \in [Workers -> [AssignMsg -> Nat]]
  /\ toMaster \in [Workers -> [ResultMsg -> Nat]]
  /\ leaving \in [Workers -> BOOLEAN]
  /\ suspects \in Nat /\ drops \in Nat /\ stepDowns \in Nat

(* No segment of an accepted job is ever forgotten: through scheduling,     *)
(* failed sends, reassignment and late results it stays queued, assigned,   *)
(* completed or failed, so the job's count can still reach its total.       *)
NoSegmentForgotten ==
  \A j \in known, s \in Segs :
    \/ s \in PendingIds(j)
    \/ assigned[j][s] # None
    \/ s \in completed[j] \union failed[j]

(* A segment is in a job's queue at most once and never while a node holds  *)
(* it, whatever mix of requeue_segment and reassign_from_node put it there: *)
(* one queue entry means one SegmentAssign.                                 *)
NoSegmentQueuedTwice ==
  \A j \in Jobs :
    /\ \A i, k \in 1..Len(pending[j]) : pending[j][i].id = pending[j][k].id => i = k
    /\ \A s \in PendingIds(j) : assigned[j][s] = None

(* A node that holds a segment is one the health check still watches: a     *)
(* segment held by a Dead or removed node would stay there for ever, since  *)
(* check_dead_nodes reports a node once.  (While the role never moved.)     *)
HolderIsWatched ==
  stepDowns = 0 =>
    \A j \in Jobs, w \in Workers : HeldBy(j, w) # {} => status[w] \in {"active", "busy"}

(* The job's success, the start of its assembly or JobComplete, comes only  *)
(* when every segment has been encoded by some worker.                      *)
SuccessMeansAllEncoded ==
  \A j \in Jobs :
    (assembly[j] # "none" \/ \E i \in 1..Len(told[j]) : told[j][i] # "failed")
      => completed[j] = Segs

(* Until a job is decided, a segment the master counts as assigned to a     *)
(* running, connected worker is really with it: on its way there, in its    *)
(* table, or its result is on its way back.  Otherwise nothing would ever   *)
(* end the wait, because the worker itself is healthy.  The one exception   *)
(* is a receiver that another job's segment of the same id replaced.        *)
OnItsWay(j, s, w) ==
  \/ \E r \in BOOLEAN : toWorker[w][[job |-> j, seg |-> s, real |-> r]] > 0
  \/ slot[w][s] # None /\ slot[w][s].job = j
  \/ \E o \in BOOLEAN : toMaster[w][[job |-> j, seg |-> s, ok |-> o]] > 0

NoStrandedAssignment ==
  stepDowns = 0 =>
    \A j \in ctx, s \in Segs, w \in Workers :
      assigned[j][s] = w /\ up[w] /\ connected[w]
        => OnItsWay(j, s, w) \/ <<w, j, s>> \in replaced

(* A job is decided once: as long as no node was declared dead while a      *)
(* result of it could still arrive, one terminal message is broadcast.      *)
OneOutcome == suspects = 0 => \A j \in Jobs : Len(told[j]) <= 1

(* With an object store, as long as no node was declared dead while its     *)
(* result could still arrive: a job whose segments are all encoded is being *)
(* assembled or has been announced, never silent, and it is not announced   *)
(* complete without its output: every output is recorded while the context  *)
(* lives, and the counts agree.                                             *)
OutputIsAnnounced ==
  HasStore /\ suspects = 0 =>
    \A j \in Jobs :
      /\ completed[j] = Segs => assembly[j] # "none" \/ told[j] # <<>>
      /\ \A i \in 1..Len(told[j]) : told[j][i] # "complete"

(* A node is never given a segment that it still has or is already being    *)
(* given, as long as no node was declared dead that could still answer: the *)
(* files spawn_worker writes are named by job and segment, so two attempts  *)
(* on one node would write the same ones.                                   *)
AttemptsStayApart ==
  suspects = 0 =>
    \A w \in Workers, j \in Jobs, s \in Segs :
      LET given == { m \in AssignMsg : m.job = j /\ m.seg = s /\ toWorker[w][m] > 0 }
      IN  /\ \A m, n \in given : m = n /\ toWorker[w][m] = 1
          /\ slot[w][s] # None /\ slot[w][s].job = j => given = {}

(* check_job_completion: "assemble the final file before telling the        *)
(* submitter the job is done" -- with an object store JobComplete always    *)
(* carries the assembled output.                                            *)
CompleteCarriesOutput ==
  HasStore => \A j \in Jobs : \A i \in 1..Len(told[j]) : told[j][i] # "complete"

(* JobContext: "Segment descriptors kept by the master for reassignment" -- *)
(* every assignment a worker receives is the descriptor the analysis made.  *)
AssignmentIsOriginal ==
  \A w \in Workers, m \in AssignMsg : toWorker[w][m] > 0 => m.real

(* pending_results: a task's result is "relayed via poll_worker_results()": *)
(* its receiver leaves the table of a running worker only there.            *)
ResultsAreRelayed ==
  [][\A w \in Workers, s \in Segs :
       slot[w][s] # None /\ up'[w] =>
         \/ slot'[w][s] # None /\ slot'[w][s].job = slot[w][s].job
         \/ slot[w][s].st # "running" /\ slot'[w][s] = None]_slot

(* Every accepted job is decided in the end, while this node stays master,  *)
(* one worker stays connected and no other job replaced its receiver.       *)
JobsEnd ==
  \A j \in Jobs :
    j \in known ~> \/ told[j] # <<>>
                   \/ stepDowns > 0
                   \/ \E w \in Workers, s \in Segs : <<w, j, s>> \in replaced
                   \/ \A w \in Workers : ~(up[w] /\ connected[w])

(* The cluster keeps JobPromise while no node is declared dead that could   *)
(* still answer (checked with MaxSuspects = 0).                  *)
JP == INSTANCE JobPromise WITH accepted <- known, encoded <- completed, verdict <- told
KeepsPromise == JP!Spec

=============================================================================
