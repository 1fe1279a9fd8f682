---------------------------- MODULE BullyElection ----------------------------
(***************************************************************************)
(* Which node of a cluster is master: ElectionManager of                   *)
(* cluster/src/election.rs with the handshake, election and node-loss      *)
(* handlers of cluster/src/main.rs that drive it.  Every node joins the    *)
(* bootstrap node, Hub, as the deployments do, so a broadcast reaches the  *)
(* hub from a joiner and the joiners from the hub, and is never relayed.   *)
(* In k8s mode no election is held, and this module does not apply.        *)
(*                                                                         *)
(* Time is abstract.  A timeout is in time if messages are handled in far  *)
(* less: nothing sent to or by a candidate is left when the three seconds   *)
(* of its election_timeout end, nothing at all is left when the five of     *)
(* victory_timeout or the ten of missed heartbeats do, and an election that *)
(* a peer runs ends before victory_timeout.  While a job keeps an event     *)
(* loop busy a timeout can fire before that, and a leader that runs be      *)
(* taken for dead.                                                          *)
(***************************************************************************)
EXTENDS Integers, Sequences, FiniteSets

CONSTANTS
  Nodes,         \* the nodes that ever run
  Hub,           \* the one that bootstraps the cluster (started without --join)
  Priority,      \* ElectionManager.priority, the upper half of the UUID
  None,          \* no leader known
  MaxFaults      \* bound: nodes that stop, and timeouts that fire too early

ASSUME ElectionAssumption ==
  /\ Hub \in Nodes /\ None \notin Nodes
  /\ Priority \in [Nodes -> Nat]
  /\ \A n, m \in Nodes : Priority[n] = Priority[m] => n = m
  /\ MaxFaults \in Nat

Joiners == Nodes \ {Hub}
Handshake == [op: {"hello", "identify"}]
About == [op: {"identified", "victory"}, node: Nodes \union {None}]
Msg == Handshake \union About \union [op: {"start", "alive", "leave"}]

VARIABLES
  run,           \* a node's process: "off", "up" or "stopped"
  state,         \* ElectionManager.state
  leader,        \* ElectionManager.current_leader
  alive,         \* ElectionManager.received_alive (and alive_received_at)
  table,         \* the nodes NodeManager lists and has not found dead
  chan,          \* the messages from one node to another, in order
  late           \* timeouts that fired before messages were handled (history)

vars == <<run, state, leader, alive, table, chan, late>>
election == <<state, leader, alive>>

-----------------------------------------------------------------------------
(* Transport *)

Up(n) == run[n] = "up"
Adjacent(n, m) == (n = Hub) # (m = Hub)
Peers(n) == { m \in Nodes : Adjacent(n, m) /\ Up(m) }

(* The channels c after n sends ms to every peer in S. *)
Cast(c, n, S, ms) ==
  [c EXCEPT ![n] = [m \in Nodes |-> IF m \in S THEN @[m] \o ms ELSE @[m]]]
Taken(n, m) == [chan EXCEPT ![n][m] = Tail(@)]

Start == [op |-> "start"]
Alive == [op |-> "alive"]
Victory(n) == [op |-> "victory", node |-> n]

-----------------------------------------------------------------------------
(* ElectionManager.  Each operator sets the whole election state of n. *)

Become(n, st, ld, al) ==
  /\ state' = [state EXCEPT ![n] = st]
  /\ leader' = [leader EXCEPT ![n] = ld]
  /\ alive' = [alive EXCEPT ![n] = al]

StartElection(n) == Become(n, "Candidate", None, FALSE)
AcceptVictory(n, m) == Become(n, IF m = n THEN "Leader" ELSE "Follower", m, FALSE)

Init ==
  /\ run = [n \in Nodes |-> IF n = Hub THEN "up" ELSE "off"]
  /\ state = [n \in Nodes |-> IF n = Hub THEN "Leader" ELSE "Follower"]   \* force_leader
  /\ leader = [n \in Nodes |-> IF n = Hub THEN Hub ELSE None]
  /\ alive = [n \in Nodes |-> FALSE]
  /\ table = [n \in Nodes |-> {}]
  /\ chan = [n \in Nodes |-> [m \in Nodes |-> <<>>]]
  /\ late = 0

(* main() with --join: connect, Hello, and a first election. *)
Join(n) ==
  /\ n \in Joiners /\ run[n] = "off" /\ Up(Hub)
  /\ run' = [run EXCEPT ![n] = "up"]
  /\ StartElection(n)
  /\ chan' = Cast(chan, n, {Hub}, <<[op |-> "hello"], Start>>)
  /\ UNCHANGED <<table, late>>

-----------------------------------------------------------------------------
(* Handlers: n takes the first message m sent it. *)

HandleHello(n, m) ==
  /\ Head(chan[m][n]) = [op |-> "hello"]
  /\ chan' = Cast(Taken(m, n), n, {m} \intersect Peers(n), <<[op |-> "identify"]>>)
  /\ UNCHANGED <<run, election, table>>

HandleIdentify(n, m) ==
  /\ Head(chan[m][n]) = [op |-> "identify"]
  /\ table' = [table EXCEPT ![n] = @ \union {m}]
  /\ chan' = Cast(Taken(m, n), n, {m} \intersect Peers(n),
                  <<[op |-> "identified", node |-> leader[n]]>>)
  /\ UNCHANGED <<run, election>>

(* Mutants: the master told of is listed in place of the peer; a node that  *)
(* has a leader adopts its peer's all the same.                             *)
HandleIdentifiedLists(n, m) ==
  /\ Head(chan[m][n]).op = "identified"
  /\ table' = [table EXCEPT ![n] = @ \union {Head(chan[m][n]).node}]
  /\ chan' = Taken(m, n)
  /\ UNCHANGED <<run, election>>

HandleIdentifiedAlways(n, m) ==
  /\ Head(chan[m][n]).op = "identified"
  /\ table' = [table EXCEPT ![n] = @ \union {m}]
  /\ LET known == Head(chan[m][n]).node IN
       IF known # None THEN AcceptVictory(n, known) ELSE UNCHANGED election
  /\ chan' = Taken(m, n)
  /\ UNCHANGED run

(* A node without a leader adopts the one its peer follows. *)
HandleIdentified(n, m) ==
  /\ Head(chan[m][n]).op = "identified"
  /\ table' = [table EXCEPT ![n] = @ \union {m}]
  /\ LET known == Head(chan[m][n]).node IN
       \/ known # None /\ leader[n] = None /\ AcceptVictory(n, known)
       \/ ~(known # None /\ leader[n] = None) /\ UNCHANGED election
  /\ chan' = Taken(m, n)
  /\ UNCHANGED run

(* Mutant: a higher node starts its own election without an answer.         *)
HandleElectionStartSilent(n, m) ==
  /\ Head(chan[m][n]) = Start
  /\ \/ /\ Priority[n] > Priority[m]
        /\ chan' = Cast(Taken(m, n), n, Peers(n) \ {m}, <<Start>>)
        /\ StartElection(n)
     \/ /\ Priority[n] <= Priority[m]
        /\ Become(n, "Follower", leader[n], alive[n])
        /\ chan' = Taken(m, n)
  /\ UNCHANGED <<run, table>>

(* Against a lower candidate a leader answers and announces itself again,   *)
(* any other node answers and starts its own election; against a higher one *)
(* every node, the leader too, becomes a follower of whoever it followed.   *)
HandleElectionStart(n, m) ==
  /\ Head(chan[m][n]) = Start
  /\ \/ /\ Priority[n] > Priority[m] /\ state[n] = "Leader"
        /\ chan' = Cast(Cast(Taken(m, n), n, {m} \intersect Peers(n), <<Alive>>),
                        n, Peers(n), <<Victory(n)>>)
        /\ UNCHANGED election
     \/ /\ Priority[n] > Priority[m] /\ state[n] # "Leader"
        /\ chan' = Cast(Cast(Taken(m, n), n, {m} \intersect Peers(n), <<Alive>>),
                        n, Peers(n) \ {m}, <<Start>>)
        /\ StartElection(n)
     \/ /\ Priority[n] <= Priority[m]
        /\ Become(n, "Follower", leader[n], alive[n])
        /\ chan' = Taken(m, n)
  /\ UNCHANGED <<run, table>>

HandleAlive(n, m) ==
  /\ Head(chan[m][n]) = Alive
  /\ Become(n, state[n], leader[n], TRUE)
  /\ chan' = Taken(m, n)
  /\ UNCHANGED <<run, table>>

HandleVictory(n, m) ==
  /\ Head(chan[m][n]).op = "victory"
  /\ AcceptVictory(n, Head(chan[m][n]).node)
  /\ chan' = Taken(m, n)
  /\ UNCHANGED <<run, table>>

(* handle_node_leave and check_health: a lost leader is forgotten and an    *)
(* election starts; the loss of any other node changes the table alone.     *)
LoseNode(n, m, c) ==
  /\ table' = [table EXCEPT ![n] = @ \ {m}]
  /\ \/ leader[n] = m /\ StartElection(n) /\ chan' = Cast(c, n, Peers(n), <<Start>>)
     \/ leader[n] # m /\ UNCHANGED election /\ chan' = c
  /\ UNCHANGED run

HandleNodeLeave(n, m) ==
  /\ Head(chan[m][n]) = [op |-> "leave"]
  /\ LoseNode(n, m, Taken(m, n))

Handle(n, m) ==
  /\ Up(n) /\ chan[m][n] # <<>> /\ UNCHANGED late
  /\ \/ HandleHello(n, m) \/ HandleIdentify(n, m) \/ HandleIdentified(n, m)
     \/ HandleElectionStart(n, m) \/ HandleAlive(n, m) \/ HandleVictory(n, m)
     \/ HandleNodeLeave(n, m)

-----------------------------------------------------------------------------
(* Ticks and faults *)

Quiet(n) == \A m \in Nodes : chan[n][m] = <<>> /\ chan[m][n] = <<>>

Faults == late + Cardinality({ m \in Nodes : run[m] = "stopped" })

(* A timeout fires when what it waits for is over, or before that.          *)
After(over) == \/ over /\ UNCHANGED late
               \/ ~over /\ Faults < MaxFaults /\ late' = late + 1

(* Mutant: the winner does not announce itself.                             *)
ElectionTimeoutSilent(n) ==
  /\ Up(n) /\ state[n] = "Candidate" /\ ~alive[n]
  /\ After(Quiet(n))
  /\ Become(n, "Leader", n, FALSE)
  /\ UNCHANGED <<run, table, chan>>

(* check_timeout without an ElectionAlive: the candidate has won. *)
ElectionTimeout(n) ==
  /\ Up(n) /\ state[n] = "Candidate" /\ ~alive[n]
  /\ After(Quiet(n))
  /\ Become(n, "Leader", n, FALSE)
  /\ chan' = Cast(chan, n, Peers(n), <<Victory(n)>>)
  /\ UNCHANGED <<run, table>>

(* check_timeout after one: no victory came, start again. *)
VictoryTimeout(n) ==
  /\ Up(n) /\ state[n] = "Candidate" /\ alive[n]
  /\ After(/\ \A k \in Nodes : Quiet(k)
           /\ \A m \in Peers(n) : ~(state[m] = "Candidate" /\ ~alive[m]))
  /\ StartElection(n)
  /\ chan' = Cast(chan, n, Peers(n), <<Start>>)
  /\ UNCHANGED <<run, table>>

(* check_health: the heartbeats of a stopped node have ceased. *)
CheckHealth(n, m) ==
  /\ Up(n) /\ m \in table[n] /\ run[m] = "stopped"
  /\ After(\A k \in Nodes : Quiet(k))
  /\ LoseNode(n, m, chan)

(* check_health: the heartbeats of a node that runs are too late, its event *)
(* loop is kept busy.  Only a leader matters: it is taken for dead, and     *)
(* listed as alive again with its next heartbeat.                           *)
Suspect(n, m) ==
  /\ Up(n) /\ m \in table[n] /\ Up(m) /\ After(FALSE)
  /\ leader[n] = m /\ StartElection(n)
  /\ chan' = Cast(chan, n, Peers(n), <<Start>>)
  /\ UNCHANGED <<run, table>>

(* A process ends, on a signal with a NodeLeave; what was sent to it is     *)
(* lost, and on a crash also the end of what it had sent.                   *)
Stop(n) ==
  /\ Up(n)
  /\ Faults < MaxFaults
  /\ run' = [run EXCEPT ![n] = "stopped"]
  /\ \E last \in {<<>>, <<[op |-> "leave"]>>} :
       chan' = [m \in Nodes |-> [k \in Nodes |->
                  IF k = n THEN <<>>
                  ELSE IF m = n /\ k \in Peers(n) THEN chan[m][k] \o last
                  ELSE chan[m][k]]]
  /\ UNCHANGED <<election, table, late>>

LoseLast(n, m) ==
  /\ run[n] = "stopped" /\ chan[n][m] # <<>>
  /\ chan' = [chan EXCEPT ![n][m] = SubSeq(@, 1, Len(@) - 1)]
  /\ UNCHANGED <<run, election, table, late>>

-----------------------------------------------------------------------------
Next ==
  \/ \E n \in Nodes : Join(n) \/ ElectionTimeout(n) \/ VictoryTimeout(n) \/ Stop(n)
  \/ \E n, m \in Nodes : Handle(n, m) \/ CheckHealth(n, m) \/ Suspect(n, m) \/ LoseLast(n, m)

Spec == Init /\ [][Next]_vars

(* Every event loop takes its messages and its ticks; nothing makes a node  *)
(* join or stop.  A candidate that hears of no higher node wins in the end  *)
(* although a lower one keeps restarting: the three seconds it needs pass   *)
(* between two restarts, which are five apart.  No timeout has to be early; *)
(* messages and heartbeats pass between the hub and the joiners alone.      *)
Fairness ==
  /\ \A n \in Nodes : /\ SF_vars(ElectionTimeout(n) /\ UNCHANGED late)
                     /\ WF_vars(VictoryTimeout(n) /\ UNCHANGED late)
  /\ \A j \in Joiners :
       /\ WF_vars(Handle(j, Hub)) /\ WF_vars(CheckHealth(j, Hub) /\ UNCHANGED late)
       /\ WF_vars(Handle(Hub, j)) /\ WF_vars(CheckHealth(Hub, j) /\ UNCHANGED late)

FairSpec == Spec /\ Fairness

-----------------------------------------------------------------------------
(* Properties *)

ElectionTypeOK ==
  /\ run \in [Nodes -> {"off", "up", "stopped"}]
  /\ state \in [Nodes -> {"Follower", "Candidate", "Leader"}]
  /\ leader \in [Nodes -> Nodes \union {None}]
  /\ alive \in [Nodes -> BOOLEAN]
  /\ table \in [Nodes -> SUBSET Nodes]
  /\ chan \in [Nodes -> [Nodes -> Seq(Msg)]]

TypeOK == ElectionTypeOK /\ late \in Nat

(* Two connected nodes never both lead once their messages are handled: of  *)
(* the hub and a joiner one gives way, whichever order start, alive and     *)
(* victory crossed in, and also when a timeout fires before a late answer   *)
(* or a leader that runs is taken for dead.  (Two joiners may both lead:    *)
(* they never talk.)                                                        *)
LeadersApart ==
  \A n, m \in Nodes :
    Up(n) /\ Up(m) /\ Adjacent(n, m) /\ Quiet(n) /\ Quiet(m)
      => ~(state[n] = "Leader" /\ state[m] = "Leader")

(* A candidate whose timeout expires has no connected node of higher        *)
(* priority, whoever joined, left or started elections in between, and      *)
(* whatever timeouts fired early before: each such node had answered its    *)
(* ElectionStart, unless this timeout is itself too early.                  *)
VictoryIsEarned ==
  [][\A n \in Nodes :
       ElectionTimeout(n) /\ UNCHANGED late =>
         \A m \in Peers(n) : Priority[m] < Priority[n]]_vars

(* While no node stops, no timeout is early and no joiner is below the hub, *)
(* the hub always comes back to a master that runs and knows it leads.      *)
(* (With joiners on both sides of it that is false: see                     *)
(* HighestBecomesMaster.)                                                   *)
HubFindsMaster ==
  []<>(\/ late > 0 \/ \E n \in Nodes : run[n] = "stopped"
       \/ \E n \in Joiners : run[n] # "off" /\ Priority[n] < Priority[Hub]
       \/ leader[Hub] # None /\ state[leader[Hub]] = "Leader")

(* election.rs: "The algorithm guarantees that the node with the highest    *)
(* priority among active nodes will become master."                         *)
HighestBecomesMaster ==
  \A n \in Nodes :
    <>[](Up(n) /\ \A m \in Nodes : Up(m) => Priority[m] <= Priority[n])
      => []<>(state[n] = "Leader")
=============================================================================
