-------------------------- MODULE JobOutcome_proofs --------------------------
(***************************************************************************)
(* Theorems about JobScheduling: how often and as what a job is announced, *)
(* where an assigned segment is, and that the cluster keeps JobPromise.    *)
(***************************************************************************)
EXTENDS JobScheduling_proofs

-----------------------------------------------------------------------------
(* Where a result can still come from *)

OnWay(w, j, s) == \E m \in AssignMsg : m.job = j /\ m.seg = s /\ toWorker[w][m] > 0
AtWork(w, j, s) == slot[w][s] # None /\ slot[w][s].job = j
Back(w, j, s) == \E m \in ResultMsg : m.job = j /\ m.seg = s /\ toMaster[w][m] > 0

(* The worker w can still send the master a result of the segment.          *)
Token(w, j, s) == Back(w, j, s) \/ (connected[w] /\ (OnWay(w, j, s) \/ AtWork(w, j, s)))

(* There is at most one of these. *)
Alone(w, j, s) ==
  /\ \A m, n \in ResultMsg :
       /\ m.job = j /\ m.seg = s /\ toMaster[w][m] > 0
       /\ n.job = j /\ n.seg = s /\ toMaster[w][n] > 0
       => m = n /\ toMaster[w][m] = 1
  /\ \A m, n \in AssignMsg :
       /\ m.job = j /\ m.seg = s /\ toWorker[w][m] > 0
       /\ n.job = j /\ n.seg = s /\ toWorker[w][n] > 0
       => m = n /\ toWorker[w][m] = 1
  /\ ~(OnWay(w, j, s) /\ AtWork(w, j, s))
  /\ connected[w] => /\ ~(OnWay(w, j, s) /\ Back(w, j, s))
                     /\ ~(AtWork(w, j, s) /\ Back(w, j, s))

(* Only the node the master has assigned a segment to can answer for it, and *)
(* only once.                                                               *)
Tokens ==
  \A w \in Workers, j \in Jobs, s \in Segs :
    /\ Token(w, j, s) => assigned[j][s] = w
    /\ Alone(w, j, s)

(* A process that has not joined or has ended is given nothing, and says    *)
(* goodbye at its end.                                                      *)
Empty(w) == /\ \A m \in AssignMsg : toWorker[w][m] = 0
            /\ \A s \in Segs : slot[w][s] = None

Resting ==
  \A w \in Workers : /\ ~up[w] \/ status[w] = "unknown" => Empty(w)
                     /\ leaving[w] => ~up[w]

(* A segment that waits or is assigned has no result yet. *)
Outstanding ==
  \A j \in Jobs, s \in Segs :
    s \in PendingIds(j) \/ assigned[j][s] # None => s \notin completed[j] \union failed[j]

(* Nothing has happened to a job that was not accepted. *)
Unaccepted ==
  \A j \in Jobs \ known :
    /\ completed[j] = {} /\ failed[j] = {}
    /\ told[j] = <<>> /\ assembly[j] = "none"
    /\ PendingIds(j) = {}
    /\ \A s \in Segs : assigned[j][s] = None

(* A job is assembled or announced exactly with the last of its results,    *)
(* keeps its context until then, and records its outputs in it.             *)
Fine(j) ==
  /\ completed[j] \intersect failed[j] = {}
  /\ told[j] # <<>> \/ assembly[j] # "none" <=> completed[j] \union failed[j] = Segs
  /\ told[j] # <<>> => assembly[j] = "none" /\ Len(told[j]) = 1
  /\ j \in known /\ completed[j] \union failed[j] # Segs => j \in ctx
  /\ HasStore /\ j \in ctx => uris[j] = completed[j]
  /\ HasStore => \A i \in 1..Len(told[j]) : told[j][i] # "complete"

Verdict == ctx \subseteq known /\ \A j \in Jobs : Fine(j)

-----------------------------------------------------------------------------
(* Resting *)

(* A process that is not up or was never registered stays without work: a   *)
(* segment is only sent to a node in the table whose process runs.          *)
LEMMA RestingStep == TypeOK /\ Resting /\ [Next]_vars => Resting'
<1>. SUFFICES ASSUME TypeOK, Resting, [Next]_vars PROVE Resting'
  OBVIOUS
<1>. USE DEF vars, schedVars, jobVars, nodeVars, workVars, netVars, bounds
<1>1. ASSUME UNCHANGED <<up, slot, toWorker, leaving>>,
             \A w \in Workers : status'[w] = "unknown" => status[w] = "unknown"
      PROVE  Resting'
  BY <1>1 DEF Resting, Empty
<1>2. ASSUME ScheduleTick PROVE Resting'
  <2>1. PICK t \in IF isMaster THEN Plans ELSE { [j \in Jobs |-> <<>>] } :
        \E F : RunScheduler(t, F) /\ UNCHANGED <<up, slot, leaving, status>>
    BY <1>2 DEF ScheduleTick
  <2>2. PICK F : RunScheduler(t, F) /\ UNCHANGED <<up, slot, leaving, status>>
    BY <2>1
  <2>3. PlanFits(t)
    BY PlansFit
  <2>4. ASSUME NEW w \in Workers, NEW m \in AssignMsg, ~up[w] \/ status[w] = "unknown"
        PROVE  toWorker'[w][m] = toWorker[w][m]
    <3>1. ~up[w] \/ w \notin Available
      BY <2>4 DEF Available
    <3>2. ASSUME up[w], NEW i \in Taken(t, m.job), t[m.job][i] = w PROVE FALSE
      <4>1. m.job \in Jobs
        BY DEF AssignMsg
      <4>. QED
        BY <3>1, <3>2, <4>1, <2>3 DEF PlanFits, Taken
    <3>3. toWorker[w] \in [AssignMsg -> Nat]
      BY DEF TypeOK
    <3>. QED
      BY <2>2, <3>2, <3>3 DEF RunScheduler, BagAdd
  <2>. QED
    BY <2>2, <2>4 DEF Resting, Empty
<1>3. ASSUME NEW j \in Jobs, JobSubmit(j) PROVE Resting'
  BY <1>1, <1>3 DEF JobSubmit
<1>4. ASSUME NEW j \in Jobs, NEW r, AssemblyEnds(j, r) PROVE Resting'
  BY <1>1, <1>4 DEF AssemblyEnds
<1>5. ASSUME NEW w \in Workers, Join(w) \/ Heartbeat(w) \/ DeclareDead(w) PROVE Resting'
  <2>1. UNCHANGED <<up, slot, toWorker, leaving>>
    BY <1>5 DEF Join, Heartbeat, DeclareDead
  <2>2. \A v \in Workers : status'[v] = "unknown" => status[v] = "unknown"
    BY <1>5 DEF Join, Heartbeat, DeclareDead, TypeOK
  <2>. QED
    BY <1>1, <2>1, <2>2
<1>6. ASSUME NEW w \in Workers, NEW m \in ResultMsg, RecvResult(w, m) PROVE Resting'
  BY <1>1, <1>6 DEF RecvResult
<1>7. ASSUME NEW w \in Workers, RecvLeave(w) PROVE Resting'
  <2>1. UNCHANGED <<up, slot, toWorker>>
    BY <1>7 DEF RecvLeave
  <2>2. \A v \in Workers : /\ status'[v] = "unknown" => status[v] = "unknown"
                           /\ leaving'[v] => leaving[v]
    BY <1>7 DEF RecvLeave, TypeOK
  <2>. QED
    BY <2>1, <2>2 DEF Resting, Empty
<1>8. ASSUME NEW w \in Workers, NEW m \in AssignMsg, RecvAssign(w, m) PROVE Resting'
  <2>1. up[w] /\ status[w] # "unknown"
    BY <1>8 DEF RecvAssign, Resting, Empty
  <2>2. /\ UNCHANGED <<up, status, leaving>>
        /\ \A v \in Workers \ {w} : slot'[v] = slot[v] /\ toWorker'[v] = toWorker[v]
    BY <1>8 DEF RecvAssign, TypeOK
  <2>. QED
    BY <2>1, <2>2 DEF Resting, Empty
<1>9. ASSUME NEW w \in Workers, PollWorkerResults(w) PROVE Resting'
  <2>1. UNCHANGED <<up, status, leaving, toWorker>>
    BY <1>9 DEF PollWorkerResults
  <2>2. \A v \in Workers, s \in Segs : slot[v][s] = None => slot'[v][s] = None
    BY <1>9 DEF PollWorkerResults, TypeOK
  <2>. QED
    BY <2>1, <2>2 DEF Resting, Empty
<1>10. ASSUME NEW w \in Workers, NEW s \in Segs, NEW r, WorkerEnds(w, s, r) PROVE Resting'
  <2>1. UNCHANGED <<up, status, leaving, toWorker>> /\ slot[w][s] # None
    BY <1>10 DEF WorkerEnds
  <2>2. \A v \in Workers, x \in Segs : slot[v][x] = None => slot'[v][x] = None
    BY <1>10, <2>1 DEF WorkerEnds, TypeOK
  <2>. QED
    BY <2>1, <2>2 DEF Resting, Empty
<1>11. ASSUME NEW w \in Workers, Leave(w) \/ Crash(w) PROVE Resting'
  <2>1. /\ up'[w] = FALSE /\ UNCHANGED status
        /\ \A s \in Segs : slot'[w][s] = None
        /\ \A m \in AssignMsg : toWorker'[w][m] = 0
        /\ \A v \in Workers \ {w} : /\ slot'[v] = slot[v] /\ toWorker'[v] = toWorker[v]
                                    /\ up'[v] = up[v] /\ leaving'[v] = leaving[v]
    BY <1>11 DEF Leave, Crash, StopWorker, TypeOK
  <2>. QED
    BY <2>1 DEF Resting, Empty
<1>12. ASSUME NEW w \in Workers, Disconnect(w) PROVE Resting'
  BY <1>1, <1>12 DEF Disconnect
<1>13. ASSUME NEW w \in Workers, LoseInFlight(w) PROVE Resting'
  <2>1. /\ UNCHANGED <<up, status, slot>>
        /\ \A m \in AssignMsg : toWorker'[w][m] = 0
        /\ leaving'[w] = FALSE
        /\ \A v \in Workers \ {w} : toWorker'[v] = toWorker[v] /\ leaving'[v] = leaving[v]
    BY <1>13 DEF LoseInFlight, TypeOK
  <2>. QED
    BY <2>1 DEF Resting, Empty
<1>14. CASE StepDown \/ StepUp
  BY <1>1, <1>14 DEF StepDown, StepUp
<1>15. CASE UNCHANGED vars
  BY <1>1, <1>15
<1>. QED
  BY <1>2, <1>3, <1>4, <1>5, <1>6, <1>7, <1>8, <1>9, <1>10, <1>11, <1>12, <1>13, <1>14, <1>15
     DEF Next, WorkerStep, MasterStep, Fault

-----------------------------------------------------------------------------
(* Tokens *)

(* A worker that gained nothing. *)
LEMMA TokenKept ==
  ASSUME NEW w \in Workers, NEW j \in Jobs, NEW s \in Segs, Alone(w, j, s),
         \A m \in ResultMsg : m.job = j /\ m.seg = s => toMaster'[w][m] \in {toMaster[w][m], 0},
         \A m \in AssignMsg : m.job = j /\ m.seg = s => toWorker'[w][m] \in {toWorker[w][m], 0},
         AtWork(w, j, s)' => AtWork(w, j, s),
         connected'[w] => connected[w]
  PROVE  Alone(w, j, s)' /\ (Token(w, j, s)' => Token(w, j, s))
<1>1. Back(w, j, s)' => Back(w, j, s)
  BY DEF Back
<1>2. OnWay(w, j, s)' => OnWay(w, j, s)
  BY DEF OnWay
<1>3. Token(w, j, s)' => Token(w, j, s)
  BY <1>1, <1>2 DEF Token
<1>4. \A m, n \in ResultMsg :
       /\ m.job = j /\ m.seg = s /\ toMaster'[w][m] > 0
       /\ n.job = j /\ n.seg = s /\ toMaster'[w][n] > 0
       => m = n /\ toMaster'[w][m] = 1
  BY DEF Alone
<1>5. \A m, n \in AssignMsg :
       /\ m.job = j /\ m.seg = s /\ toWorker'[w][m] > 0
       /\ n.job = j /\ n.seg = s /\ toWorker'[w][n] > 0
       => m = n /\ toWorker'[w][m] = 1
  BY DEF Alone
<1>6. /\ ~(OnWay(w, j, s) /\ AtWork(w, j, s))'
      /\ connected'[w] =>
           /\ ~(OnWay(w, j, s) /\ Back(w, j, s))'
           /\ ~(AtWork(w, j, s) /\ Back(w, j, s))'
  BY <1>1, <1>2 DEF Alone
<1>. QED
  BY <1>3, <1>4, <1>5, <1>6 DEF Alone

(* What a tick does to one segment: nothing, or it was waiting, and at most *)
(* one node gets one message with it and is the one it is assigned to.      *)
LEMMA TickSends ==
  ASSUME TypeOK, NEW t, PlanFits(t), NEW F, RunScheduler(t, F),
         NEW j \in Jobs, QueuedOnce(j), NEW s \in Segs
  PROVE  \/ /\ assigned'[j][s] = assigned[j][s]
            /\ \A w \in Workers, m \in AssignMsg :
                 m.job = j /\ m.seg = s => toWorker'[w][m] = toWorker[w][m]
         \/ /\ assigned[j][s] = None
            /\ \E v \in Workers, r \in BOOLEAN : connected[v] /\
                 \A w \in Workers, m \in AssignMsg :
                   m.job = j /\ m.seg = s =>
                     \/ toWorker'[w][m] = toWorker[w][m]
                     \/ /\ toWorker'[w][m] = toWorker[w][m] + 1
                        /\ w = v /\ m.real = r /\ assigned'[j][s] = v
<1>1. t[j] \in Seq(Workers) /\ Len(t[j]) \in Nat /\ \A i \in Taken(t, j) : t[j][i] \in Workers
  BY LenProperties, ElementOfSeq DEF PlanFits, Taken
<1>2. \A i \in Taken(t, j) : i \in 1..Len(pending[j])
  BY <1>1, QueueIds DEF PlanFits, Taken
<1>3. \A w \in Workers, m \in AssignMsg : m.job = j /\ m.seg = s =>
        toWorker'[w][m] =
          IF /\ up[w] /\ j \in ctx
             /\ \E i \in Taken(t, j) \ Unsent(t, j, F) :
                  t[j][i] = w /\ pending[j][i] = [id |-> s, real |-> m.real]
            THEN toWorker[w][m] + 1 ELSE toWorker[w][m]
  BY DEF RunScheduler, BagAdd, TypeOK
<1>4. CASE ~\E i \in Taken(t, j) : pending[j][i].id = s
  <2>1. assigned'[j][s] = assigned[j][s]
    BY <1>4 DEF RunScheduler
  <2>2. ASSUME NEW i \in Taken(t, j), NEW r PROVE pending[j][i] # [id |-> s, real |-> r]
    BY <1>4
  <2>3. \A w \in Workers, m \in AssignMsg :
          m.job = j /\ m.seg = s => toWorker'[w][m] = toWorker[w][m]
    <3>1. ASSUME NEW w \in Workers, NEW m \in AssignMsg, m.job = j, m.seg = s
          PROVE  toWorker'[w][m] = toWorker[w][m]
      <4>1. ~\E i \in Taken(t, j) : t[j][i] = w /\ pending[j][i] = [id |-> s, real |-> m.real]
        BY <2>2
      <4>. QED
        BY <1>3, <3>1, <4>1
    <3>. QED
      BY <3>1
  <2>. QED
    BY <2>1, <2>3
<1>5. ASSUME NEW i \in Taken(t, j), pending[j][i].id = s
      PROVE  /\ assigned[j][s] = None
             /\ \A w \in Workers, m \in AssignMsg :
                  m.job = j /\ m.seg = s =>
                    \/ toWorker'[w][m] = toWorker[w][m]
                    \/ /\ toWorker'[w][m] = toWorker[w][m] + 1
                       /\ w = t[j][i] /\ m.real = pending[j][i].real /\ assigned'[j][s] = t[j][i]
  <2>1. s \in PendingIds(j) /\ assigned[j][s] = None
    BY <1>2, <1>5 DEF PendingIds, QueuedOnce
  <2>2. \A k \in Taken(t, j) : pending[j][k].id = s => k = i
    BY <1>2, <1>5 DEF QueuedOnce
  <2>3. assigned'[j][s] = IF i \in Unsent(t, j, F) THEN None ELSE t[j][i]
    <3>1. (CHOOSE k \in Taken(t, j) : pending[j][k].id = s) = i
      BY <1>5, <2>2
    <3>. QED
      BY <1>5, <3>1 DEF RunScheduler
  <2>4. ASSUME NEW w \in Workers, NEW m \in AssignMsg, m.job = j, m.seg = s,
               toWorker'[w][m] # toWorker[w][m]
        PROVE  /\ toWorker'[w][m] = toWorker[w][m] + 1
               /\ w = t[j][i] /\ m.real = pending[j][i].real /\ assigned'[j][s] = t[j][i]
    <3>1. /\ toWorker'[w][m] = toWorker[w][m] + 1
          /\ \E k \in Taken(t, j) \ Unsent(t, j, F) :
               t[j][k] = w /\ pending[j][k] = [id |-> s, real |-> m.real]
      BY <1>3, <2>4
    <3>2. t[j][i] = w /\ pending[j][i] = [id |-> s, real |-> m.real] /\ i \notin Unsent(t, j, F)
      BY <2>2, <3>1
    <3>. QED
      BY <2>3, <3>1, <3>2
  <2>. QED
    BY <2>1, <2>4
<1>6. ASSUME NEW i \in Taken(t, j), pending[j][i].id = s
      PROVE  t[j][i] \in Workers /\ connected[t[j][i]] /\ pending[j][i].real \in BOOLEAN
  <2>1. pending[j] \in Seq(Desc)
    BY DEF TypeOK
  <2>2. pending[j][i] \in Desc
    BY <1>2, <2>1, ElementOfSeq
  <2>. QED
    BY <1>1, <2>2 DEF Desc, PlanFits, Taken, Available, Reachable
<1>. QED
  BY <1>4, <1>5, <1>6

(* Tokens is kept when every worker and segment keeps it. *)
LEMMA TokenEach ==
  ASSUME Tokens,
         \A w \in Workers, j \in Jobs, s \in Segs :
           /\ Alone(w, j, s)'
           /\ Token(w, j, s)' => assigned'[j][s] = w
  PROVE  Tokens'
  BY DEF Tokens

(* A worker that left, or is silent for good, has nothing it could send. *)
LEMMA NoToken ==
  ASSUME TypeOK, NEW w \in Workers, NEW j \in Jobs, NEW s \in Segs,
         \A m \in ResultMsg : toMaster[w][m] = 0,
         connected[w] => Empty(w)
  PROVE  ~Token(w, j, s)
<1>1. ~Back(w, j, s)
  BY DEF Back
<1>2. connected[w] => ~OnWay(w, j, s) /\ ~AtWork(w, j, s)
  BY DEF OnWay, AtWork, Empty
<1>. QED
  BY <1>1, <1>2 DEF Token

(* A tick keeps Tokens: what it sends was waiting, so nobody had it. *)
LEMMA TickTokens ==
  ASSUME TypeOK, \A j \in Jobs : QueuedOnce(j), Tokens, ScheduleTick
  PROVE  Tokens'
<1>1. PICK t \in IF isMaster THEN Plans ELSE { [j \in Jobs |-> <<>>] } :
        \E D, F : /\ connected' = [w \in Workers |-> connected[w] /\ w \notin D]
              /\ RunScheduler(t, F) /\ UNCHANGED <<slot, toMaster>>
  BY DEF ScheduleTick, workVars
<1>2. PICK D, F : /\ connected' = [w \in Workers |-> connected[w] /\ w \notin D]
               /\ RunScheduler(t, F) /\ UNCHANGED <<slot, toMaster>>
  BY <1>1
<1>3. PlanFits(t)
  BY PlansFit
<1>4. ASSUME NEW w \in Workers, NEW j \in Jobs, NEW s \in Segs
      PROVE  /\ Alone(w, j, s)'
             /\ Token(w, j, s)' => assigned'[j][s] = w
  <2>1. Alone(w, j, s) /\ (Token(w, j, s) => assigned[j][s] = w)
    BY DEF Tokens
  <2>2. connected'[w] => connected[w]
    BY <1>2
  <2>3. toMaster' = toMaster /\ (AtWork(w, j, s)' <=> AtWork(w, j, s))
    BY <1>2 DEF AtWork
  <2>4. CASE /\ assigned'[j][s] = assigned[j][s]
             /\ \A m \in AssignMsg : m.job = j /\ m.seg = s => toWorker'[w][m] = toWorker[w][m]
    BY <2>1, <2>2, <2>3, <2>4, TokenKept
  <2>5. ASSUME assigned[j][s] = None, NEW v \in Workers, NEW r \in BOOLEAN, connected[v],
               \A m \in AssignMsg :
                 m.job = j /\ m.seg = s =>
                   \/ toWorker'[w][m] = toWorker[w][m]
                   \/ /\ toWorker'[w][m] = toWorker[w][m] + 1
                      /\ w = v /\ m.real = r /\ assigned'[j][s] = v
        PROVE  /\ Alone(w, j, s)'
               /\ Token(w, j, s)' => assigned'[j][s] = w
    <3>1. ~Token(w, j, s)
      BY <2>1, <2>5, ConstAssumption
    <3>2. CASE ~connected[w]
      <4>1. \A m \in AssignMsg : m.job = j /\ m.seg = s => toWorker'[w][m] = toWorker[w][m]
        BY <2>5, <3>2
      <4>2. Alone(w, j, s)' /\ (Token(w, j, s)' => Token(w, j, s))
        BY <2>1, <2>2, <2>3, <4>1, TokenKept
      <4>. QED
        BY <3>1, <4>2
    <3>3. CASE connected[w]
      <4>1. ~Back(w, j, s) /\ ~Back(w, j, s)'
        BY <2>3, <3>1 DEF Token, Back
      <4>2. ~AtWork(w, j, s)' /\ ~OnWay(w, j, s)
        BY <2>3, <3>1, <3>3 DEF Token
      <4>3. ASSUME NEW m \in AssignMsg, m.job = j, m.seg = s, toWorker'[w][m] > 0
            PROVE  toWorker'[w][m] = 1 /\ w = v /\ m.real = r /\ assigned'[j][s] = v
        <5>1. toWorker[w][m] = 0
          BY <4>2, <4>3 DEF OnWay, TypeOK
        <5>. QED
          BY <2>5, <4>3, <5>1
      <4>4. ASSUME NEW m \in AssignMsg, NEW n \in AssignMsg,
                   m.job = j, m.seg = s, toWorker'[w][m] > 0,
                   n.job = j, n.seg = s, toWorker'[w][n] > 0
            PROVE  m = n /\ toWorker'[w][m] = 1
        BY <4>3, <4>4 DEF AssignMsg
      <4>5. Alone(w, j, s)'
        BY <4>1, <4>2, <4>4 DEF Alone, Back
      <4>6. ASSUME Token(w, j, s)' PROVE assigned'[j][s] = w
        <5>1. OnWay(w, j, s)'
          BY <4>1, <4>2, <4>6 DEF Token
        <5>. QED
          BY <4>3, <5>1 DEF OnWay
      <4>. QED
        BY <4>5, <4>6
    <3>. QED
      BY <3>2, <3>3
  <2>6. QueuedOnce(j)
    OBVIOUS
  <2>. QED
    BY <1>2, <1>3, <2>4, <2>5, <2>6, TickSends
<1>. QED
  BY <1>4, TokenEach

(* Taking a segment from the nodes that have nothing of it keeps Tokens. *)
LEMMA LessAssigned ==
  ASSUME TypeOK, Tokens, UNCHANGED <<connected, slot, toWorker, toMaster>>,
         \A j \in Jobs, s \in Segs :
           assigned'[j][s] = assigned[j][s] \/ ~\E w \in Workers : Token(w, j, s)
  PROVE  Tokens'
<1>1. ASSUME NEW w \in Workers, NEW j \in Jobs, NEW s \in Segs
      PROVE  /\ Alone(w, j, s)'
             /\ Token(w, j, s)' => assigned'[j][s] = w
  <2>1. Alone(w, j, s) /\ (Token(w, j, s) => assigned[j][s] = w)
    BY DEF Tokens
  <2>2. AtWork(w, j, s)' <=> AtWork(w, j, s)
    BY DEF AtWork
  <2>3. Alone(w, j, s)' /\ (Token(w, j, s)' => Token(w, j, s))
    BY <2>1, <2>2, TokenKept
  <2>. QED
    BY <2>1, <2>3
<1>. QED
  BY <1>1, TokenEach

(* reassign_from_node takes the segments of a node that has nothing to send. *)
LEMMA ReassignTokens ==
  ASSUME TypeOK, Tokens, NEW w \in Workers, ReassignFromNode(w),
         UNCHANGED <<connected, slot, toWorker, toMaster>>,
         \A m \in ResultMsg : toMaster[w][m] = 0,
         connected[w] => Empty(w)
  PROVE  Tokens'
<1>1. ASSUME NEW j \in Jobs, NEW s \in Segs, assigned'[j][s] # assigned[j][s]
      PROVE  ~\E v \in Workers : Token(v, j, s)
  <2>1. assigned[j][s] = w
    BY <1>1 DEF ReassignFromNode
  <2>2. ~Token(w, j, s)
    BY NoToken
  <2>. QED
    BY <2>1, <2>2 DEF Tokens
<1>. QED
  BY <1>1, LessAssigned

(* A worker's step moves what it has on its way and takes nothing new.      *)
LEMMA WorkerTokens ==
  ASSUME TypeOK, Tokens, NEW w \in Workers,
         UNCHANGED <<assigned, connected>>,
         \A v \in Workers \ {w} : /\ slot'[v] = slot[v] /\ toWorker'[v] = toWorker[v]
                                  /\ toMaster'[v] = toMaster[v],
         \A j \in Jobs, s \in Segs :
           Alone(w, j, s)' /\ (Token(w, j, s)' => Token(w, j, s))
  PROVE  Tokens'
<1>1. ASSUME NEW v \in Workers, NEW j \in Jobs, NEW s \in Segs
      PROVE  /\ Alone(v, j, s)'
             /\ Token(v, j, s)' => assigned'[j][s] = v
  <2>1. Alone(v, j, s) /\ (Token(v, j, s) => assigned[j][s] = v)
    BY DEF Tokens
  <2>2. CASE v = w
    BY <2>1, <2>2
  <2>3. CASE v # w
    <3>1. (AtWork(v, j, s)' <=> AtWork(v, j, s))
      BY <2>3 DEF AtWork
    <3>2. toMaster'[v] = toMaster[v] /\ toWorker'[v] = toWorker[v] /\ connected' = connected
      BY <2>3
    <3>3. Alone(v, j, s)' /\ (Token(v, j, s)' => Token(v, j, s))
      BY <2>1, <3>1, <3>2, TokenKept
    <3>. QED
      BY <2>1, <3>3
  <2>. QED
    BY <2>2, <2>3
<1>. QED
  BY <1>1, TokenEach

(* A node that takes an assignment makes one token of another.              *)
LEMMA RecvAssignTokens ==
  ASSUME TypeOK, Tokens, NEW w \in Workers, NEW m \in AssignMsg, RecvAssign(w, m)
  PROVE  Tokens'
<1>. USE DEF schedVars, jobVars, nodeVars, workVars, netVars, bounds
<1>1. /\ m.job \in Jobs /\ m.seg \in Segs /\ toWorker[w][m] > 0
      /\ toWorker[w] \in [AssignMsg -> Nat]
  BY DEF RecvAssign, AssignMsg, TypeOK
<1>2. /\ UNCHANGED <<assigned, connected, toMaster>>
      /\ toWorker'[w] = BagRemove(toWorker[w], m)
      /\ slot'[w] = [slot[w] EXCEPT ![m.seg] = [job |-> m.job, real |-> m.real, st |-> "running"]]
      /\ \A v \in Workers \ {w} : slot'[v] = slot[v] /\ toWorker'[v] = toWorker[v]
  BY DEF RecvAssign, TypeOK
<1>3. /\ toWorker'[w][m] = toWorker[w][m] - 1
      /\ \A n \in AssignMsg \ {m} : toWorker'[w][n] = toWorker[w][n]
  BY <1>1, <1>2 DEF BagRemove
<1>4. ASSUME NEW j \in Jobs, NEW s \in Segs
      PROVE  Alone(w, j, s)' /\ (Token(w, j, s)' => Token(w, j, s))
  <2>1. Alone(w, j, s)
    BY DEF Tokens
  <2>2. CASE ~(m.job = j /\ m.seg = s)
    <3>1. \A n \in AssignMsg : n.job = j /\ n.seg = s => toWorker'[w][n] = toWorker[w][n]
      BY <1>3, <2>2
    <3>2. AtWork(w, j, s)' => AtWork(w, j, s)
      BY <1>1, <1>2, <2>2 DEF AtWork, TypeOK
    <3>. QED
      BY <1>2, <2>1, <3>1, <3>2, TokenKept
  <2>3. CASE m.job = j /\ m.seg = s
    <3>1. OnWay(w, j, s)
      BY <1>1, <2>3 DEF OnWay
    <3>2. ASSUME NEW n \in AssignMsg, n.job = j, n.seg = s
          PROVE  toWorker'[w][n] = 0
      <4>1. toWorker[w][n] \in Nat /\ toWorker[w][m] = 1 /\ (toWorker[w][n] > 0 => n = m)
        BY <1>1, <2>1, <2>3, <3>2 DEF Alone
      <4>. QED
        BY <1>3, <4>1
    <3>3. ~OnWay(w, j, s)' /\ (connected[w] => ~Back(w, j, s)')
      BY <1>2, <2>1, <3>1, <3>2 DEF OnWay, Back, Alone
    <3>4. Alone(w, j, s)'
      <4>1. \A k, n \in ResultMsg :
              /\ k.job = j /\ k.seg = s /\ toMaster'[w][k] > 0
              /\ n.job = j /\ n.seg = s /\ toMaster'[w][n] > 0
              => k = n /\ toMaster'[w][k] = 1
        BY <1>2, <2>1 DEF Alone
      <4>2. \A k, n \in AssignMsg :
              /\ k.job = j /\ k.seg = s /\ toWorker'[w][k] > 0
              /\ n.job = j /\ n.seg = s /\ toWorker'[w][n] > 0
              => k = n /\ toWorker'[w][k] = 1
        BY <1>2, <3>2
      <4>. QED
        BY <1>2, <3>3, <4>1, <4>2 DEF Alone
    <3>5. Token(w, j, s)' => Token(w, j, s)
      BY <1>2, <3>1 DEF Token, Back
    <3>. QED
      BY <3>4, <3>5
  <2>. QED
    BY <2>2, <2>3
<1>5. toMaster' = toMaster
  BY <1>2
<1>. QED
  BY <1>2, <1>4, <1>5, WorkerTokens

(* A worker's tick makes results of the encodings that ended.               *)
LEMMA PollTokens ==
  ASSUME TypeOK, Tokens, NEW w \in Workers, PollWorkerResults(w)
  PROVE  Tokens'
<1>. USE DEF schedVars, jobVars, nodeVars, workVars, netVars, bounds
<1>. DEFINE Sent(n) == /\ n.seg \in Ended(w) /\ n.job = slot[w][n.seg].job
                      /\ n.ok = (slot[w][n.seg].st = "ok")
<1>1. /\ UNCHANGED <<assigned, connected, toWorker>>
      /\ \A s \in Segs : slot'[w][s] = IF s \in Ended(w) THEN None ELSE slot[w][s]
      /\ \A v \in Workers \ {w} : slot'[v] = slot[v] /\ toMaster'[v] = toMaster[v]
      /\ toMaster'[w] = BagAdd(toMaster[w],
           IF connected[w]
             THEN { [job |-> slot[w][s].job, seg |-> s, ok |-> slot[w][s].st = "ok"] : s \in Ended(w) }
             ELSE {})
  BY DEF PollWorkerResults, TypeOK
<1>2. \A n \in ResultMsg :
        \/ toMaster'[w][n] = toMaster[w][n]
        \/ connected[w] /\ Sent(n) /\ toMaster'[w][n] = toMaster[w][n] + 1
  <2>1. toMaster[w] \in [ResultMsg -> Nat]
    BY DEF TypeOK
  <2>2. ASSUME NEW n \in ResultMsg, toMaster'[w][n] # toMaster[w][n]
        PROVE  connected[w] /\ Sent(n) /\ toMaster'[w][n] = toMaster[w][n] + 1
    <3>1. /\ connected[w] /\ toMaster'[w][n] = toMaster[w][n] + 1
          /\ n \in { [job |-> slot[w][s].job, seg |-> s, ok |-> slot[w][s].st = "ok"] : s \in Ended(w) }
      BY <1>1, <2>1, <2>2 DEF BagAdd
    <3>. QED
      BY <3>1
  <2>. QED
    BY <2>2
<1>3. \A s \in Segs : s \in Ended(w) => slot[w][s] # None
  BY DEF Ended, LocalWorkers
<1>4. ASSUME NEW j \in Jobs, NEW s \in Segs
      PROVE  Alone(w, j, s)' /\ (Token(w, j, s)' => Token(w, j, s))
  <2>1. Alone(w, j, s)
    BY DEF Tokens
  <2>2. AtWork(w, j, s)' => AtWork(w, j, s)
    BY <1>1 DEF AtWork
  <2>3. CASE ~(connected[w] /\ s \in Ended(w) /\ slot[w][s].job = j)
    <3>1. \A n \in ResultMsg : n.job = j /\ n.seg = s => toMaster'[w][n] = toMaster[w][n]
      BY <1>2, <2>3
    <3>. QED
      BY <1>1, <2>1, <2>2, <3>1, TokenKept
  <2>4. CASE connected[w] /\ s \in Ended(w) /\ slot[w][s].job = j
    <3>1. AtWork(w, j, s) /\ Token(w, j, s)
      BY <1>3, <2>4 DEF AtWork, Token
    <3>2. ~OnWay(w, j, s) /\ ~Back(w, j, s)
      BY <2>1, <2>4, <3>1 DEF Alone
    <3>3. ASSUME NEW n \in ResultMsg, n.job = j, n.seg = s, toMaster'[w][n] > 0
          PROVE  toMaster'[w][n] = 1 /\ n.ok = (slot[w][s].st = "ok")
      <4>1. toMaster[w][n] = 0
        BY <3>2, <3>3 DEF Back, TypeOK
      <4>. QED
        BY <1>2, <3>3, <4>1
    <3>4. ASSUME NEW k \in ResultMsg, NEW n \in ResultMsg,
                 k.job = j, k.seg = s, toMaster'[w][k] > 0,
                 n.job = j, n.seg = s, toMaster'[w][n] > 0
          PROVE  k = n /\ toMaster'[w][k] = 1
      BY <3>3, <3>4 DEF ResultMsg
    <3>5. ~AtWork(w, j, s)' /\ ~OnWay(w, j, s)'
      BY <1>1, <2>4, <3>2 DEF AtWork, OnWay
    <3>6. \A k, n \in AssignMsg :
            /\ k.job = j /\ k.seg = s /\ toWorker'[w][k] > 0
            /\ n.job = j /\ n.seg = s /\ toWorker'[w][n] > 0
            => k = n /\ toWorker'[w][k] = 1
      BY <3>5 DEF OnWay
    <3>7. Alone(w, j, s)'
      BY <3>4, <3>5, <3>6 DEF Alone
    <3>. QED
      BY <3>1, <3>7
  <2>. QED
    BY <2>3, <2>4
<1>5. toWorker' = toWorker
  BY <1>1
<1>. QED
  BY <1>1, <1>4, <1>5, WorkerTokens

(* The master takes a result: the token it was is spent. *)
LEMMA ResultTokens ==
  ASSUME TypeOK, Tokens, NEW w \in Workers, NEW m \in ResultMsg, RecvResult(w, m)
  PROVE  Tokens'
<1>. USE DEF schedVars, jobVars, nodeVars, workVars, netVars, bounds
<1>1. /\ m.job \in Jobs /\ m.seg \in Segs /\ toMaster[w][m] > 0
      /\ toMaster[w] \in [ResultMsg -> Nat]
      /\ UNCHANGED <<connected, slot, toWorker>>
      /\ toMaster'[w] = BagRemove(toMaster[w], m)
      /\ \A v \in Workers \ {w} : toMaster'[v] = toMaster[v]
  BY DEF RecvResult, ResultMsg, TypeOK
<1>2. /\ toMaster'[w][m] = toMaster[w][m] - 1
      /\ \A n \in ResultMsg \ {m} : toMaster'[w][n] = toMaster[w][n]
  BY <1>1 DEF BagRemove
<1>3. Back(w, m.job, m.seg) /\ Token(w, m.job, m.seg)
  BY <1>1 DEF Back, Token
<1>4. toMaster[w][m] = 1 /\ toMaster'[w][m] = 0
  BY <1>1, <1>2 DEF Tokens, Alone
<1>5. ASSUME NEW v \in Workers, NEW j \in Jobs, NEW s \in Segs
      PROVE  Alone(v, j, s)' /\ (Token(v, j, s)' => Token(v, j, s))
  <2>1. Alone(v, j, s)
    BY DEF Tokens
  <2>2. \A n \in ResultMsg : toMaster'[v][n] \in {toMaster[v][n], 0}
    BY <1>1, <1>2, <1>4
  <2>3. AtWork(v, j, s)' <=> AtWork(v, j, s)
    BY <1>1 DEF AtWork
  <2>. QED
    BY <1>1, <2>1, <2>2, <2>3, TokenKept
<1>6. ~\E v \in Workers : Token(v, m.job, m.seg)'
  <2>1. \A v \in Workers : Token(v, m.job, m.seg) => v = w
    BY <1>1, <1>3 DEF Tokens
  <2>2. ~Back(w, m.job, m.seg)'
    <3>1. \A n \in ResultMsg : n.job = m.job /\ n.seg = m.seg /\ toMaster[w][n] > 0 => n = m
      BY <1>1 DEF Tokens, Alone
    <3>2. ASSUME NEW n \in ResultMsg, n.job = m.job, n.seg = m.seg PROVE ~(toMaster'[w][n] > 0)
      BY <1>2, <1>4, <3>1, <3>2
    <3>. QED
      BY <3>2 DEF Back
  <2>3. connected[w] => ~OnWay(w, m.job, m.seg) /\ ~AtWork(w, m.job, m.seg)
    BY <1>1, <1>3 DEF Tokens, Alone
  <2>4. ~Token(w, m.job, m.seg)'
    BY <1>1, <2>2, <2>3 DEF Token, OnWay, AtWork
  <2>. QED
    BY <1>1, <1>5, <2>1, <2>4
<1>7. ASSUME NEW j \in Jobs, NEW s \in Segs, assigned'[j][s] # assigned[j][s]
      PROVE  j = m.job /\ s = m.seg
  BY <1>1, <1>7 DEF RecvResult, SegmentComplete, SegmentFailed, TypeOK
<1>8. ASSUME NEW v \in Workers, NEW j \in Jobs, NEW s \in Segs, Token(v, j, s)'
      PROVE  assigned'[j][s] = v
  <2>1. Token(v, j, s)
    BY <1>5, <1>8
  <2>2. assigned[j][s] = v
    BY <2>1 DEF Tokens
  <2>3. ~(j = m.job /\ s = m.seg)
    BY <1>6, <1>8
  <2>. QED
    BY <1>7, <2>2, <2>3
<1>. QED
  BY <1>5, <1>8, TokenEach

(* No step makes a second token of a segment.                               *)
LEMMA TokensStep ==
  ASSUME TypeOK, \A j \in Jobs : QueuedOnce(j), Resting, Unaccepted, Tokens,
         [Next]_vars, suspects' = 0
  PROVE  Tokens'
<1>. USE DEF vars, schedVars, jobVars, nodeVars, workVars, netVars, bounds
<1>1. ASSUME NEW j \in Jobs, JobSubmit(j) PROVE Tokens'
  <2>1. assigned' = [assigned EXCEPT ![j] = [s \in Segs |-> None]] /\ j \in Jobs \ known
        /\ UNCHANGED <<connected, slot, toWorker, toMaster>>
    BY <1>1 DEF JobSubmit, AddJob
  <2>2. \A k \in Jobs, s \in Segs : assigned'[k][s] = assigned[k][s]
    BY <2>1 DEF Unaccepted, TypeOK
  <2>. QED
    BY <2>1, <2>2, LessAssigned
<1>2. CASE ScheduleTick
  BY <1>2, TickTokens
<1>3. ASSUME UNCHANGED <<connected, slot, toWorker, toMaster, assigned>> PROVE Tokens'
  BY <1>3, LessAssigned
<1>4. ASSUME NEW j \in Jobs, NEW r, AssemblyEnds(j, r) PROVE Tokens'
  BY <1>3, <1>4 DEF AssemblyEnds
<1>5. ASSUME NEW w \in Workers, Join(w) PROVE Tokens'
  <2>1. /\ UNCHANGED <<slot, toWorker, toMaster, assigned>>
        /\ Empty(w)
        /\ \A v \in Workers \ {w} : connected'[v] = connected[v]
    BY <1>5 DEF Join, Resting, TypeOK
  <2>2. ASSUME NEW v \in Workers, NEW j \in Jobs, NEW s \in Segs
        PROVE  /\ Alone(v, j, s)'
               /\ Token(v, j, s)' => assigned'[j][s] = v
    <3>1. Alone(v, j, s) /\ (Token(v, j, s) => assigned[j][s] = v)
      BY DEF Tokens
    <3>2. /\ AtWork(v, j, s)' <=> AtWork(v, j, s)
          /\ OnWay(v, j, s)' <=> OnWay(v, j, s)
          /\ Back(v, j, s)' <=> Back(v, j, s)
      BY <2>1 DEF AtWork, OnWay, Back
    <3>3. CASE v # w
      <4>1. connected'[v] = connected[v]
        BY <2>1, <3>3
      <4>. QED
        BY <2>1, <3>1, <3>2, <4>1, TokenKept
    <3>4. CASE v = w
      <4>1. ~AtWork(v, j, s) /\ ~OnWay(v, j, s) /\ \A m \in AssignMsg : toWorker'[v][m] = 0
        BY <2>1, <3>4 DEF AtWork, OnWay, Empty
      <4>2. Token(v, j, s)' => Token(v, j, s)
        BY <3>2, <4>1 DEF Token
      <4>3. Alone(v, j, s)'
        BY <2>1, <3>1, <3>2, <4>1 DEF Alone
      <4>. QED
        BY <2>1, <3>1, <4>2, <4>3
    <3>. QED
      BY <3>3, <3>4
  <2>. QED
    BY <2>2, TokenEach
<1>6. ASSUME NEW w \in Workers, NEW m \in ResultMsg, RecvResult(w, m) PROVE Tokens'
  BY <1>6, ResultTokens
<1>7. ASSUME NEW w \in Workers, Heartbeat(w) PROVE Tokens'
  BY <1>3, <1>7 DEF Heartbeat
<1>8. ASSUME NEW w \in Workers, RecvLeave(w) PROVE Tokens'
  <2>1. UNCHANGED <<connected, slot, toWorker, toMaster>> /\ leaving[w]
        /\ \A m \in ResultMsg : toMaster[w][m] = 0
    BY <1>8 DEF RecvLeave
  <2>2. Empty(w)
    BY <2>1 DEF Resting
  <2>3. ReassignFromNode(w) \/ UNCHANGED assigned
    BY <1>8 DEF RecvLeave
  <2>. QED
    BY <1>3, <2>1, <2>2, <2>3, ReassignTokens
<1>9. ASSUME NEW w \in Workers, DeclareDead(w) PROVE Tokens'
  <2>1. UNCHANGED <<connected, slot, toWorker, toMaster>>
    BY <1>9 DEF DeclareDead
  <2>2. Silent(w)
    BY <1>9 DEF DeclareDead, TypeOK
  <2>3. /\ \A m \in ResultMsg : toMaster[w][m] = 0
        /\ connected[w] => Empty(w)
    BY <2>2 DEF Silent, Resting, TypeOK
  <2>4. ReassignFromNode(w) \/ UNCHANGED assigned
    BY <1>9 DEF DeclareDead
  <2>. QED
    BY <1>3, <2>1, <2>3, <2>4, ReassignTokens
<1>10. ASSUME NEW w \in Workers, NEW m \in AssignMsg, RecvAssign(w, m) PROVE Tokens'
  BY <1>10, RecvAssignTokens
<1>11. ASSUME NEW w \in Workers, PollWorkerResults(w) PROVE Tokens'
  BY <1>11, PollTokens
<1>12. ASSUME NEW w \in Workers,
              UNCHANGED assigned,
              \A v \in Workers : connected'[v] => connected[v],
              \A v \in Workers, m \in AssignMsg : toWorker'[v][m] \in {toWorker[v][m], 0},
              \A v \in Workers, m \in ResultMsg : toMaster'[v][m] \in {toMaster[v][m], 0},
              \A v \in Workers, j \in Jobs, s \in Segs : AtWork(v, j, s)' => AtWork(v, j, s)
       PROVE  Tokens'
  <2>1. ASSUME NEW v \in Workers, NEW j \in Jobs, NEW s \in Segs
        PROVE  /\ Alone(v, j, s)'
               /\ Token(v, j, s)' => assigned'[j][s] = v
    <3>1. Alone(v, j, s) /\ (Token(v, j, s) => assigned[j][s] = v)
      BY DEF Tokens
    <3>2. Alone(v, j, s)' /\ (Token(v, j, s)' => Token(v, j, s))
      BY <1>12, <3>1, TokenKept
    <3>. QED
      BY <1>12, <3>1, <3>2
  <2>. QED
    BY <2>1, TokenEach
<1>13. ASSUME NEW w \in Workers, NEW x \in Segs, NEW r, WorkerEnds(w, x, r) PROVE Tokens'
  <2>1. /\ UNCHANGED <<assigned, connected, toWorker, toMaster>>
        /\ slot[w][x] # None
        /\ slot' = [slot EXCEPT ![w][x] = [slot[w][x] EXCEPT !.st = r]]
    BY <1>13 DEF WorkerEnds
  <2>2. slot[w][x] \in Task /\ slot \in [Workers -> [Segs -> Task \union {None}]]
    BY <2>1 DEF TypeOK
  <2>3. [slot[w][x] EXCEPT !.st = r].job = slot[w][x].job
    BY <2>2 DEF Task
  <2>4. ASSUME NEW v \in Workers, NEW j \in Jobs, NEW s \in Segs, AtWork(v, j, s)'
        PROVE  AtWork(v, j, s)
    <3>1. CASE v = w /\ s = x
      BY <2>1, <2>2, <2>3, <2>4, <3>1 DEF AtWork
    <3>2. CASE ~(v = w /\ s = x)
      <4>1. slot'[v][s] = slot[v][s]
        BY <2>1, <2>2, <3>2
      <4>. QED
        BY <2>4, <4>1 DEF AtWork
    <3>. QED
      BY <3>1, <3>2
  <2>. QED
    BY <1>12, <2>1, <2>4
<1>14. ASSUME NEW w \in Workers, Leave(w) \/ Crash(w) PROVE Tokens'
  <2>1. /\ UNCHANGED <<assigned, connected, toMaster>>
        /\ \A s \in Segs : slot'[w][s] = None
        /\ \A m \in AssignMsg : toWorker'[w][m] = 0
        /\ \A v \in Workers \ {w} : slot'[v] = slot[v] /\ toWorker'[v] = toWorker[v]
    BY <1>14 DEF Leave, Crash, StopWorker, TypeOK
  <2>2. \A v \in Workers, j \in Jobs, s \in Segs : AtWork(v, j, s)' => AtWork(v, j, s)
    BY <2>1 DEF AtWork
  <2>. QED
    BY <1>12, <2>1, <2>2
<1>15. ASSUME NEW w \in Workers, Disconnect(w) PROVE Tokens'
  <2>1. /\ UNCHANGED <<assigned, toMaster, toWorker, slot>>
        /\ \A v \in Workers : connected'[v] => connected[v]
    BY <1>15 DEF Disconnect, TypeOK
  <2>2. \A v \in Workers, j \in Jobs, s \in Segs : AtWork(v, j, s)' => AtWork(v, j, s)
    BY <2>1 DEF AtWork
  <2>. QED
    BY <1>12, <2>1, <2>2
<1>16. ASSUME NEW w \in Workers, LoseInFlight(w) PROVE Tokens'
  <2>1. /\ UNCHANGED <<assigned, connected, slot>>
        /\ \A m \in AssignMsg : toWorker'[w][m] = 0
        /\ \A m \in ResultMsg : toMaster'[w][m] = 0
        /\ \A v \in Workers \ {w} : toMaster'[v] = toMaster[v] /\ toWorker'[v] = toWorker[v]
    BY <1>16 DEF LoseInFlight, TypeOK
  <2>2. \A v \in Workers, j \in Jobs, s \in Segs : AtWork(v, j, s)' => AtWork(v, j, s)
    BY <2>1 DEF AtWork
  <2>. QED
    BY <1>12, <2>1, <2>2
<1>17. CASE StepDown \/ StepUp
  BY <1>3, <1>17 DEF StepDown, StepUp
<1>18. CASE UNCHANGED vars
  BY <1>3, <1>18
<1>. QED
  BY <1>1, <1>2, <1>4, <1>5, <1>6, <1>7, <1>8, <1>9, <1>10, <1>11, <1>13, <1>14, <1>15, <1>16,
     <1>17, <1>18 DEF Next, WorkerStep, MasterStep, Fault

-----------------------------------------------------------------------------
(* Results and verdicts *)

(* A tick puts nothing into a queue that was not in it. *)
LEMMA TickIds ==
  ASSUME TypeOK, NEW t, PlanFits(t), NEW F, RunScheduler(t, F), NEW j \in Jobs
  PROVE  /\ PendingIds(j)' \subseteq PendingIds(j)
         /\ \A s \in Segs : assigned'[j][s] # assigned[j][s] => s \in PendingIds(j)
         /\ failed'[j] \subseteq failed[j]
         /\ failed[j] \ failed'[j] \subseteq PendingIds(j)
<1>1. PICK f \in [1..Len(pending'[j]) -> Left(t, j, F)] :
        \A i \in 1..Len(pending'[j]) : /\ f[i] \in 1..Len(pending[j])
                                       /\ pending'[j][i] = pending[j][f[i]]
  BY QueueIndices
<1>2. PendingIds(j)' \subseteq PendingIds(j)
  BY <1>1 DEF PendingIds
<1>3. \A i \in Taken(t, j) : i \in 1..Len(pending[j])
  BY LenProperties DEF PlanFits, Taken, TypeOK
<1>4. \A s \in Segs : assigned'[j][s] # assigned[j][s] => s \in PendingIds(j)
  <2>1. ASSUME NEW s \in Segs, assigned'[j][s] # assigned[j][s] PROVE s \in PendingIds(j)
    <3>1. PICK i \in Taken(t, j) : pending[j][i].id = s
      BY <2>1 DEF RunScheduler
    <3>. QED
      BY <1>3, <3>1 DEF PendingIds
  <2>. QED
    BY <2>1
<1>5. Unsent(t, j, F) \subseteq Taken(t, j)
  BY DEF Unsent
<1>6. failed'[j] = failed[j] \ { pending[j][i].id : i \in Unsent(t, j, F) }
  BY DEF RunScheduler
<1>. QED
  BY <1>2, <1>3, <1>4, <1>5, <1>6 DEF PendingIds

(* A reassignment puts what the node held into the queue and nothing else. *)
LEMMA ReassignIds ==
  ASSUME TypeOK, NEW w \in Workers, ReassignFromNode(w), NEW j \in Jobs
  PROVE  /\ \A s \in PendingIds(j)' : s \in PendingIds(j) \/ s \in HeldBy(j, w)
         /\ \A s \in Segs : assigned'[j][s] \in {None, assigned[j][s]}
<1>1. PICK q : QueueGains(j, w, q)
  BY ReassignFacts
<1>. DEFINE n == Len(pending[j])
<1>2. n \in Nat
  BY LenProperties DEF TypeOK
<1>3. /\ Len(q) \in Nat /\ Len(pending'[j]) = n + Len(q)
      /\ \A i \in 1..n : pending'[j][i] = pending[j][i]
      /\ \A k \in 1..Len(q) : pending'[j][n + k].id = q[k] /\ q[k] \in HeldBy(j, w)
  BY <1>1 DEF QueueGains
<1>. HIDE DEF n
<1>4. ASSUME NEW i \in 1..Len(pending'[j])
      PROVE  \/ i \in 1..n /\ pending'[j][i] = pending[j][i]
             \/ pending'[j][i].id \in HeldBy(j, w)
  <2>1. CASE i <= n
    BY <1>2, <1>3, <2>1
  <2>2. CASE ~(i <= n)
    <3>1. i - n \in 1..Len(q) /\ n + (i - n) = i
      BY <1>2, <1>3, <2>2
    <3>. QED
      BY <1>3, <3>1
  <2>. QED
    BY <2>1, <2>2
<1>5. \A s \in PendingIds(j)' : s \in PendingIds(j) \/ s \in HeldBy(j, w)
  BY <1>4 DEF PendingIds, n
<1>. QED
  BY <1>5 DEF ReassignFromNode

(* A result the master counts is the first one of its segment. *)
LEMMA ResultIsFirst ==
  ASSUME TypeOK, Tokens, Outstanding, \A j \in Jobs : QueuedOnce(j),
         NEW w \in Workers, NEW m \in ResultMsg, toMaster[w][m] > 0
  PROVE  /\ m.job \in Jobs /\ m.seg \in Segs
         /\ assigned[m.job][m.seg] = w
         /\ m.seg \notin completed[m.job] \union failed[m.job]
         /\ m.seg \notin PendingIds(m.job)
<1>1. m.job \in Jobs /\ m.seg \in Segs
  BY DEF ResultMsg
<1>2. Token(w, m.job, m.seg)
  BY DEF Token, Back
<1>3. assigned[m.job][m.seg] = w /\ w # None
  BY <1>1, <1>2, ConstAssumption DEF Tokens
<1>. QED
  BY <1>1, <1>3 DEF Outstanding, QueuedOnce

(* What a job still waits for stays on its way.                             *)
LEMMA OutstandingStep ==
  ASSUME TypeOK, \A j \in Jobs : QueuedOnce(j), Tokens, Outstanding, [Next]_vars
  PROVE  Outstanding'
<1>. USE DEF vars, schedVars, jobVars, nodeVars, workVars, netVars, bounds
<1>1. ASSUME NEW j \in Jobs, JobSubmit(j) PROVE Outstanding'
  <2>1. /\ completed'[j] = {} /\ failed'[j] = {}
        /\ \A k \in Jobs \ {j} : /\ pending'[k] = pending[k] /\ assigned'[k] = assigned[k]
                                 /\ completed'[k] = completed[k] /\ failed'[k] = failed[k]
    BY <1>1 DEF JobSubmit, AddJob, TypeOK
  <2>2. \A k \in Jobs \ {j} : PendingIds(k)' = PendingIds(k)
    BY <2>1 DEF PendingIds
  <2>. QED
    BY <2>1, <2>2 DEF Outstanding
<1>2. CASE ScheduleTick
  <2>1. PICK t \in IF isMaster THEN Plans ELSE { [j \in Jobs |-> <<>>] } :
        \E F : RunScheduler(t, F) /\ UNCHANGED completed
    BY <1>2 DEF ScheduleTick
  <2>2. PICK F : RunScheduler(t, F) /\ UNCHANGED completed
    BY <2>1
  <2>3. PlanFits(t)
    BY PlansFit
  <2>4. ASSUME NEW j \in Jobs, NEW s \in Segs, s \in PendingIds(j)' \/ assigned'[j][s] # None
        PROVE  s \notin completed'[j] \union failed'[j]
    <3>1. s \in PendingIds(j) \/ assigned[j][s] # None
      BY <2>2, <2>3, <2>4, TickIds
    <3>2. failed'[j] \subseteq failed[j] /\ completed'[j] = completed[j]
      BY <2>2, <2>3, TickIds
    <3>. QED
      BY <3>1, <3>2 DEF Outstanding
  <2>. QED
    BY <2>4 DEF Outstanding
<1>3. ASSUME NEW w \in Workers, NEW m \in ResultMsg, RecvResult(w, m) PROVE Outstanding'
  <2>1. /\ m.job \in Jobs /\ m.seg \in Segs
        /\ m.seg \notin PendingIds(m.job)
    BY <1>3, ResultIsFirst DEF RecvResult
  <2>2. \A j \in Jobs : PendingIds(j)' = PendingIds(j)
    BY <1>3 DEF RecvResult, PendingIds
  <2>3. \/ UNCHANGED <<assigned, completed, failed>>
        \/ /\ assigned' = [assigned EXCEPT ![m.job][m.seg] = None]
           /\ \/ UNCHANGED failed /\ completed' = [completed EXCEPT ![m.job] = @ \union {m.seg}]
              \/ UNCHANGED completed /\ failed' = [failed EXCEPT ![m.job] = @ \union {m.seg}]
    BY <1>3 DEF RecvResult, SegmentComplete, SegmentFailed
  <2>4. ASSUME NEW j \in Jobs, NEW s \in Segs, ~(j = m.job /\ s = m.seg)
        PROVE  /\ assigned'[j][s] = assigned[j][s]
               /\ s \in completed'[j] \union failed'[j] => s \in completed[j] \union failed[j]
    <3>1. /\ assigned \in [Jobs -> [Segs -> Workers \union {None}]]
          /\ completed \in [Jobs -> SUBSET Segs] /\ failed \in [Jobs -> SUBSET Segs]
      BY DEF TypeOK
    <3>2. assigned'[j][s] = assigned[j][s]
      BY <2>1, <2>3, <2>4, <3>1
    <3>3. completed'[j] \subseteq completed[j] \union (IF j = m.job THEN {m.seg} ELSE {})
      BY <2>1, <2>3, <3>1
    <3>4. failed'[j] \subseteq failed[j] \union (IF j = m.job THEN {m.seg} ELSE {})
      BY <2>1, <2>3, <3>1
    <3>. QED
      BY <2>4, <3>2, <3>3, <3>4
  <2>5. UNCHANGED <<assigned, completed, failed>> \/ assigned'[m.job][m.seg] = None
    BY <2>1, <2>3 DEF TypeOK
  <2>. QED
    BY <2>1, <2>2, <2>4, <2>5 DEF Outstanding
<1>4. ASSUME UNCHANGED <<pending, assigned, completed, failed>> PROVE Outstanding'
  BY <1>4 DEF Outstanding, PendingIds
<1>5. ASSUME NEW w \in Workers, RecvLeave(w) \/ DeclareDead(w) PROVE Outstanding'
  <2>1. CASE UNCHANGED <<assigned, pending>>
    BY <1>4, <1>5, <2>1 DEF RecvLeave, DeclareDead
  <2>2. CASE ReassignFromNode(w)
    <3>1. UNCHANGED <<completed, failed>>
      BY <1>5 DEF RecvLeave, DeclareDead
    <3>2. \A j \in Jobs, s \in Segs : s \in HeldBy(j, w) => assigned[j][s] # None
      <4>1. w # None
        BY ConstAssumption
      <4>. QED
        BY <4>1 DEF HeldBy
    <3>3. \A j \in Jobs, s \in Segs :
            s \in PendingIds(j)' \/ assigned'[j][s] # None =>
              s \in PendingIds(j) \/ assigned[j][s] # None
      BY <2>2, <3>2, ReassignIds
    <3>. QED
      BY <3>1, <3>3 DEF Outstanding
  <2>. QED
    BY <1>5, <2>1, <2>2 DEF RecvLeave, DeclareDead
<1>6. ASSUME NEW j \in Jobs, NEW r, AssemblyEnds(j, r) PROVE Outstanding'
  BY <1>4, <1>6 DEF AssemblyEnds
<1>7. ASSUME NEW w \in Workers, WorkerStep(w) PROVE Outstanding'
  BY <1>4, <1>7 DEF WorkerStep, RecvAssign, WorkerEnds, PollWorkerResults
<1>8. ASSUME NEW w \in Workers, Join(w) \/ Heartbeat(w) PROVE Outstanding'
  BY <1>4, <1>8 DEF Join, Heartbeat
<1>9. ASSUME NEW w \in Workers, Fault(w) PROVE Outstanding'
  BY <1>4, <1>9 DEF Fault, Leave, Crash, StopWorker, Disconnect, LoseInFlight
<1>10. CASE StepDown \/ StepUp
  BY <1>4, <1>10 DEF StepDown, StepUp
<1>11. CASE UNCHANGED vars
  BY <1>4, <1>11
<1>. QED
  BY <1>1, <1>2, <1>3, <1>5, <1>6, <1>7, <1>8, <1>9, <1>10, <1>11 DEF Next, MasterStep

(* A job that was not submitted has left no trace.                          *)
LEMMA UnacceptedStep ==
  ASSUME TypeOK, Unaccepted, [Next]_vars
  PROVE  Unaccepted'
<1>. USE DEF vars, schedVars, jobVars, nodeVars, workVars, netVars, bounds
<1>1. ASSUME NEW j \in Jobs, JobSubmit(j) PROVE Unaccepted'
  <2>1. /\ known' = known \union {j} /\ UNCHANGED <<told, assembly>>
        /\ \A k \in Jobs \ {j} : /\ pending'[k] = pending[k] /\ assigned'[k] = assigned[k]
                                 /\ completed'[k] = completed[k] /\ failed'[k] = failed[k]
    BY <1>1 DEF JobSubmit, AddJob, TypeOK
  <2>2. \A k \in Jobs \ {j} : PendingIds(k)' = PendingIds(k)
    BY <2>1 DEF PendingIds
  <2>. QED
    BY <2>1, <2>2 DEF Unaccepted
<1>2. CASE ScheduleTick
  <2>1. PICK t \in IF isMaster THEN Plans ELSE { [j \in Jobs |-> <<>>] } :
        \E F : RunScheduler(t, F) /\ PollAssembly /\ UNCHANGED <<known, completed>>
    BY <1>2 DEF ScheduleTick
  <2>2. PICK F : RunScheduler(t, F) /\ PollAssembly /\ UNCHANGED <<known, completed>>
    BY <2>1
  <2>3. PlanFits(t)
    BY PlansFit
  <2>4. ASSUME NEW j \in Jobs \ known
        PROVE  /\ PendingIds(j)' = {} /\ failed'[j] = {}
               /\ \A s \in Segs : assigned'[j][s] = None
    BY <2>2, <2>3, TickIds DEF Unaccepted
  <2>5. \A j \in Jobs \ known : told'[j] = <<>> /\ assembly'[j] = "none"
    BY <2>2 DEF PollAssembly, Unaccepted
  <2>. QED
    BY <2>2, <2>4, <2>5 DEF Unaccepted
<1>3. ASSUME NEW w \in Workers, NEW m \in ResultMsg, RecvResult(w, m) PROVE Unaccepted'
  <2>1. UNCHANGED <<known, pending>> /\ m.job \in Jobs
    BY <1>3 DEF RecvResult, ResultMsg
  <2>2. \A j \in Jobs : PendingIds(j)' = PendingIds(j)
    BY <2>1 DEF PendingIds
  <2>3. ASSUME NEW j \in Jobs \ known
        PROVE  /\ completed'[j] = completed[j] /\ failed'[j] = failed[j]
               /\ told'[j] = told[j] /\ assembly'[j] = assembly[j] /\ assigned'[j] = assigned[j]
    <3>1. CASE m.job \in known
      <4>1. j # m.job
        BY <3>1
      <4>2. /\ completed'[j] = completed[j] /\ failed'[j] = failed[j] /\ assigned'[j] = assigned[j]
        BY <1>3, <4>1 DEF RecvResult, SegmentComplete, SegmentFailed, TypeOK
      <4>3. told'[j] = told[j] /\ assembly'[j] = assembly[j]
        BY <1>3, <4>1 DEF RecvResult, SegmentComplete, SegmentFailed, CheckJobCompletion, TypeOK
      <4>. QED
        BY <4>2, <4>3
    <3>2. CASE m.job \notin known
      BY <1>3, <3>2 DEF RecvResult
    <3>. QED
      BY <3>1, <3>2
  <2>. QED
    BY <2>1, <2>2, <2>3 DEF Unaccepted
<1>4. ASSUME UNCHANGED <<known, pending, assigned, completed, failed, told, assembly>>
      PROVE  Unaccepted'
  <2>1. \A j \in Jobs : PendingIds(j)' = PendingIds(j)
    BY <1>4 DEF PendingIds
  <2>. QED
    BY <1>4, <2>1 DEF Unaccepted
<1>5. ASSUME NEW w \in Workers, RecvLeave(w) \/ DeclareDead(w) PROVE Unaccepted'
  <2>1. UNCHANGED <<known, completed, failed, told, assembly>>
    BY <1>5 DEF RecvLeave, DeclareDead
  <2>2. CASE UNCHANGED <<assigned, pending>>
    BY <1>4, <2>1, <2>2
  <2>3. CASE ReassignFromNode(w)
    <3>1. ASSUME NEW j \in Jobs \ known
          PROVE  PendingIds(j)' = {} /\ \A s \in Segs : assigned'[j][s] = None
      <4>1. HeldBy(j, w) = {}
        BY ConstAssumption DEF HeldBy, Unaccepted
      <4>. QED
        BY <2>3, <4>1, ReassignIds DEF Unaccepted
    <3>. QED
      BY <2>1, <3>1 DEF Unaccepted
  <2>. QED
    BY <1>5, <2>2, <2>3 DEF RecvLeave, DeclareDead
<1>6. ASSUME NEW j \in Jobs, NEW r, AssemblyEnds(j, r) PROVE Unaccepted'
  <2>1. /\ assembly[j] = "running" /\ \A k \in Jobs \ {j} : assembly'[k] = assembly[k]
        /\ UNCHANGED <<known, pending, assigned, completed, failed, told>>
    BY <1>6 DEF AssemblyEnds, TypeOK
  <2>2. j \in known
    BY <2>1 DEF Unaccepted
  <2>3. \A k \in Jobs : PendingIds(k)' = PendingIds(k)
    BY <2>1 DEF PendingIds
  <2>. QED
    BY <2>1, <2>2, <2>3 DEF Unaccepted
<1>7. ASSUME NEW w \in Workers, WorkerStep(w) PROVE Unaccepted'
  BY <1>4, <1>7 DEF WorkerStep, RecvAssign, WorkerEnds, PollWorkerResults
<1>8. ASSUME NEW w \in Workers, Join(w) \/ Heartbeat(w) PROVE Unaccepted'
  BY <1>4, <1>8 DEF Join, Heartbeat
<1>9. ASSUME NEW w \in Workers, Fault(w) PROVE Unaccepted'
  BY <1>4, <1>9 DEF Fault, Leave, Crash, StopWorker, Disconnect, LoseInFlight
<1>10. CASE StepDown \/ StepUp
  BY <1>4, <1>10 DEF StepDown, StepUp
<1>11. CASE UNCHANGED vars
  BY <1>4, <1>11
<1>. QED
  BY <1>1, <1>2, <1>3, <1>5, <1>6, <1>7, <1>8, <1>9, <1>10, <1>11 DEF Next, MasterStep

(* What check_job_completion does with a job that is not decided yet: the   *)
(* last result decides it or starts its assembly, any other does nothing.   *)
Decided(j, done, bad) ==
  \/ done \union bad # Segs /\ UNCHANGED <<told, ctx, assembly>>
  \/ /\ done \union bad = Segs /\ ctx' = ctx \ {j} /\ UNCHANGED assembly
     /\ \/ told' = [told EXCEPT ![j] = <<"failed">>]
        \/ told' = [told EXCEPT ![j] = <<"complete">>] /\ done = Segs /\ ~HasStore
  \/ /\ done = Segs /\ ctx' = ctx \ {j} /\ UNCHANGED told
     /\ assembly' = [assembly EXCEPT ![j] = "running"]

(* The completion check decides a job as its counts say.                    *)
LEMMA CompletionDecides ==
  ASSUME TypeOK, NEW j \in ctx, told[j] = <<>>,
         NEW done \in SUBSET Segs, NEW bad \in SUBSET Segs, done \intersect bad = {},
         NEW out, HasStore => out = done, CheckJobCompletion(j, done, bad, out)
  PROVE  Decided(j, done, bad)
<1>1. /\ IsFiniteSet(done) /\ IsFiniteSet(bad) /\ done \union bad \in SUBSET Segs
      /\ Cardinality(done) \in Nat /\ Cardinality(bad) \in Nat /\ Cardinality(Segs) \in Nat
  BY SegmentSets
<1>2. Cardinality(done \union bad) = Cardinality(done) + Cardinality(bad)
  <2>1. Cardinality(done \intersect bad) = 0
    BY FS_EmptySet
  <2>2. Cardinality(done \union bad) =
          Cardinality(done) + Cardinality(bad) - Cardinality(done \intersect bad)
    BY <1>1, FS_Union
  <2>. QED
    BY <1>1, <2>1, <2>2
<1>3. Cardinality(done) + Cardinality(bad) >= Cardinality(Segs) <=> done \union bad = Segs
  <2>1. Cardinality(done \union bad) <= Cardinality(Segs)
    BY <1>1, SegmentSets
  <2>2. Cardinality(done \union bad) = Cardinality(Segs) => done \union bad = Segs
    BY <1>1, SegmentSets
  <2>3. Cardinality(done \union bad) \in Nat
    BY <1>1, <1>2
  <2>. DEFINE c == Cardinality(done \union bad)
  <2>4. done \union bad = Segs => c = Cardinality(Segs)
    OBVIOUS
  <2>5. c \in Nat /\ c <= Cardinality(Segs) /\ (c = Cardinality(Segs) => done \union bad = Segs)
        /\ Cardinality(done) + Cardinality(bad) = c
    BY <1>2, <2>1, <2>2, <2>3
  <2>. HIDE DEF c
  <2>6. c >= Cardinality(Segs) <=> c = Cardinality(Segs)
    BY <1>1, <2>5
  <2>. QED
    BY <2>4, <2>5, <2>6
<1>4. \A v : Append(told[j], v) = <<v>>
  <2>1. \A v : Append(<<>>, v) = <<v>>
    OBVIOUS
  <2>. QED
    BY <2>1
<1>5. "failed" \in Outcome /\ "complete" \in Outcome
  BY DEF Outcome
<1>6. told' = [told EXCEPT ![j] = Append(@, "failed")] => told' = [told EXCEPT ![j] = <<"failed">>]
  BY <1>4
<1>7. told' = [told EXCEPT ![j] = Append(@, "complete")] => told' = [told EXCEPT ![j] = <<"complete">>]
  BY <1>4
<1>8. CASE done \union bad # Segs
  BY <1>3, <1>8 DEF CheckJobCompletion, Decided
<1>9. CASE done \union bad = Segs /\ bad # {}
  BY <1>3, <1>5, <1>6, <1>9 DEF CheckJobCompletion, Decided
<1>10. CASE done \union bad = Segs /\ bad = {}
  <2>1. done = Segs
    BY <1>10
  <2>2. HasStore => Cardinality(out) = Cardinality(Segs)
    BY <2>1
  <2>. QED
    BY <1>3, <1>5, <1>7, <1>10, <2>1, <2>2 DEF CheckJobCompletion, Decided
<1>. QED
  BY <1>8, <1>9, <1>10

(* No other job notices. *)
LEMMA DecidedOthers ==
  ASSUME TypeOK, NEW j \in Jobs, NEW done, NEW bad, Decided(j, done, bad)
  PROVE  /\ \A k \in Jobs \ {j} : told'[k] = told[k] /\ assembly'[k] = assembly[k]
         /\ ctx' \subseteq ctx /\ ctx \subseteq ctx' \union {j}
<1>1. told \in [Jobs -> Seq(Outcome)] /\ assembly \in [Jobs -> {"none", "running", "ok", "err"}]
  BY DEF TypeOK
<1>2. CASE UNCHANGED <<told, ctx, assembly>>
  BY <1>2
<1>3. ASSUME NEW v, told' = [told EXCEPT ![j] = <<v>>], UNCHANGED assembly, ctx' = ctx \ {j}
      PROVE  /\ \A k \in Jobs \ {j} : told'[k] = told[k] /\ assembly'[k] = assembly[k]
             /\ ctx' \subseteq ctx /\ ctx \subseteq ctx' \union {j}
  BY <1>1, <1>3
<1>4. CASE UNCHANGED told /\ assembly' = [assembly EXCEPT ![j] = "running"] /\ ctx' = ctx \ {j}
  BY <1>1, <1>4
<1>. QED
  BY <1>2, <1>3, <1>4 DEF Decided

(* What the job itself shows. *)
JobDecided(j, done, bad) ==
  /\ told'[j] # <<>> \/ assembly'[j] # "none" <=> done \union bad = Segs
  /\ told'[j] # <<>> => assembly'[j] = "none" /\ Len(told'[j]) = 1
  /\ j \in ctx' <=> done \union bad # Segs
  /\ HasStore => \A i \in 1..Len(told'[j]) : told'[j][i] # "complete"

(* A job that had no verdict gets one that its results justify.             *)
LEMMA DecidedOne ==
  ASSUME TypeOK, NEW j \in ctx, NEW done \in SUBSET Segs, NEW bad \in SUBSET Segs,
         told[j] = <<>>, assembly[j] = "none", Decided(j, done, bad)
  PROVE  JobDecided(j, done, bad)
<1>1. /\ j \in Jobs /\ told \in [Jobs -> Seq(Outcome)]
      /\ assembly \in [Jobs -> {"none", "running", "ok", "err"}]
  BY DEF TypeOK
<1>2. CASE done \union bad # Segs /\ UNCHANGED <<told, ctx, assembly>>
  <2>1. told'[j] = <<>> /\ assembly'[j] = "none" /\ j \in ctx'
    BY <1>2
  <2>. QED
    BY <1>2, <2>1 DEF JobDecided
<1>3. ASSUME done \union bad = Segs, ctx' = ctx \ {j}, UNCHANGED assembly, NEW v,
             told' = [told EXCEPT ![j] = <<v>>], v = "complete" => ~HasStore
      PROVE  JobDecided(j, done, bad)
  <2>1. told'[j] = <<v>> /\ assembly'[j] = "none" /\ j \notin ctx'
    BY <1>1, <1>3
  <2>2. Len(told'[j]) = 1 /\ \A i \in 1..Len(told'[j]) : told'[j][i] = v
    BY <2>1
  <2>. QED
    BY <1>3, <2>1, <2>2 DEF JobDecided
<1>4. CASE /\ done = Segs /\ ctx' = ctx \ {j} /\ UNCHANGED told
           /\ assembly' = [assembly EXCEPT ![j] = "running"]
  <2>1. told'[j] = <<>> /\ j \notin ctx' /\ done \union bad = Segs /\ assembly'[j] # "none"
    BY <1>1, <1>4
  <2>2. \A i \in 1..Len(told'[j]) : told'[j][i] # "complete"
    BY <2>1
  <2>. QED
    BY <2>1, <2>2 DEF JobDecided
<1>. QED
  BY <1>2, <1>3, <1>4 DEF Decided

(* What RecvResult does to the jobs, when its segment had no result yet. *)
Counted(j, s, ok) ==
  LET done == IF ok THEN completed[j] \union {s} ELSE completed[j]
      bad  == IF ok THEN failed[j] ELSE failed[j] \union {s}
  IN /\ completed' = [completed EXCEPT ![j] = done]
     /\ failed' = [failed EXCEPT ![j] = bad]
     /\ done \in SUBSET Segs /\ bad \in SUBSET Segs /\ done \intersect bad = {}
     /\ completed[j] \union failed[j] # Segs
     /\ told[j] = <<>> /\ assembly[j] = "none"
     /\ Decided(j, done, bad)
     /\ HasStore => uris' = [uris EXCEPT ![j] = done]
     /\ \A k \in Jobs \ {j} : uris'[k] = uris[k]

(* A result counts once.                                                    *)
LEMMA ResultCounts ==
  ASSUME TypeOK, Tokens, Outstanding, \A j \in Jobs : QueuedOnce(j), Verdict,
         NEW w \in Workers, NEW m \in ResultMsg, RecvResult(w, m)
  PROVE  \/ m.job \in known /\ m.seg \in Segs /\ Counted(m.job, m.seg, m.ok)
         \/ UNCHANGED <<assigned, completed, failed, jobVars>>
<1>. DEFINE j == m.job
            s == m.seg
            done == IF m.ok THEN completed[j] \union {s} ELSE completed[j]
            bad  == IF m.ok THEN failed[j] ELSE failed[j] \union {s}
<1>1. CASE ~(isMaster /\ m.job \in known)
  BY <1>1 DEF RecvResult
<1>2. CASE isMaster /\ m.job \in known
  <2>1. j \in Jobs /\ s \in Segs /\ s \notin completed[j] \union failed[j] /\ j \in known
    BY <1>2, ResultIsFirst DEF RecvResult
  <2>2. completed[j] \union failed[j] # Segs
    BY <2>1
  <2>3. told[j] = <<>> /\ assembly[j] = "none" /\ j \in ctx /\ (HasStore => uris[j] = completed[j])
    BY <2>1, <2>2 DEF Verdict, Fine
  <2>4. completed[j] \in SUBSET Segs /\ failed[j] \in SUBSET Segs
        /\ completed[j] \intersect failed[j] = {}
    BY <2>1 DEF TypeOK, Verdict, Fine
  <2>5. done \in SUBSET Segs /\ bad \in SUBSET Segs /\ done \intersect bad = {}
    BY <2>1, <2>4
  <2>6. CASE m.ok
    <3>1. SegmentComplete(j, s)
      BY <1>2, <2>6 DEF RecvResult
    <3>2. PICK out : /\ out = IF HasStore /\ j \in ctx THEN uris[j] \union {s} ELSE uris[j]
                     /\ uris' = [uris EXCEPT ![j] = out]
                     /\ completed' = [completed EXCEPT ![j] = done]
                     /\ CheckJobCompletion(j, done, bad, out)
                     /\ UNCHANGED failed
      BY <2>6, <3>1 DEF SegmentComplete
    <3>3. HasStore => out = done
      BY <2>3, <2>6, <3>2
    <3>4. Decided(j, done, bad)
      BY <2>3, <2>5, <3>2, <3>3, CompletionDecides
    <3>5. failed' = [failed EXCEPT ![j] = bad] /\ \A k \in Jobs \ {j} : uris'[k] = uris[k]
      BY <2>6, <3>2 DEF TypeOK
    <3>. QED
      BY <2>1, <2>2, <2>3, <2>5, <3>2, <3>3, <3>4, <3>5 DEF Counted
  <2>7. CASE ~m.ok
    <3>1. SegmentFailed(j, s)
      BY <1>2, <2>7 DEF RecvResult
    <3>2. /\ failed' = [failed EXCEPT ![j] = bad]
          /\ CheckJobCompletion(j, done, bad, uris[j])
          /\ UNCHANGED <<uris, completed>>
      BY <2>7, <3>1 DEF SegmentFailed
    <3>3. HasStore => uris[j] = done
      BY <2>3, <2>7
    <3>4. Decided(j, done, bad)
      BY <2>3, <2>5, <3>2, <3>3, CompletionDecides
    <3>5. /\ completed' = [completed EXCEPT ![j] = done]
          /\ HasStore => uris' = [uris EXCEPT ![j] = done]
          /\ \A k \in Jobs \ {j} : uris'[k] = uris[k]
      BY <2>7, <3>2, <3>3 DEF TypeOK
    <3>. QED
      BY <2>1, <2>2, <2>3, <2>5, <3>2, <3>4, <3>5 DEF Counted
  <2>. QED
    BY <2>6, <2>7
<1>. QED
  BY <1>1, <1>2

(* No step adds a verdict to a decided job.                                 *)
LEMMA VerdictStep ==
  ASSUME TypeOK, \A j \in Jobs : QueuedOnce(j), Tokens, Outstanding, Unaccepted, Verdict,
         [Next]_vars
  PROVE  Verdict'
<1>. USE DEF vars, schedVars, jobVars, nodeVars, workVars, netVars, bounds
<1>1. ctx \subseteq known /\ \A k \in Jobs : Fine(k)
  BY DEF Verdict
<1>2. ASSUME ctx' \subseteq known', \A k \in Jobs : Fine(k)' PROVE Verdict'
  BY <1>2 DEF Verdict
<1>3. ASSUME NEW k \in Jobs, completed'[k] = completed[k], failed'[k] = failed[k],
             told'[k] = told[k], assembly'[k] = assembly[k], uris'[k] = uris[k],
             k \in known' <=> k \in known, k \in ctx' <=> k \in ctx
      PROVE  Fine(k)'
  BY <1>1, <1>3 DEF Fine
<1>4. \A v : /\ <<v>> # <<>> /\ Len(<<v>>) = 1
             /\ v # "complete" => \A i \in 1..Len(<<v>>) : <<v>>[i] # "complete"
  OBVIOUS
<1>5. ASSUME NEW j \in Jobs, JobSubmit(j) PROVE Verdict'
  <2>1. /\ j \in Jobs \ known /\ known' = known \union {j} /\ ctx' = ctx \union {j}
        /\ completed'[j] = {} /\ failed'[j] = {} /\ uris'[j] = {}
        /\ UNCHANGED <<told, assembly>>
        /\ \A k \in Jobs \ {j} : /\ completed'[k] = completed[k] /\ failed'[k] = failed[k]
                                 /\ uris'[k] = uris[k]
    BY <1>5 DEF JobSubmit, AddJob, TypeOK
  <2>2. told[j] = <<>> /\ assembly[j] = "none" /\ Len(told[j]) = 0
    BY <2>1 DEF Unaccepted
  <2>3. Fine(j)'
    <3>1. completed'[j] \union failed'[j] # Segs
      BY <2>1, ConstAssumption
    <3>2. told'[j] = <<>> /\ assembly'[j] = "none"
      BY <2>1, <2>2
    <3>. QED
      BY <2>1, <2>2, <3>1, <3>2 DEF Fine
  <2>4. \A k \in Jobs \ {j} : Fine(k)'
    BY <1>3, <2>1
  <2>. QED
    BY <1>1, <1>2, <2>1, <2>3, <2>4
<1>6. CASE ScheduleTick
  <2>1. PICK t \in IF isMaster THEN Plans ELSE { [j \in Jobs |-> <<>>] } :
        \E F : RunScheduler(t, F) /\ PollAssembly /\ UNCHANGED <<known, completed, ctx, uris>>
    BY <1>6 DEF ScheduleTick
  <2>2. PICK F : RunScheduler(t, F) /\ PollAssembly /\ UNCHANGED <<known, completed, ctx, uris>>
    BY <2>1
  <2>3. PlanFits(t)
    BY PlansFit
  <2>4. ASSUME NEW k \in Jobs PROVE Fine(k)'
    <3>1. failed'[k] = failed[k]
      <4>1. failed'[k] \subseteq failed[k] /\ failed[k] \ failed'[k] \subseteq PendingIds(k)
        BY <2>2, <2>3, TickIds
      <4>2. \A s \in failed[k] : s \in Segs /\ s \notin PendingIds(k)
        BY DEF Outstanding, TypeOK
      <4>. QED
        BY <4>1, <4>2
    <3>2. CASE assembly[k] \notin {"ok", "err"}
      <4>1. told'[k] = told[k] /\ assembly'[k] = assembly[k]
        BY <2>2, <3>2 DEF PollAssembly
      <4>. QED
        BY <1>3, <2>2, <3>1, <4>1
    <3>3. CASE assembly[k] \in {"ok", "err"}
      <4>1. told[k] = <<>> /\ completed[k] \union failed[k] = Segs
        BY <1>1, <3>3 DEF Fine
      <4>2. PICK v \in {"failed", "completeWithOutput"} : told'[k] = Append(told[k], v)
        BY <2>2, <3>3 DEF PollAssembly
      <4>3. told'[k] = <<v>>
        BY <4>1, <4>2
      <4>4. assembly'[k] = "none"
        BY <2>2, <3>3 DEF PollAssembly
      <4>5. \A i \in 1..Len(told'[k]) : told'[k][i] # "complete"
        BY <1>4, <4>2, <4>3
      <4>6. /\ completed'[k] = completed[k] /\ uris'[k] = uris[k]
            /\ known' = known /\ ctx' = ctx
        BY <2>2
      <4>. QED
        BY <1>1, <1>4, <3>1, <4>1, <4>3, <4>4, <4>5, <4>6 DEF Fine
    <3>. QED
      BY <3>2, <3>3
  <2>. QED
    BY <1>1, <1>2, <2>2, <2>4
<1>7. ASSUME NEW w \in Workers, NEW m \in ResultMsg, RecvResult(w, m) PROVE Verdict'
  <2>1. UNCHANGED known
    BY <1>7 DEF RecvResult
  <2>2. CASE UNCHANGED <<assigned, completed, failed, jobVars>>
    BY <1>1, <1>2, <1>3, <2>1, <2>2
  <2>3. CASE m.job \in known /\ m.seg \in Segs /\ Counted(m.job, m.seg, m.ok)
    <3>. PICK j, done, bad :
           /\ j = m.job
           /\ done = (IF m.ok THEN completed[j] \union {m.seg} ELSE completed[j])
           /\ bad = (IF m.ok THEN failed[j] ELSE failed[j] \union {m.seg})
      OBVIOUS
    <3>1. /\ j \in known
          /\ completed' = [completed EXCEPT ![j] = done]
          /\ failed' = [failed EXCEPT ![j] = bad]
          /\ done \in SUBSET Segs /\ bad \in SUBSET Segs /\ done \intersect bad = {}
          /\ completed[j] \union failed[j] # Segs
          /\ told[j] = <<>> /\ assembly[j] = "none"
          /\ Decided(j, done, bad)
          /\ HasStore => uris' = [uris EXCEPT ![j] = done]
          /\ \A k \in Jobs \ {j} : uris'[k] = uris[k]
      BY <2>3 DEF Counted
    <3>2. /\ j \in Jobs /\ completed'[j] = done /\ failed'[j] = bad
          /\ HasStore => uris'[j] = done
          /\ \A k \in Jobs \ {j} : /\ completed'[k] = completed[k] /\ failed'[k] = failed[k]
                                   /\ uris'[k] = uris[k]
      BY <3>1 DEF TypeOK
    <3>4. /\ \A k \in Jobs \ {j} : told'[k] = told[k] /\ assembly'[k] = assembly[k]
          /\ ctx' \subseteq ctx /\ ctx \subseteq ctx' \union {j}
      BY <3>1, <3>2, DecidedOthers
    <3>5. \A k \in Jobs \ {j} : Fine(k)'
      BY <1>3, <2>1, <3>2, <3>4
    <3>6. j \in ctx
      BY <1>1, <3>1, <3>2 DEF Fine
    <3>10. Fine(j)'
      <4>1. JobDecided(j, done, bad)
        BY <3>1, <3>2, <3>6, DecidedOne
      <4>. QED
        BY <3>1, <3>2, <4>1 DEF Fine, JobDecided
    <3>. QED
      BY <1>1, <1>2, <2>1, <3>4, <3>5, <3>10
  <2>. QED
    BY <1>7, <2>2, <2>3, ResultCounts
<1>8. ASSUME NEW j \in Jobs, NEW r \in {"ok", "err"}, AssemblyEnds(j, r) PROVE Verdict'
  <2>1. /\ assembly[j] = "running" /\ assembly'[j] = r
        /\ \A k \in Jobs \ {j} : assembly'[k] = assembly[k]
        /\ UNCHANGED <<known, completed, failed, told, ctx, uris>>
    BY <1>8 DEF AssemblyEnds, TypeOK
  <2>2. Fine(j)'
    BY <1>1, <2>1 DEF Fine
  <2>3. \A k \in Jobs \ {j} : Fine(k)'
    BY <1>3, <2>1
  <2>. QED
    BY <1>1, <1>2, <2>1, <2>2, <2>3
<1>9. ASSUME UNCHANGED <<known, completed, failed, jobVars>> PROVE Verdict'
  BY <1>1, <1>2, <1>3, <1>9
<1>10. ASSUME NEW w \in Workers, RecvLeave(w) \/ DeclareDead(w) \/ Join(w) \/ Heartbeat(w)
       PROVE  Verdict'
  BY <1>9, <1>10 DEF RecvLeave, DeclareDead, Join, Heartbeat
<1>11. ASSUME NEW w \in Workers, WorkerStep(w) PROVE Verdict'
  BY <1>9, <1>11 DEF WorkerStep, RecvAssign, WorkerEnds, PollWorkerResults
<1>12. ASSUME NEW w \in Workers, Fault(w) PROVE Verdict'
  BY <1>9, <1>12 DEF Fault, Leave, Crash, StopWorker, Disconnect, LoseInFlight
<1>13. CASE StepDown \/ StepUp
  BY <1>9, <1>13 DEF StepDown, StepUp
<1>14. CASE UNCHANGED vars
  BY <1>9, <1>14
<1>. QED
  BY <1>5, <1>6, <1>7, <1>8, <1>10, <1>11, <1>12, <1>13, <1>14 DEF Next, MasterStep

-----------------------------------------------------------------------------
(* One outcome *)

(* Inductive.  A node declared dead while its result can still arrive is    *)
(* what breaks the second part: the segment then has two holders.           *)
OutcomeInv ==
  /\ Resting
  /\ Unaccepted
  /\ suspects = 0 => Tokens /\ Outstanding /\ Verdict

(* At the start nothing was submitted.                                      *)
LEMMA OutcomeInit == Init => OutcomeInv
<1>. SUFFICES ASSUME Init PROVE OutcomeInv
  OBVIOUS
<1>1. \A j \in Jobs : /\ told[j] = <<>> /\ Len(told[j]) = 0 /\ PendingIds(j) = {}
                      /\ assembly[j] = "none" /\ completed[j] = {} /\ failed[j] = {}
                      /\ \A s \in Segs : assigned[j][s] = None
  BY EmptySeq DEF Init, PendingIds
<1>2. Resting
  BY DEF Init, Resting, Empty
<1>3. Unaccepted
  BY <1>1 DEF Unaccepted
<1>4. Tokens
  <2>1. ASSUME NEW w \in Workers, NEW j \in Jobs, NEW s \in Segs
        PROVE  ~Token(w, j, s) /\ Alone(w, j, s)
    <3>1. /\ \A m \in ResultMsg : toMaster[w][m] = 0
          /\ \A m \in AssignMsg : toWorker[w][m] = 0
      BY DEF Init
    <3>2. ~connected[w]
      BY DEF Init
    <3>3. ~OnWay(w, j, s)
      BY <3>1 DEF OnWay
    <3>. QED
      BY <3>1, <3>2, <3>3 DEF Token, Alone, Back
  <2>. QED
    BY <2>1 DEF Tokens
<1>5. Outstanding
  BY <1>1 DEF Outstanding
<1>6. Verdict
  <2>1. ctx = {} /\ known = {}
    BY DEF Init
  <2>2. \A j \in Jobs : completed[j] \union failed[j] # Segs
    BY <1>1, ConstAssumption
  <2>. QED
    BY <1>1, <2>1, <2>2 DEF Verdict, Fine
<1>. QED
  BY <1>2, <1>3, <1>4, <1>5, <1>6 DEF OutcomeInv

(* No step takes a suspicion back. *)
LEMMA SuspectsStep == TypeOK /\ [Next]_vars /\ suspects' = 0 => suspects = 0
<1>. SUFFICES ASSUME TypeOK, [Next]_vars, suspects # 0 PROVE suspects' # 0
  OBVIOUS
<1>. USE DEF vars, schedVars, jobVars, nodeVars, workVars, netVars, bounds
<1>1. suspects \in Nat
  BY DEF TypeOK
<1>2. ASSUME NEW w \in Workers, DeclareDead(w) PROVE suspects' # 0
  BY <1>1, <1>2 DEF DeclareDead
<1>3. ASSUME NEW w \in Workers, Join(w) \/ Heartbeat(w) \/ RecvLeave(w) \/ \E m \in ResultMsg : RecvResult(w, m)
      PROVE  suspects' # 0
  BY <1>3 DEF Join, Heartbeat, RecvLeave, RecvResult
<1>4. ASSUME NEW w \in Workers, WorkerStep(w) PROVE suspects' # 0
  BY <1>4 DEF WorkerStep, RecvAssign, WorkerEnds, PollWorkerResults
<1>5. ASSUME NEW w \in Workers, Fault(w) PROVE suspects' # 0
  BY <1>5 DEF Fault, Leave, Crash, StopWorker, Disconnect, LoseInFlight
<1>6. ASSUME (\E j \in Jobs : JobSubmit(j)) \/ (\E j \in Jobs, r \in {"ok", "err"} : AssemblyEnds(j, r))
      PROVE  suspects' # 0
  BY <1>6 DEF JobSubmit, AssemblyEnds
<1>7. CASE ScheduleTick
  BY <1>7 DEF ScheduleTick
<1>8. CASE StepDown \/ StepUp \/ UNCHANGED vars
  BY <1>8 DEF StepDown, StepUp
<1>. QED
  BY <1>2, <1>3, <1>4, <1>5, <1>6, <1>7, <1>8 DEF Next, MasterStep

(* Every step keeps the invariant of the outcome.                           *)
LEMMA OutcomeStep == TypeOK /\ Queues /\ OutcomeInv /\ [Next]_vars => OutcomeInv'
<1>. SUFFICES ASSUME TypeOK, Queues, OutcomeInv, [Next]_vars PROVE OutcomeInv'
  OBVIOUS
<1>1. Resting /\ Unaccepted /\ \A j \in Jobs : QueuedOnce(j)
  BY DEF OutcomeInv, Queues
<1>2. Resting' /\ Unaccepted'
  BY <1>1, RestingStep, UnacceptedStep
<1>3. ASSUME suspects' = 0 PROVE Tokens' /\ Outstanding' /\ Verdict'
  <2>1. Tokens /\ Outstanding /\ Verdict
    BY <1>3, SuspectsStep DEF OutcomeInv
  <2>. QED
    BY <1>1, <1>3, <2>1, TokensStep, OutstandingStep, VerdictStep
<1>. QED
  BY <1>2, <1>3 DEF OutcomeInv

(* A job is decided once: unless a node was declared dead while a result of *)
(* it could still arrive, at most one terminal message is broadcast for it, *)
(* whatever is lost, reassigned or encoded again.                           *)
THEOREM DecidedOnce == Spec => []OneOutcome
<1>1. TypeOK /\ OutcomeInv => OneOutcome
  <2>. SUFFICES ASSUME TypeOK, OutcomeInv, suspects = 0, NEW j \in Jobs
                PROVE  Len(told[j]) <= 1
    BY DEF OneOutcome
  <2>1. Verdict
    BY DEF OutcomeInv
  <2>2. CASE told[j] = <<>>
    BY <2>2
  <2>3. CASE told[j] # <<>>
    <3>1. Fine(j)
      BY <2>1 DEF Verdict
    <3>2. Len(told[j]) = 1
      BY <2>3, <3>1 DEF Fine
    <3>. QED
      BY <3>2
  <2>. QED
    BY <2>2, <2>3
<1>. QED
  BY <1>1, TypeInit, TypeStep, QueuesInit, QueuesStep, OutcomeInit, OutcomeStep, PTL DEF Spec

(* With an object store and no node declared dead that could still answer,  *)
(* a job whose segments are all encoded is being assembled or has been      *)
(* announced, and it is never announced complete without its output: the    *)
(* last result finds every output recorded and the context still there.     *)
THEOREM OutputsAreAnnounced == Spec => []OutputIsAnnounced
<1>1. TypeOK /\ OutcomeInv => OutputIsAnnounced
  <2>. SUFFICES ASSUME TypeOK, OutcomeInv, HasStore, suspects = 0, NEW j \in Jobs
                PROVE  /\ completed[j] = Segs => assembly[j] # "none" \/ told[j] # <<>>
                       /\ \A i \in 1..Len(told[j]) : told[j][i] # "complete"
    BY DEF OutputIsAnnounced
  <2>1. Fine(j)
    BY DEF OutcomeInv, Verdict
  <2>2. failed[j] \subseteq Segs
    BY DEF TypeOK
  <2>. QED
    BY <2>1, <2>2 DEF Fine
<1>. QED
  BY <1>1, TypeInit, TypeStep, QueuesInit, QueuesStep, OutcomeInit, OutcomeStep, PTL DEF Spec

(* A node is never given a segment that it still has or is already being    *)
(* given, as long as no node was declared dead that could still answer: an  *)
(* assignment on its way and a segment at work exclude each other, also     *)
(* after the node left, rejoined or lost its connection.                    *)
THEOREM AttemptsAreApart == Spec => []AttemptsStayApart
<1>1. OutcomeInv => AttemptsStayApart
  <2>. SUFFICES ASSUME OutcomeInv, suspects = 0,
                       NEW w \in Workers, NEW j \in Jobs, NEW s \in Segs
                PROVE  LET given == { m \in AssignMsg : m.job = j /\ m.seg = s /\ toWorker[w][m] > 0 }
                       IN  /\ \A m, n \in given : m = n /\ toWorker[w][m] = 1
                           /\ slot[w][s] # None /\ slot[w][s].job = j => given = {}
    BY DEF AttemptsStayApart
  <2>1. Alone(w, j, s)
    BY DEF OutcomeInv, Tokens
  <2>. QED
    BY <2>1 DEF Alone, OnWay, AtWork
<1>. QED
  BY <1>1, TypeInit, TypeStep, QueuesInit, QueuesStep, OutcomeInit, OutcomeStep, PTL DEF Spec

-----------------------------------------------------------------------------
(* The promise *)

(* Jobs J whose assembly has ended are decided in one step. *)
LEMMA TickDecides ==
  ASSUME TypeOK, Unaccepted, Verdict, Successes, PollAssembly, UNCHANGED <<known, completed>>
  PROVE  JP!Decide({ j \in Jobs : assembly[j] \in {"ok", "err"} })
<1>. DEFINE J == { j \in Jobs : assembly[j] \in {"ok", "err"} }
            v == [j \in J |-> IF assembly[j] = "ok" THEN "completeWithOutput" ELSE "failed"]
<1>1. \A j \in J : /\ told[j] = <<>>
                   /\ assembly[j] = "ok" => completed[j] = Segs
  BY DEF Verdict, Fine, Successes, Succeeding
<1>2. v \in [J -> {"failed", "complete", "completeWithOutput"}]
  OBVIOUS
<1>3. \A j \in J : v[j] \in JP!Verdicts(completed[j])
  BY <1>1 DEF JP!Verdicts
<1>4. told' = [j \in Jobs |-> IF j \in J THEN <<v[j]>> ELSE told[j]]
  <2>1. \A x : Append(<<>>, x) = <<x>>
    OBVIOUS
  <2>2. told' = [j \in Jobs |->
           CASE assembly[j] = "ok"  -> Append(told[j], "completeWithOutput")
             [] assembly[j] = "err" -> Append(told[j], "failed")
             [] OTHER -> told[j]]
    BY DEF PollAssembly
  <2>3. ASSUME NEW j \in Jobs
        PROVE  (CASE assembly[j] = "ok"  -> Append(told[j], "completeWithOutput")
                  [] assembly[j] = "err" -> Append(told[j], "failed")
                  [] OTHER -> told[j])
                = IF j \in J THEN <<v[j]>> ELSE told[j]
    BY <1>1, <2>1
  <2>. QED
    BY <2>2, <2>3
<1>. QED
  BY <1>1, <1>2, <1>3, <1>4 DEF JP!Decide

(* The verdict of check_job_completion on the last result of a job. *)
LEMMA DecidedVerdict ==
  ASSUME TypeOK, NEW j \in Jobs, NEW done, NEW bad, Decided(j, done, bad)
  PROVE  \/ UNCHANGED told
         \/ \E v \in JP!Verdicts(done) :
              v \in {"failed", "complete", "completeWithOutput"} /\ told' = [told EXCEPT ![j] = <<v>>]
<1>1. "failed" \in JP!Verdicts(done) /\ (done = Segs => "complete" \in JP!Verdicts(done))
  BY DEF JP!Verdicts
<1>2. CASE UNCHANGED <<told, ctx, assembly>> \/ UNCHANGED told
  BY <1>2
<1>3. CASE told' = [told EXCEPT ![j] = <<"failed">>]
  BY <1>1, <1>3
<1>4. CASE told' = [told EXCEPT ![j] = <<"complete">>] /\ done = Segs
  BY <1>1, <1>4
<1>. QED
  BY <1>2, <1>3, <1>4 DEF Decided

(* A result that counts is a step of the promise or leaves it alone.        *)
LEMMA ResultPromise ==
  ASSUME TypeOK, NEW j \in known, NEW s \in Segs, NEW ok, Counted(j, s, ok), UNCHANGED known
  PROVE  [JP!Next]_(JP!vars)
<1>1. j \in Jobs /\ told \in [Jobs -> Seq(Outcome)] /\ completed \in [Jobs -> SUBSET Segs]
  BY DEF TypeOK
<1>2. CASE ok
  <2>1. /\ completed' = [completed EXCEPT ![j] = completed[j] \union {s}]
        /\ told[j] = <<>> /\ Decided(j, completed[j] \union {s}, failed[j])
    BY <1>2 DEF Counted
  <2>2. completed'[j] = completed[j] \union {s}
    BY <1>1, <2>1
  <2>3. \/ UNCHANGED told
        \/ \E v \in JP!Verdicts(completed'[j]) : told' = [told EXCEPT ![j] = <<v>>]
    BY <1>1, <2>1, <2>2, DecidedVerdict
  <2>4. JP!Encode(j, s)
    BY <1>1, <2>1, <2>3 DEF JP!Encode
  <2>. QED
    BY <1>1, <2>4 DEF JP!Next
<1>3. CASE ~ok
  <2>1. /\ completed' = [completed EXCEPT ![j] = completed[j]]
        /\ told[j] = <<>> /\ Decided(j, completed[j], failed[j] \union {s})
    BY <1>3 DEF Counted
  <2>2. completed' = completed
    BY <1>1, <2>1
  <2>3. CASE UNCHANGED told
    BY <2>2, <2>3 DEF JP!vars
  <2>4. ASSUME NEW v \in JP!Verdicts(completed[j]), v \in {"failed", "complete", "completeWithOutput"},
               told' = [told EXCEPT ![j] = <<v>>]
        PROVE  JP!Next
    <3>. DEFINE f == [k \in {j} |-> v]
    <3>1. f \in [{j} -> {"failed", "complete", "completeWithOutput"}]
      BY <2>4
    <3>2. \A k \in {j} : f[k] \in JP!Verdicts(completed[k])
      BY <2>4
    <3>3. told' = [k \in Jobs |-> IF k \in {j} THEN <<f[k]>> ELSE told[k]]
      BY <1>1, <2>4
    <3>4. \A k \in {j} : told[k] = <<>>
      BY <2>1
    <3>. HIDE DEF f
    <3>5. JP!Decide({j})
      BY <2>2, <3>1, <3>2, <3>3, <3>4 DEF JP!Decide
    <3>. QED
      BY <3>5 DEF JP!Next
  <2>. QED
    BY <1>1, <2>1, <2>3, <2>4, DecidedVerdict
<1>. QED
  BY <1>2, <1>3

(* Every step is a step of the promise or leaves it alone.                  *)
LEMMA PromiseStep ==
  TypeOK /\ Queues /\ Successes /\ OutcomeInv /\ suspects = 0 /\ [Next]_vars
    => [JP!Next]_(JP!vars)
<1>. SUFFICES ASSUME TypeOK, Queues, Successes, OutcomeInv, suspects = 0, [Next]_vars
              PROVE  [JP!Next]_(JP!vars)
  OBVIOUS
<1>. USE DEF vars, schedVars, jobVars, nodeVars, workVars, netVars, bounds
<1>1. /\ \A j \in Jobs : QueuedOnce(j)
      /\ Unaccepted /\ Tokens /\ Outstanding /\ Verdict
  BY DEF OutcomeInv, Queues
<1>2. ASSUME NEW j \in Jobs, JobSubmit(j) PROVE [JP!Next]_(JP!vars)
  <2>1. /\ j \in Jobs \ known /\ known' = known \union {j} /\ told' = told
        /\ completed' = [completed EXCEPT ![j] = {}]
    BY <1>2 DEF JobSubmit, AddJob
  <2>2. completed' = completed
    BY <1>1, <2>1 DEF Unaccepted, TypeOK
  <2>3. JP!Accept(j)
    BY <2>1, <2>2 DEF JP!Accept
  <2>. QED
    BY <2>3 DEF JP!Next
<1>3. CASE ScheduleTick
  <2>1. PollAssembly /\ UNCHANGED <<known, completed>>
    BY <1>3 DEF ScheduleTick
  <2>. DEFINE J == { j \in Jobs : assembly[j] \in {"ok", "err"} }
  <2>2. JP!Decide(J)
    BY <1>1, <2>1, TickDecides
  <2>3. J \in SUBSET known
    BY <1>1 DEF Unaccepted
  <2>. QED
    BY <2>2, <2>3 DEF JP!Next
<1>4. ASSUME NEW w \in Workers, NEW m \in ResultMsg, RecvResult(w, m) PROVE [JP!Next]_(JP!vars)
  <2>1. UNCHANGED known
    BY <1>4 DEF RecvResult
  <2>2. CASE UNCHANGED <<assigned, completed, failed, jobVars>>
    BY <2>1, <2>2 DEF JP!vars
  <2>3. CASE m.job \in known /\ m.seg \in Segs /\ Counted(m.job, m.seg, m.ok)
    BY <2>1, <2>3, ResultPromise
  <2>. QED
    BY <1>1, <1>4, <2>2, <2>3, ResultCounts
<1>5. ASSUME UNCHANGED <<known, completed, told>> PROVE [JP!Next]_(JP!vars)
  BY <1>5 DEF JP!vars
<1>6. ASSUME NEW j \in Jobs, NEW r, AssemblyEnds(j, r) PROVE [JP!Next]_(JP!vars)
  BY <1>5, <1>6 DEF AssemblyEnds
<1>7. ASSUME NEW w \in Workers, RecvLeave(w) \/ DeclareDead(w) \/ Join(w) \/ Heartbeat(w)
      PROVE  [JP!Next]_(JP!vars)
  BY <1>5, <1>7 DEF RecvLeave, DeclareDead, Join, Heartbeat
<1>8. ASSUME NEW w \in Workers, WorkerStep(w) PROVE [JP!Next]_(JP!vars)
  BY <1>5, <1>8 DEF WorkerStep, RecvAssign, WorkerEnds, PollWorkerResults
<1>9. ASSUME NEW w \in Workers, Fault(w) PROVE [JP!Next]_(JP!vars)
  BY <1>5, <1>9 DEF Fault, Leave, Crash, StopWorker, Disconnect, LoseInFlight
<1>10. CASE StepDown \/ StepUp
  BY <1>5, <1>10 DEF StepDown, StepUp
<1>11. CASE UNCHANGED vars
  BY <1>5, <1>11
<1>. QED
  BY <1>2, <1>3, <1>4, <1>6, <1>7, <1>8, <1>9, <1>10, <1>11 DEF Next, MasterStep

(* As long as no node is declared dead while it can still answer, the       *)
(* cluster implements JobPromise: each step of it accepts a job, encodes a  *)
(* segment, decides jobs on what is encoded, or does not show at all.       *)
THEOREM PromiseIsKept == Spec /\ [](suspects = 0) => KeepsPromise
<1>1. Init => JP!Init
  BY DEF Init, JP!Init
<1>. QED
  BY <1>1, TypeInit, TypeStep, QueuesInit, QueuesStep, SuccessesInit, SuccessesStep,
     OutcomeInit, OutcomeStep, PromiseStep, PTL DEF Spec, KeepsPromise, JP!Spec

-----------------------------------------------------------------------------
(* Assigned segments *)

(* Inductive with Watched: a node that joins was unknown, so holds nothing, *)
(* and a result that is dropped is of a job without a context.              *)
Delivered == ctx \subseteq known /\ NoStrandedAssignment

(* What OnItsWay(j, s, w) looks at. *)
LEMMA OnItsWayKept ==
  ASSUME NEW w \in Workers, NEW j \in Jobs, NEW s \in Segs, OnItsWay(j, s, w),
         \A r \in BOOLEAN : LET m == [job |-> j, seg |-> s, real |-> r]
                           IN  toWorker[w][m] > 0 => toWorker'[w][m] > 0,
         AtWork(w, j, s) => AtWork(w, j, s)',
         \A o \in BOOLEAN : LET m == [job |-> j, seg |-> s, ok |-> o]
                           IN  toMaster[w][m] > 0 => toMaster'[w][m] > 0
  PROVE  OnItsWay(j, s, w)'
  BY DEF OnItsWay, AtWork

(* A segment that a tick assigns to a running node of a job with a context  *)
(* is sent to it.                                                           *)
LEMMA TickDelivers ==
  ASSUME TypeOK, NEW t, PlanFits(t), NEW F, RunScheduler(t, F),
         NEW j \in ctx, NEW s \in Segs, NEW w \in Workers, assigned'[j][s] = w, up[w]
  PROVE  \/ assigned[j][s] = w
         \/ \E r \in BOOLEAN : toWorker'[w][[job |-> j, seg |-> s, real |-> r]] > 0
<1>1. j \in Jobs /\ w # None
  BY ConstAssumption DEF TypeOK
<1>2. CASE ~\E i \in Taken(t, j) : pending[j][i].id = s
  BY <1>1, <1>2 DEF RunScheduler
<1>3. CASE \E i \in Taken(t, j) : pending[j][i].id = s
  <2>1. PICK i : i = CHOOSE h \in Taken(t, j) : pending[j][h].id = s
    OBVIOUS
  <2>2. i \in Taken(t, j) /\ pending[j][i].id = s
    BY <1>3, <2>1
  <2>3. i \notin Unsent(t, j, F) /\ t[j][i] = w
    BY <1>1, <1>3, <2>1 DEF RunScheduler
  <2>5. pending[j][i] \in Desc
    <3>1. pending[j] \in Seq(Desc) /\ t[j] \in Seq(Workers) /\ Len(t[j]) <= Len(pending[j])
      BY <1>1 DEF TypeOK, PlanFits
    <3>2. i \in 1..Len(pending[j])
      BY <2>2, <3>1, LenProperties DEF Taken
    <3>. QED
      BY <3>1, <3>2, ElementOfSeq
  <2>6. PICK r \in BOOLEAN : pending[j][i] = [id |-> s, real |-> r]
    BY <2>2, <2>5 DEF Desc
  <2>. DEFINE m == [job |-> j, seg |-> s, real |-> r]
  <2>7. m \in AssignMsg /\ m.job = j /\ m.seg = s /\ m.real = r
    BY <1>1 DEF AssignMsg
  <2>. HIDE DEF m
  <2>8. toWorker'[w][m] = toWorker[w][m] + 1
    BY <1>1, <2>2, <2>3, <2>6, <2>7 DEF RunScheduler, BagAdd, TypeOK
  <2>9. toWorker[w][m] \in Nat
    BY <2>7 DEF TypeOK
  <2>10. toWorker'[w][m] > 0
    BY <2>8, <2>9
  <2>. QED
    BY <2>10 DEF m
<1>. QED
  BY <1>2, <1>3

(* Every step keeps assignments on their way to an answer.                  *)
LEMMA DeliveredStep == TypeOK /\ Watched /\ Delivered /\ [Next]_vars => Delivered'
<1>. SUFFICES ASSUME TypeOK, Watched, Delivered, [Next]_vars PROVE Delivered'
  OBVIOUS
<1>. USE DEF vars, schedVars, jobVars, nodeVars, workVars, netVars, bounds
<1>. DEFINE Safe(j, s, w) == /\ j \in ctx /\ assigned[j][s] = w /\ up[w] /\ connected[w]
                             => OnItsWay(j, s, w) \/ <<w, j, s>> \in replaced
<1>1. ctx \subseteq known /\ known \subseteq Jobs
  BY DEF Delivered, TypeOK
<1>2. stepDowns = 0 => \A j \in Jobs, s \in Segs, w \in Workers : Safe(j, s, w)
  BY DEF Delivered, NoStrandedAssignment
<1>3. ASSUME ctx' \subseteq known', known' \subseteq Jobs,
             stepDowns' = 0 => \A j \in Jobs, s \in Segs, w \in Workers : Safe(j, s, w)'
      PROVE  Delivered'
  BY <1>3 DEF Delivered, NoStrandedAssignment
<1>. HIDE DEF Safe
<1>4. ASSUME NEW j \in Jobs, NEW s \in Segs, NEW w \in Workers, Safe(j, s, w),
             j \in ctx' => j \in ctx, assigned'[j][s] \in {assigned[j][s], None},
             up'[w] => up[w], connected'[w] => connected[w],
             <<w, j, s>> \in replaced => <<w, j, s>> \in replaced',
             j \in ctx' /\ assigned'[j][s] = w /\ up'[w] /\ connected'[w] =>
               /\ \A m \in AssignMsg : m.job = j /\ m.seg = s /\ toWorker[w][m] > 0 => toWorker'[w][m] > 0
               /\ AtWork(w, j, s) => AtWork(w, j, s)'
               /\ \A m \in ResultMsg : m.job = j /\ m.seg = s /\ toMaster[w][m] > 0 => toMaster'[w][m] > 0
      PROVE  Safe(j, s, w)'
  <2>. SUFFICES ASSUME j \in ctx', assigned'[j][s] = w, up'[w], connected'[w]
                PROVE  (OnItsWay(j, s, w) \/ <<w, j, s>> \in replaced)'
    BY DEF Safe
  <2>1. w # None
    BY ConstAssumption
  <2>2. OnItsWay(j, s, w) \/ <<w, j, s>> \in replaced
    BY <1>4, <2>1 DEF Safe
  <2>3. \A r \in BOOLEAN : LET m == [job |-> j, seg |-> s, real |-> r]
                          IN  toWorker[w][m] > 0 => toWorker'[w][m] > 0
    BY <1>4 DEF AssignMsg
  <2>4. \A o \in BOOLEAN : LET m == [job |-> j, seg |-> s, ok |-> o]
                          IN  toMaster[w][m] > 0 => toMaster'[w][m] > 0
    BY <1>4 DEF ResultMsg
  <2>5. OnItsWay(j, s, w) => OnItsWay(j, s, w)'
    BY <1>4, <2>3, <2>4, OnItsWayKept
  <2>. QED
    BY <1>4, <2>2, <2>5
<1>5. ASSUME UNCHANGED <<ctx, known, stepDowns>>,
             \A j \in Jobs, s \in Segs : assigned'[j][s] \in {assigned[j][s], None},
             UNCHANGED <<up, connected, replaced, toWorker, toMaster>>,
             \A w \in Workers, j \in Jobs, s \in Segs : AtWork(w, j, s) => AtWork(w, j, s)'
      PROVE  Delivered'
  <2>1. ASSUME stepDowns' = 0, NEW j \in Jobs, NEW s \in Segs, NEW w \in Workers
        PROVE  Safe(j, s, w)'
    BY <1>2, <1>4, <1>5, <2>1
  <2>. QED
    BY <1>1, <1>3, <1>5, <2>1
<1>6. ASSUME UNCHANGED <<ctx, known, stepDowns, assigned, up, slot, connected, replaced, toWorker, toMaster>>
      PROVE  Delivered'
  BY <1>5, <1>6 DEF AtWork
<1>7. ASSUME NEW j \in Jobs, JobSubmit(j) PROVE Delivered'
  <2>1. /\ known' = known \union {j} /\ ctx' = ctx \union {j} /\ UNCHANGED stepDowns
        /\ \A s \in Segs : assigned'[j][s] = None
        /\ \A k \in Jobs \ {j} : assigned'[k] = assigned[k]
        /\ UNCHANGED <<up, slot, connected, replaced, toWorker, toMaster>>
    BY <1>7 DEF JobSubmit, AddJob, TypeOK
  <2>2. ASSUME stepDowns' = 0, NEW k \in Jobs, NEW s \in Segs, NEW w \in Workers
        PROVE  Safe(k, s, w)'
    <3>1. CASE k = j
      BY <2>1, <3>1, ConstAssumption DEF Safe
    <3>2. CASE k # j
      <4>1. AtWork(w, k, s) => AtWork(w, k, s)'
        BY <2>1 DEF AtWork
      <4>. QED
        BY <1>2, <1>4, <2>1, <2>2, <3>2, <4>1
    <3>. QED
      BY <3>1, <3>2
  <2>. QED
    BY <1>1, <1>3, <2>1, <2>2
<1>8. CASE ScheduleTick
  <2>1. PICK t \in IF isMaster THEN Plans ELSE { [j \in Jobs |-> <<>>] } :
        \E D, F : /\ RunScheduler(t, F) /\ UNCHANGED <<known, ctx, stepDowns, up, slot, replaced, toMaster>>
              /\ connected' = [w \in Workers |-> connected[w] /\ w \notin D]
    BY <1>8 DEF ScheduleTick
  <2>2. PICK D, F : /\ RunScheduler(t, F)
                 /\ UNCHANGED <<known, ctx, stepDowns, up, slot, replaced, toMaster>>
                 /\ connected' = [w \in Workers |-> connected[w] /\ w \notin D]
    BY <2>1
  <2>3. PlanFits(t)
    BY PlansFit
  <2>4. ASSUME NEW w \in Workers, NEW m \in AssignMsg, toWorker[w][m] > 0
        PROVE  toWorker'[w][m] > 0
    <3>1. toWorker[w] \in [AssignMsg -> Nat]
      BY DEF TypeOK
    <3>2. toWorker'[w][m] \in {toWorker[w][m], toWorker[w][m] + 1}
      BY <2>2, <3>1 DEF RunScheduler, BagAdd
    <3>3. toWorker[w][m] \in Nat
      BY <3>1
    <3>. QED
      BY <2>4, <3>2, <3>3
  <2>5. ASSUME stepDowns' = 0, NEW j \in Jobs, NEW s \in Segs, NEW w \in Workers
        PROVE  Safe(j, s, w)'
    <3>1. CASE assigned'[j][s] = w /\ assigned[j][s] # w /\ up[w] /\ j \in ctx
      <4>1. PICK r \in BOOLEAN : toWorker'[w][[job |-> j, seg |-> s, real |-> r]] > 0
        BY <2>2, <2>3, <3>1, TickDelivers
      <4>. QED
        BY <4>1 DEF Safe, OnItsWay
    <3>2. CASE assigned'[j][s] # w
      BY <3>2 DEF Safe
    <3>3. CASE assigned'[j][s] = w /\ assigned[j][s] = w
      <4>1. AtWork(w, j, s) => AtWork(w, j, s)'
        BY <2>2 DEF AtWork
      <4>. QED
        BY <1>2, <1>4, <2>2, <2>4, <2>5, <3>3, <4>1
    <3>4. CASE ~(up[w] /\ j \in ctx)
      BY <2>2, <3>4 DEF Safe
    <3>. QED
      BY <3>1, <3>2, <3>3, <3>4
  <2>. QED
    BY <1>1, <1>3, <2>2, <2>5
<1>9. ASSUME NEW w \in Workers, NEW m \in ResultMsg, RecvResult(w, m) PROVE Delivered'
  <2>1. /\ m.job \in Jobs /\ m.seg \in Segs
        /\ UNCHANGED <<known, isMaster, stepDowns, up, slot, connected, replaced, toWorker>>
    BY <1>9 DEF RecvResult, ResultMsg
  <2>2. ctx' \subseteq ctx
    BY <1>9 DEF RecvResult, SegmentComplete, SegmentFailed, CheckJobCompletion
  <2>3. \A v \in Workers, n \in ResultMsg : n # m => toMaster'[v][n] = toMaster[v][n]
    BY <1>9 DEF RecvResult, BagRemove, TypeOK
  <2>4. /\ \A j \in Jobs, s \in Segs : assigned'[j][s] \in {assigned[j][s], None}
        /\ isMaster /\ m.job \in known => assigned'[m.job][m.seg] = None
    <3>1. \/ assigned' = [assigned EXCEPT ![m.job][m.seg] = None]
          \/ ~(isMaster /\ m.job \in known) /\ UNCHANGED assigned
      BY <1>9 DEF RecvResult, SegmentComplete, SegmentFailed
    <3>2. /\ assigned \in [Jobs -> [Segs -> Workers \union {None}]]
          /\ assigned[m.job] \in [Segs -> Workers \union {None}]
      BY <2>1 DEF TypeOK
    <3>. QED
      BY <2>1, <3>1, <3>2
  <2>5. ASSUME stepDowns' = 0, NEW j \in Jobs, NEW s \in Segs, NEW v \in Workers
        PROVE  Safe(j, s, v)'
    <3>1. isMaster
      BY <2>1, <2>5 DEF Watched
    <3>2. AtWork(v, j, s) => AtWork(v, j, s)'
      BY <2>1 DEF AtWork
    <3>3. CASE j = m.job /\ s = m.seg
      <4>1. j \in ctx' => assigned'[j][s] = None
        BY <1>1, <2>2, <2>4, <3>1, <3>3
      <4>. QED
        BY <4>1, ConstAssumption DEF Safe
    <3>4. CASE ~(j = m.job /\ s = m.seg)
      <4>1. \A n \in ResultMsg : n.job = j /\ n.seg = s => toMaster'[v][n] = toMaster[v][n]
        BY <2>3, <3>4
      <4>2. Safe(j, s, v) /\ assigned'[j][s] \in {assigned[j][s], None} /\ (j \in ctx' => j \in ctx)
        BY <1>2, <2>1, <2>2, <2>4, <2>5
      <4>. QED
        BY <1>4, <2>1, <3>2, <4>1, <4>2
    <3>. QED
      BY <3>3, <3>4
  <2>. QED
    BY <1>1, <1>3, <2>1, <2>2, <2>5
<1>10. ASSUME NEW w \in Workers, RecvLeave(w) \/ DeclareDead(w) PROVE Delivered'
  <2>1. UNCHANGED <<ctx, known, stepDowns, up, slot, connected, replaced, toWorker, toMaster>>
    BY <1>10 DEF RecvLeave, DeclareDead
  <2>2. \A j \in Jobs, s \in Segs : assigned'[j][s] \in {assigned[j][s], None}
    BY <1>10, ReassignIds DEF RecvLeave, DeclareDead
  <2>. QED
    BY <1>5, <2>1, <2>2 DEF AtWork
<1>11. ASSUME NEW w \in Workers, Join(w) PROVE Delivered'
  <2>1. /\ UNCHANGED <<ctx, known, stepDowns, assigned, up, slot, replaced, toWorker, toMaster>>
        /\ status[w] = "unknown"
        /\ \A v \in Workers \ {w} : connected'[v] = connected[v]
    BY <1>11 DEF Join, TypeOK
  <2>2. ASSUME stepDowns' = 0, NEW j \in Jobs, NEW s \in Segs, NEW v \in Workers
        PROVE  Safe(j, s, v)'
    <3>1. CASE v = w
      <4>1. assigned[j][s] # w
        BY <2>1, <2>2, ConstAssumption DEF Watched
      <4>. QED
        BY <2>1, <3>1, <4>1 DEF Safe
    <3>2. CASE v # w
      <4>1. AtWork(v, j, s) => AtWork(v, j, s)'
        BY <2>1 DEF AtWork
      <4>. QED
        BY <1>2, <1>4, <2>1, <2>2, <3>2, <4>1
    <3>. QED
      BY <3>1, <3>2
  <2>. QED
    BY <1>1, <1>3, <2>1, <2>2
<1>12. ASSUME NEW w \in Workers, NEW m \in AssignMsg, RecvAssign(w, m) PROVE Delivered'
  <2>1. /\ m.job \in Jobs /\ m.seg \in Segs
        /\ UNCHANGED <<ctx, known, stepDowns, assigned, up, connected, toMaster>>
        /\ slot'[w] = [slot[w] EXCEPT ![m.seg] = [job |-> m.job, real |-> m.real, st |-> "running"]]
        /\ \A v \in Workers \ {w} : slot'[v] = slot[v] /\ toWorker'[v] = toWorker[v]
        /\ \A n \in AssignMsg \ {m} : toWorker'[w][n] = toWorker[w][n]
        /\ replaced \subseteq replaced'
    BY <1>12 DEF RecvAssign, AssignMsg, BagRemove, TypeOK
  <2>2. slot[w] \in [Segs -> Task \union {None}] /\ None \notin Task
    BY ConstAssumption DEF TypeOK
  <2>3. slot'[w][m.seg] # None /\ slot'[w][m.seg].job = m.job
    <3>1. [job |-> m.job, real |-> m.real, st |-> "running"] \in Task
      BY DEF AssignMsg, Task
    <3>. QED
      BY <2>1, <2>2, <3>1
  <2>4. \A j \in Jobs : AtWork(w, j, m.seg) /\ j # m.job => <<w, j, m.seg>> \in replaced'
    BY <1>12 DEF RecvAssign, AtWork
  <2>5. ASSUME stepDowns' = 0, NEW j \in Jobs, NEW s \in Segs, NEW v \in Workers
        PROVE  Safe(j, s, v)'
    <3>1. CASE v # w
      <4>1. AtWork(v, j, s) => AtWork(v, j, s)'
        BY <2>1, <3>1 DEF AtWork
      <4>. QED
        BY <1>2, <1>4, <2>1, <2>5, <3>1, <4>1
    <3>2. CASE v = w /\ j = m.job /\ s = m.seg
      BY <2>3, <3>2 DEF Safe, OnItsWay
    <3>3. CASE v = w /\ s = m.seg /\ j # m.job /\ AtWork(w, j, s)
      BY <2>4, <3>3 DEF Safe
    <3>4. CASE v = w /\ ~(j = m.job /\ s = m.seg) /\ ~(s = m.seg /\ AtWork(w, j, s))
      <4>1. AtWork(v, j, s) => AtWork(v, j, s)'
        BY <2>1, <2>2, <3>4 DEF AtWork
      <4>2. \A n \in AssignMsg : n.job = j /\ n.seg = s => toWorker'[v][n] = toWorker[v][n]
        BY <2>1, <3>4
      <4>3. Safe(j, s, v)
        BY <1>2, <2>1, <2>5
      <4>. QED
        BY <1>4, <2>1, <4>1, <4>2, <4>3
    <3>. QED
      BY <3>1, <3>2, <3>3, <3>4
  <2>. QED
    BY <1>1, <1>3, <2>1, <2>5
<1>13. ASSUME NEW w \in Workers, PollWorkerResults(w) PROVE Delivered'
  <2>1. /\ UNCHANGED <<ctx, known, stepDowns, assigned, up, connected, replaced, toWorker>>
        /\ \A s \in Segs : slot'[w][s] = IF s \in Ended(w) THEN None ELSE slot[w][s]
        /\ \A v \in Workers \ {w} : slot'[v] = slot[v] /\ toMaster'[v] = toMaster[v]
        /\ toMaster'[w] = BagAdd(toMaster[w],
             IF connected[w]
               THEN { [job |-> slot[w][s].job, seg |-> s, ok |-> slot[w][s].st = "ok"] : s \in Ended(w) }
               ELSE {})
    BY <1>13 DEF PollWorkerResults, TypeOK
  <2>2. toMaster[w] \in [ResultMsg -> Nat]
    BY DEF TypeOK
  <2>3. \A n \in ResultMsg : toMaster[w][n] > 0 => toMaster'[w][n] > 0
    BY <2>1, <2>2 DEF BagAdd
  <2>4. ASSUME connected[w], NEW s \in Ended(w), NEW j \in Jobs, slot[w][s].job = j
        PROVE  \E o \in BOOLEAN : toMaster'[w][[job |-> j, seg |-> s, ok |-> o]] > 0
    <3>. DEFINE n == [job |-> j, seg |-> s, ok |-> slot[w][s].st = "ok"]
    <3>1. s \in Segs
      BY DEF Ended, LocalWorkers
    <3>2. n \in ResultMsg
      BY <3>1 DEF ResultMsg
    <3>3. n \in { [job |-> slot[w][x].job, seg |-> x, ok |-> slot[w][x].st = "ok"] : x \in Ended(w) }
      BY <2>4
    <3>4. toMaster'[w][n] = toMaster[w][n] + 1
      BY <2>1, <2>2, <2>4, <3>2, <3>3 DEF BagAdd
    <3>5. toMaster'[w][n] > 0
      BY <2>2, <3>2, <3>4
    <3>6. (slot[w][s].st = "ok") \in BOOLEAN
      OBVIOUS
    <3>. QED
      BY <3>5, <3>6
  <2>5. ASSUME stepDowns' = 0, NEW j \in Jobs, NEW s \in Segs, NEW v \in Workers
        PROVE  Safe(j, s, v)'
    <3>1. Safe(j, s, v)
      BY <1>2, <2>1, <2>5
    <3>2. CASE v = w /\ connected[w] /\ s \in Ended(w) /\ slot[w][s].job = j
      BY <2>4, <3>2 DEF Safe, OnItsWay
    <3>3. CASE ~connected[v]
      BY <2>1, <3>3 DEF Safe
    <3>4. CASE connected[v] /\ ~(v = w /\ s \in Ended(w) /\ slot[w][s].job = j)
      <4>1. AtWork(v, j, s) => AtWork(v, j, s)'
        BY <2>1, <3>4 DEF AtWork
      <4>2. \A n \in ResultMsg : toMaster[v][n] > 0 => toMaster'[v][n] > 0
        BY <2>1, <2>3
      <4>. QED
        BY <1>4, <2>1, <3>1, <4>1, <4>2
    <3>. QED
      BY <3>2, <3>3, <3>4
  <2>. QED
    BY <1>1, <1>3, <2>1, <2>5
<1>14. ASSUME NEW w \in Workers, NEW x \in Segs, NEW r \in {"ok", "err"}, WorkerEnds(w, x, r)
       PROVE  Delivered'
  <2>1. /\ UNCHANGED <<ctx, known, stepDowns, assigned, up, connected, replaced, toWorker, toMaster>>
        /\ slot[w][x] # None
        /\ slot' = [slot EXCEPT ![w][x] = [slot[w][x] EXCEPT !.st = r]]
    BY <1>14 DEF WorkerEnds
  <2>2. /\ slot[w][x] \in Task /\ slot \in [Workers -> [Segs -> Task \union {None}]]
        /\ slot[w] \in [Segs -> Task \union {None}]
    BY <2>1 DEF TypeOK
  <2>3. [slot[w][x] EXCEPT !.st = r].job = slot[w][x].job
    BY <2>2 DEF Task
  <2>4. [slot[w][x] EXCEPT !.st = r] # None
    <3>1. [slot[w][x] EXCEPT !.st = r] \in Task
      BY <2>2 DEF Task
    <3>. QED
      BY <3>1, ConstAssumption
  <2>5. ASSUME NEW v \in Workers, NEW j \in Jobs, NEW s \in Segs, AtWork(v, j, s)
        PROVE  AtWork(v, j, s)'
    <3>1. CASE v = w /\ s = x
      <4>1. slot'[v][s] = [slot[w][x] EXCEPT !.st = r]
        BY <2>1, <2>2, <3>1
      <4>. QED
        BY <2>3, <2>4, <2>5, <3>1, <4>1 DEF AtWork
    <3>2. CASE ~(v = w /\ s = x)
      <4>1. slot'[v][s] = slot[v][s]
        BY <2>1, <2>2, <3>2
      <4>. QED
        BY <2>5, <4>1 DEF AtWork
    <3>. QED
      BY <3>1, <3>2
  <2>. QED
    BY <1>5, <2>1, <2>5
<1>15. ASSUME NEW w \in Workers, UNCHANGED <<ctx, known, stepDowns, assigned, replaced>>,
              up'[w] /\ connected'[w] => FALSE,
              \A v \in Workers \ {w} :
                /\ up'[v] = up[v] /\ connected'[v] = connected[v] /\ slot'[v] = slot[v]
                /\ toWorker'[v] = toWorker[v] /\ toMaster'[v] = toMaster[v]
       PROVE  Delivered'
  <2>1. ASSUME stepDowns' = 0, NEW j \in Jobs, NEW s \in Segs, NEW v \in Workers
        PROVE  Safe(j, s, v)'
    <3>1. CASE v = w
      BY <1>15, <3>1 DEF Safe
    <3>2. CASE v # w
      <4>1. AtWork(v, j, s) => AtWork(v, j, s)'
        BY <1>15, <3>2 DEF AtWork
      <4>. QED
        BY <1>2, <1>4, <1>15, <2>1, <3>2, <4>1
    <3>. QED
      BY <3>1, <3>2
  <2>. QED
    BY <1>1, <1>3, <1>15, <2>1
<1>16. ASSUME NEW w \in Workers, Leave(w) \/ Crash(w) PROVE Delivered'
  <2>1. /\ UNCHANGED <<ctx, known, stepDowns, assigned, replaced, connected, toMaster>>
        /\ up'[w] = FALSE
        /\ \A v \in Workers \ {w} : /\ up'[v] = up[v] /\ slot'[v] = slot[v]
                                    /\ toWorker'[v] = toWorker[v]
    BY <1>16 DEF Leave, Crash, StopWorker, TypeOK
  <2>. QED
    BY <1>15, <2>1
<1>17. ASSUME NEW w \in Workers, Disconnect(w) PROVE Delivered'
  <2>1. /\ UNCHANGED <<ctx, known, stepDowns, assigned, replaced, up, slot, toWorker, toMaster>>
        /\ connected'[w] = FALSE
        /\ \A v \in Workers \ {w} : connected'[v] = connected[v]
    BY <1>17 DEF Disconnect, TypeOK
  <2>. QED
    BY <1>15, <2>1
<1>18. ASSUME NEW w \in Workers, LoseInFlight(w) PROVE Delivered'
  <2>1. /\ UNCHANGED <<ctx, known, stepDowns, assigned, replaced, up, slot, connected>>
        /\ ~connected[w]
        /\ \A v \in Workers \ {w} : toWorker'[v] = toWorker[v] /\ toMaster'[v] = toMaster[v]
    BY <1>18 DEF LoseInFlight, TypeOK
  <2>. QED
    BY <1>15, <2>1
<1>19. CASE StepDown
  <2>1. stepDowns' = stepDowns + 1 /\ stepDowns \in Nat /\ UNCHANGED <<ctx, known>>
    BY <1>19 DEF StepDown, TypeOK
  <2>2. stepDowns' # 0
    BY <2>1
  <2>. QED
    BY <1>1, <1>3, <2>1, <2>2
<1>20. CASE StepUp
  BY <1>6, <1>20 DEF StepUp
<1>21. ASSUME NEW w \in Workers, Heartbeat(w) PROVE Delivered'
  BY <1>6, <1>21 DEF Heartbeat
<1>22. ASSUME NEW j \in Jobs, NEW r, AssemblyEnds(j, r) PROVE Delivered'
  BY <1>6, <1>22 DEF AssemblyEnds
<1>23. CASE UNCHANGED vars
  BY <1>6, <1>23
<1>. QED
  BY <1>7, <1>8, <1>9, <1>10, <1>11, <1>12, <1>13, <1>14, <1>16, <1>17, <1>18, <1>19, <1>20,
     <1>21, <1>22, <1>23 DEF Next, WorkerStep, MasterStep, Fault

(* Until the job is decided, a segment assigned to a running and connected  *)
(* node is on its way there, in its table, or its result is on its way      *)
(* back, unless another job's segment of that id replaced its receiver.     *)
THEOREM NothingIsStranded == Spec => []NoStrandedAssignment
<1>1. Init => Watched /\ Delivered
  BY DEF Init, Watched, Delivered, NoStrandedAssignment
<1>2. Delivered => NoStrandedAssignment
  BY DEF Delivered
<1>. QED
  BY <1>1, <1>2, TypeInit, TypeStep, WatchedStep, DeliveredStep, PTL DEF Spec

=============================================================================
