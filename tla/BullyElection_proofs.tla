------------------------ MODULE BullyElection_proofs ------------------------
(***************************************************************************)
(* Theorems about the election, for every number of joiners, every order   *)
(* of priorities and every number of stops and crashes.                    *)
(***************************************************************************)
EXTENDS BullyElection, TLAPS, SequenceTheorems

-----------------------------------------------------------------------------
(* What a connection carries *)

Carries(s, e) == \E i \in 1..Len(s) : s[i] = e

(* Behind every x in s there is a y.                                        *)
Followed(s, x, y) ==
  \A i \in 1..Len(s) : s[i] = x => \E k \in 1..Len(s) : k > i /\ s[k] = y

(* A joiner says hello and tells whom it follows, the hub identifies        *)
(* itself, and a victory names the node it comes from.                      *)
Route(n, m) ==
  IF ~Adjacent(n, m) THEN {}
  ELSE [op : {"start", "alive", "leave"}] \union {Victory(n)} \union
       (IF m = Hub
        THEN {[op |-> "hello"]} \union [op : {"identified"}, node : Nodes \union {None}]
        ELSE {[op |-> "identify"]})

Routed(c) ==
  /\ c \in [Nodes -> [Nodes -> Seq(Msg)]]
  /\ \A n, m \in Nodes : c[n][m] \in Seq(Route(n, m))

(* Whatever a connection may carry is a message.                            *)
LEMMA RouteFacts ==
  ASSUME NEW n \in Nodes, NEW m \in Nodes
  PROVE  Route(n, m) \subseteq Msg
BY ElectionAssumption DEF Route, Msg, Handshake, About, Victory

(* A message added to a queue is in it behind those that were there.        *)
LEMMA CarriesConcat ==
  ASSUME NEW S, NEW s \in Seq(S), NEW t \in Seq(S), NEW e
  PROVE  Carries(s \o t, e) <=> Carries(s, e) \/ Carries(t, e)
<1>1. /\ Len(s) \in Nat /\ Len(t) \in Nat
      /\ Len(s \o t) = Len(s) + Len(t)
      /\ \A i \in 1 .. Len(s) + Len(t) :
           (s \o t)[i] = IF i <= Len(s) THEN s[i] ELSE t[i - Len(s)]
  BY ConcatProperties, LenProperties
<1>2. ASSUME NEW i \in 1..Len(s), s[i] = e
      PROVE  Carries(s \o t, e)
  <2>1. i \in 1..Len(s) + Len(t) /\ i <= Len(s)
    BY <1>1
  <2>. QED
    BY <1>1, <1>2, <2>1 DEF Carries
<1>3. ASSUME NEW i \in 1..Len(t), t[i] = e
      PROVE  Carries(s \o t, e)
  <2>1. i + Len(s) \in 1..Len(s) + Len(t) /\ ~(i + Len(s) <= Len(s)) /\ (i + Len(s)) - Len(s) = i
    BY <1>1
  <2>. QED
    BY <1>1, <1>3, <2>1 DEF Carries
<1>4. ASSUME NEW i \in 1..Len(s \o t), (s \o t)[i] = e
      PROVE  Carries(s, e) \/ Carries(t, e)
  <2>1. CASE i <= Len(s)
    <3>1. i \in 1..Len(s)
      BY <1>1, <2>1
    <3>. QED
      BY <1>1, <1>4, <2>1, <3>1 DEF Carries
  <2>2. CASE ~(i <= Len(s))
    <3>1. i - Len(s) \in 1..Len(t) /\ i \in 1..Len(s) + Len(t)
      BY <1>1, <2>2
    <3>. QED
      BY <1>1, <1>4, <2>2, <3>1 DEF Carries
  <2>. QED
    BY <2>1, <2>2
<1>. QED
  BY <1>2, <1>3, <1>4 DEF Carries

(* A message taken from a queue was the first in it.                        *)
LEMMA CarriesTail ==
  ASSUME NEW S, NEW s \in Seq(S), s # <<>>, NEW e
  PROVE  /\ Carries(Tail(s), e) => Carries(s, e)
         /\ Carries(s, e) /\ e # Head(s) => Carries(Tail(s), e)
<1>1. /\ Len(s) \in Nat /\ Len(s) >= 1 /\ Len(Tail(s)) = Len(s) - 1 /\ Head(s) = s[1]
      /\ \A i \in 1..Len(s) - 1 : Tail(s)[i] = s[i + 1]
  BY HeadTailProperties, EmptySeq, LenProperties
<1>2. ASSUME NEW i \in 1..Len(Tail(s)), Tail(s)[i] = e
      PROVE  Carries(s, e)
  <2>1. i + 1 \in 1..Len(s) /\ i \in 1..Len(s) - 1
    BY <1>1
  <2>. QED
    BY <1>1, <1>2, <2>1 DEF Carries
<1>3. ASSUME NEW i \in 1..Len(s), s[i] = e, e # Head(s)
      PROVE  Carries(Tail(s), e)
  <2>1. i # 1
    BY <1>1, <1>3
  <2>2. i - 1 \in 1..Len(s) - 1 /\ (i - 1) + 1 = i
    BY <1>1, <2>1
  <2>3. Tail(s)[i - 1] = e
    BY <1>1, <1>3, <2>2
  <2>. QED
    BY <1>1, <2>2, <2>3 DEF Carries
<1>. QED
  BY <1>2, <1>3 DEF Carries

(* What is taken from the front of a queue or added behind it leaves the    *)
(* order of the rest.                                                       *)
LEMMA FollowedTail ==
  ASSUME NEW S, NEW s \in Seq(S), s # <<>>, NEW x, NEW y, Followed(s, x, y)
  PROVE  Followed(Tail(s), x, y)
<1>1. /\ Len(s) \in Nat /\ Len(s) >= 1 /\ Len(Tail(s)) = Len(s) - 1
      /\ \A i \in 1..Len(s) - 1 : Tail(s)[i] = s[i + 1]
  BY HeadTailProperties, EmptySeq, LenProperties
<1>2. SUFFICES ASSUME NEW i \in 1..Len(s) - 1, Tail(s)[i] = x
               PROVE  \E k \in 1..Len(s) - 1 : k > i /\ Tail(s)[k] = y
  BY <1>1 DEF Followed
<1>3. i + 1 \in 1..Len(s) /\ s[i + 1] = x
  BY <1>1, <1>2
<1>4. PICK k \in 1..Len(s) : k > i + 1 /\ s[k] = y
  BY <1>3 DEF Followed
<1>5. k - 1 \in 1..Len(s) - 1 /\ k - 1 > i /\ (k - 1) + 1 = k
  BY <1>1, <1>4
<1>6. Tail(s)[k - 1] = y
  BY <1>1, <1>4, <1>5
<1>. QED
  BY <1>5, <1>6

LEMMA FollowedConcat ==
  ASSUME NEW S, NEW s \in Seq(S), NEW t \in Seq(S), NEW x, NEW y,
         Followed(s, x, y), ~Carries(t, x)
  PROVE  Followed(s \o t, x, y)
<1>1. /\ Len(s) \in Nat /\ Len(t) \in Nat
      /\ Len(s \o t) = Len(s) + Len(t)
      /\ \A i \in 1 .. Len(s) + Len(t) :
           (s \o t)[i] = IF i <= Len(s) THEN s[i] ELSE t[i - Len(s)]
  BY ConcatProperties, LenProperties
<1>2. SUFFICES ASSUME NEW i \in 1..Len(s) + Len(t), (s \o t)[i] = x
               PROVE  \E k \in 1..Len(s) + Len(t) : k > i /\ (s \o t)[k] = y
  BY <1>1 DEF Followed
<1>3. i <= Len(s)
  <2>1. SUFFICES ASSUME ~(i <= Len(s)) PROVE FALSE
    OBVIOUS
  <2>2. i - Len(s) \in 1..Len(t) /\ t[i - Len(s)] = x
    BY <1>1, <1>2, <2>1
  <2>. QED
    BY <2>2 DEF Carries
<1>4. i \in 1..Len(s) /\ s[i] = x
  BY <1>1, <1>2, <1>3
<1>5. PICK k \in 1..Len(s) : k > i /\ s[k] = y
  BY <1>4 DEF Followed
<1>6. k \in 1..Len(s) + Len(t) /\ (s \o t)[k] = y
  BY <1>1, <1>5
<1>. QED
  BY <1>5, <1>6

(* A message sent last is behind all others.                                *)
LEMMA FollowedLast ==
  ASSUME NEW S, NEW s \in Seq(S), NEW x, NEW y \in S, x # y
  PROVE  Followed(s \o <<y>>, x, y)
<1>1. /\ Len(s) \in Nat /\ Len(s \o <<y>>) = Len(s) + 1
      /\ \A i \in 1 .. Len(s) + 1 :
           (s \o <<y>>)[i] = IF i <= Len(s) THEN s[i] ELSE <<y>>[i - Len(s)]
  <2>1. <<y>> \in Seq(S) /\ Len(<<y>>) = 1
    OBVIOUS
  <2>. QED
    BY <2>1, ConcatProperties, LenProperties
<1>2. Len(s) + 1 \in 1..Len(s) + 1 /\ (s \o <<y>>)[Len(s) + 1] = y
  <2>1. (Len(s) + 1) - Len(s) = 1 /\ <<y>>[1] = y /\ ~(Len(s) + 1 <= Len(s))
    BY <1>1
  <2>. QED
    BY <1>1, <2>1
<1>3. ASSUME NEW i \in 1..Len(s) + 1, (s \o <<y>>)[i] = x
      PROVE  Len(s) + 1 > i
  BY <1>1, <1>2, <1>3
<1>. QED
  BY <1>1, <1>2, <1>3 DEF Followed

(* From the channels c to d: p took the first message of the channel from   *)
(* q, if q is a node, and sent F[b] to each b; nothing else was lost, and   *)
(* what was sent is behind what was there.                                  *)
Moved(c, d, p, q, F) ==
  /\ Routed(d)
  /\ \A a, b \in Nodes : \A e :
       /\ Carries(c[a][b], e) /\ ~(a = q /\ b = p /\ e = Head(c[a][b])) => Carries(d[a][b], e)
       /\ Carries(d[a][b], e) => Carries(c[a][b], e) \/ (a = p /\ e \in F[b])
  /\ \A b \in Nodes : \A e \in F[b] : Carries(d[p][b], e)
  /\ \A a, b \in Nodes : \A x, y :
       Followed(c[a][b], x, y) /\ ~(a = p /\ x \in F[b]) => Followed(d[a][b], x, y)

Silence == [b \in Nodes |-> {}]
Sending(F, S, E) == [b \in Nodes |-> IF b \in S THEN F[b] \union E ELSE F[b]]

(* A step that leaves the queues alone moves no message.                    *)
LEMMA NothingMoved ==
  ASSUME Routed(chan), NEW p \in Nodes
  PROVE  Moved(chan, chan, p, None, Silence)
BY ElectionAssumption DEF Moved, Silence

(* Taking the first message moves only that one, and it is one of its       *)
(* route.                                                                   *)
LEMMA TakenMoved ==
  ASSUME Routed(chan), NEW p \in Nodes, NEW q \in Nodes, chan[q][p] # <<>>
  PROVE  /\ Moved(chan, Taken(q, p), p, q, Silence)
         /\ Head(chan[q][p]) \in Route(q, p)
<1>1. PICK d : d = Taken(q, p)
  OBVIOUS
<1>2. /\ chan \in [Nodes -> [Nodes -> Seq(Msg)]]
      /\ \A a, b \in Nodes : chan[a][b] \in Seq(Route(a, b))
  BY DEF Routed
<1>3. /\ Tail(chan[q][p]) \in Seq(Route(q, p)) /\ Tail(chan[q][p]) \in Seq(Msg)
      /\ Head(chan[q][p]) \in Route(q, p)
  BY <1>2, HeadTailProperties
<1>4. /\ d \in [Nodes -> [Nodes -> Seq(Msg)]]
      /\ d[q][p] = Tail(chan[q][p])
      /\ \A a, b \in Nodes : ~(a = q /\ b = p) => d[a][b] = chan[a][b]
  BY <1>1, <1>2, <1>3 DEF Taken
<1>5. Routed(d)
  <2>1. ASSUME NEW a \in Nodes, NEW b \in Nodes
        PROVE  d[a][b] \in Seq(Route(a, b))
    <3>1. CASE a = q /\ b = p
      BY <1>3, <1>4, <3>1
    <3>2. CASE ~(a = q /\ b = p)
      BY <1>2, <1>4, <3>2
    <3>. QED
      BY <3>1, <3>2
  <2>. QED
    BY <1>4, <2>1 DEF Routed
<1>6. ASSUME NEW a \in Nodes, NEW b \in Nodes, NEW e
      PROVE  /\ Carries(chan[a][b], e) /\ ~(a = q /\ b = p /\ e = Head(chan[a][b]))
                => Carries(d[a][b], e)
             /\ Carries(d[a][b], e) => Carries(chan[a][b], e)
  <2>1. CASE a = q /\ b = p
    BY <1>2, <1>4, <2>1, CarriesTail
  <2>2. CASE ~(a = q /\ b = p)
    BY <1>4, <2>2
  <2>. QED
    BY <2>1, <2>2
<1>7. ASSUME NEW a \in Nodes, NEW b \in Nodes, NEW x, NEW y, Followed(chan[a][b], x, y)
      PROVE  Followed(d[a][b], x, y)
  <2>1. CASE a = q /\ b = p
    BY <1>2, <1>4, <1>7, <2>1, FollowedTail
  <2>2. CASE ~(a = q /\ b = p)
    BY <1>4, <1>7, <2>2
  <2>. QED
    BY <2>1, <2>2
<1>8. Moved(chan, d, p, q, Silence)
  BY <1>5, <1>6, <1>7 DEF Moved, Silence
<1>. QED
  BY <1>1, <1>3, <1>8

(* Sending on top of what was moved before.                                 *)
LEMMA CastMoved ==
  ASSUME NEW c, NEW d, NEW p \in Nodes, NEW q, NEW F, Moved(c, d, p, q, F),
         NEW S \in SUBSET Nodes, NEW ms, NEW E,
         \A e : Carries(ms, e) <=> e \in E,
         \A b \in S : ms \in Seq(Route(p, b))
  PROVE  Moved(c, Cast(d, p, S, ms), p, q, Sending(F, S, E))
<1>1. PICK f : f = Cast(d, p, S, ms)
  OBVIOUS
<1>2. /\ d \in [Nodes -> [Nodes -> Seq(Msg)]]
      /\ \A a, b \in Nodes : d[a][b] \in Seq(Route(a, b))
  BY DEF Moved, Routed
<1>3. \A b \in S : /\ d[p][b] \o ms \in Seq(Route(p, b)) /\ d[p][b] \o ms \in Seq(Msg)
                   /\ \A e : Carries(d[p][b] \o ms, e) <=> Carries(d[p][b], e) \/ e \in E
  <2>. SUFFICES ASSUME NEW b \in S
                PROVE  /\ d[p][b] \o ms \in Seq(Route(p, b)) /\ d[p][b] \o ms \in Seq(Msg)
                       /\ \A e : Carries(d[p][b] \o ms, e) <=> Carries(d[p][b], e) \/ e \in E
    OBVIOUS
  <2>1. d[p][b] \in Seq(Route(p, b)) /\ ms \in Seq(Route(p, b))
    BY <1>2
  <2>2. d[p][b] \o ms \in Seq(Route(p, b))
    BY <2>1, ConcatProperties
  <2>3. d[p][b] \o ms \in Seq(Msg)
    BY <2>2, RouteFacts, SeqMonotonic
  <2>. QED
    BY <2>1, <2>2, <2>3, CarriesConcat
<1>4. /\ f \in [Nodes -> [Nodes -> Seq(Msg)]]
      /\ \A b \in S : f[p][b] = d[p][b] \o ms
      /\ \A a, b \in Nodes : ~(a = p /\ b \in S) => f[a][b] = d[a][b]
  BY <1>1, <1>2, <1>3 DEF Cast
<1>5. Routed(f)
  BY <1>2, <1>3, <1>4 DEF Routed
<1>6. ASSUME NEW a \in Nodes, NEW b \in Nodes, NEW e
      PROVE  /\ Carries(c[a][b], e) /\ ~(a = q /\ b = p /\ e = Head(c[a][b]))
                => Carries(f[a][b], e)
             /\ Carries(f[a][b], e)
                => Carries(c[a][b], e) \/ (a = p /\ e \in Sending(F, S, E)[b])
  <2>1. CASE a = p /\ b \in S
    <3>1. Carries(f[a][b], e) <=> Carries(d[a][b], e) \/ e \in E
      BY <1>3, <1>4, <2>1
    <3>2. Sending(F, S, E)[b] = F[b] \union E
      BY <2>1 DEF Sending
    <3>. QED
      BY <2>1, <3>1, <3>2 DEF Moved
  <2>2. CASE ~(a = p /\ b \in S)
    BY <1>4, <2>2 DEF Moved, Sending
  <2>. QED
    BY <2>1, <2>2
<1>7. ASSUME NEW b \in Nodes, NEW e \in Sending(F, S, E)[b]
      PROVE  Carries(f[p][b], e)
  <2>1. CASE b \in S
    <3>1. Carries(f[p][b], e) <=> Carries(d[p][b], e) \/ e \in E
      BY <1>3, <1>4, <2>1
    <3>2. e \in F[b] \union E
      BY <1>7, <2>1 DEF Sending
    <3>. QED
      BY <3>1, <3>2 DEF Moved
  <2>2. CASE b \notin S
    BY <1>4, <1>7, <2>2 DEF Moved, Sending
  <2>. QED
    BY <2>1, <2>2
<1>8. ASSUME NEW a \in Nodes, NEW b \in Nodes, NEW x, NEW y,
             Followed(c[a][b], x, y), ~(a = p /\ x \in Sending(F, S, E)[b])
      PROVE  Followed(f[a][b], x, y)
  <2>1. ~(a = p /\ x \in F[b]) /\ (a = p /\ b \in S => x \notin E)
    BY <1>8 DEF Sending
  <2>2. Followed(d[a][b], x, y)
    BY <1>8, <2>1 DEF Moved
  <2>3. CASE a = p /\ b \in S
    <3>1. ~Carries(ms, x) /\ d[p][b] \in Seq(Route(p, b)) /\ ms \in Seq(Route(p, b))
      BY <1>2, <2>1, <2>3
    <3>2. Followed(d[p][b], x, y) /\ f[a][b] = d[p][b] \o ms
      BY <1>4, <2>2, <2>3
    <3>3. Followed(d[p][b] \o ms, x, y)
      BY <3>1, <3>2, FollowedConcat
    <3>. QED
      BY <3>2, <3>3
  <2>4. CASE ~(a = p /\ b \in S)
    BY <1>4, <2>2, <2>4
  <2>. QED
    BY <2>3, <2>4
<1>9. Moved(c, f, p, q, Sending(F, S, E))
  BY <1>5, <1>6, <1>7, <1>8 DEF Moved
<1>. QED
  BY <1>1, <1>9

(* One message.                                                             *)
LEMMA OneMessage ==
  ASSUME NEW x
  PROVE  /\ \A e : Carries(<<x>>, e) <=> e \in {x}
         /\ \A S : x \in S => <<x>> \in Seq(S)
BY DEF Carries

-----------------------------------------------------------------------------
(* The invariant *)

(* Behind the ElectionStart of a joiner that leads comes its victory.       *)
Announced ==
  \A j \in Joiners :
    Up(Hub) /\ Up(j) /\ state[j] = "Leader" => Followed(chan[j][Hub], Start, Victory(j))

(* On its way between the hub and j is a message that makes one of the two  *)
(* give way, or answer with one that does.                                  *)
Contested(j) ==
  \/ Carries(chan[Hub][j], Start) \/ Carries(chan[Hub][j], Victory(Hub))
  \/ Carries(chan[j][Hub], Start) \/ Carries(chan[j][Hub], Victory(j))

(* A hub that leads, or follows nobody and so would take an Identified that *)
(* names it for its election, contests every joiner that leads.             *)
Claims == leader[Hub] = None \/ state[Hub] = "Leader"

Rivals ==
  \A j \in Joiners :
    Up(Hub) /\ Up(j) /\ state[j] = "Leader" /\ Claims => Contested(j)

(* A connected node above a candidate without an answer has its             *)
(* ElectionStart, its own answer or its own ElectionStart under way.        *)
Asked(n, m) ==
  Carries(chan[n][m], Start) \/ Carries(chan[m][n], Alive) \/ Carries(chan[m][n], Start)

Waiting(n) == state[n] = "Candidate" /\ ~alive[n]

HigherAsked ==
  \A n \in Nodes : Up(n) /\ Waiting(n) =>
    \A m \in Peers(n) : Priority[m] > Priority[n] => Asked(n, m)

ElectionInv == ElectionTypeOK /\ Routed(chan) /\ Announced /\ Rivals /\ HigherAsked

(* The messages differ.                                                     *)
LEMMA Distinct ==
  /\ Start # Alive
  /\ \A n : Victory(n) # Start /\ Victory(n) # Alive
<1>1. Start.op = "start" /\ Alive.op = "alive" /\ \A n : Victory(n).op = "victory"
  BY DEF Start, Alive, Victory
<1>. QED
  BY <1>1

(* A step of p keeps the invariant if it keeps it for p: a joiner that      *)
(* leads announces it behind its ElectionStart, a new candidate asks the    *)
(* nodes above it, an ElectionStart from below is answered, and a claim to  *)
(* lead is announced.                                                       *)
LEMMA StepKeeps ==
  ASSUME ElectionInv, NEW p \in Nodes, NEW q \in Nodes \union {None}, NEW F,
         Moved(chan, chan', p, q, F), run' = run,
         table' \in [Nodes -> SUBSET Nodes],
         state' \in [Nodes -> {"Follower", "Candidate", "Leader"}],
         leader' \in [Nodes -> Nodes \union {None}], alive' \in [Nodes -> BOOLEAN],
         \A x \in Nodes : x # p => state'[x] = state[x] /\ leader'[x] = leader[x]
                                   /\ alive'[x] = alive[x],
         p \in Joiners /\ state'[p] = "Leader" /\ Up(Hub) =>
           \/ Followed(chan'[p][Hub], Start, Victory(p))
           \/ state[p] = "Leader" /\ Start \notin F[Hub],
         \A m \in Peers(p) :
           Waiting(p)' /\ Priority[m] > Priority[p] =>
             \/ Start \in F[m]
             \/ Waiting(p) /\ ~(q = m /\ Head(chan[q][p]) \in {Start, Alive}),
         q \in Peers(p) /\ Head(chan[q][p]) = Start /\ Priority[p] > Priority[q]
           => Alive \in F[q],
         p = Hub /\ Claims' => \A j \in Joiners :
           Up(j) /\ state[j] = "Leader" =>
             \/ Start \in F[j] \/ Victory(Hub) \in F[j]
             \/ q = j /\ Head(chan[q][p]) = Start /\ Carries(chan[q][p], Start)
             \/ Claims /\ ~(q = j /\ Head(chan[q][p]) \in {Start, Victory(j)}),
         p \in Joiners /\ state'[p] = "Leader" /\ Up(Hub) =>
           \/ Victory(p) \in F[Hub]
           \/ state[p] = "Leader" /\ ~(q = Hub /\ Head(chan[q][p]) \in {Start, Victory(Hub)})
  PROVE  ElectionInv'
<1>1. Hub \in Nodes /\ None \notin Nodes /\ Joiners \subseteq Nodes
  BY ElectionAssumption DEF Joiners
<1>2. /\ \A a, b \in Nodes : \A e :
           /\ Carries(chan[a][b], e) /\ ~(a = q /\ b = p /\ e = Head(chan[a][b]))
                => Carries(chan'[a][b], e)
           /\ Carries(chan'[a][b], e) => Carries(chan[a][b], e) \/ (a = p /\ e \in F[b])
      /\ \A b \in Nodes : \A e \in F[b] : Carries(chan'[p][b], e)
      /\ Routed(chan')
  BY DEF Moved
<1>3. \A x : Up(x)' = Up(x) /\ Peers(x)' = Peers(x)
  BY DEF Up, Peers, Adjacent
<1>4. ElectionTypeOK'
  BY <1>2 DEF ElectionTypeOK, Routed, ElectionInv
<1>5. Routed(chan)'
  BY <1>2 DEF Routed, Route, Adjacent, Victory
<1>6. Announced'
  <2>1. SUFFICES ASSUME NEW j \in Joiners, Up(Hub), Up(j), state'[j] = "Leader"
                 PROVE  Followed(chan'[j][Hub], Start, Victory(j))
    BY <1>3 DEF Announced, Start, Victory
  <2>2. CASE j # p
    <3>1. Followed(chan[j][Hub], Start, Victory(j))
      BY <1>1, <2>1, <2>2 DEF ElectionInv, Announced
    <3>. QED
      BY <1>1, <2>2, <3>1 DEF Moved
  <2>3. CASE j = p /\ state[p] = "Leader" /\ Start \notin F[Hub]
    <3>1. Followed(chan[j][Hub], Start, Victory(j))
      BY <2>1, <2>3 DEF ElectionInv, Announced
    <3>. QED
      BY <1>1, <2>3, <3>1 DEF Moved
  <2>. QED
    BY <2>1, <2>2, <2>3
<1>7. ASSUME NEW j \in Joiners, Up(Hub), Up(j), state'[j] = "Leader", Claims'
      PROVE  \/ Carries(chan'[Hub][j], Start) \/ Carries(chan'[Hub][j], Victory(Hub))
             \/ Carries(chan'[j][Hub], Start) \/ Carries(chan'[j][Hub], Victory(j))
  <2>1. j \in Nodes /\ j # Hub
    BY <1>1 DEF Joiners
  <2>2. CASE p = Hub
    <3>1. state[j] = "Leader"
      BY <1>7, <2>1, <2>2
    <3>2. CASE Start \in F[j] \/ Victory(Hub) \in F[j]
      BY <1>2, <2>1, <2>2, <3>2
    <3>3. CASE Claims /\ ~(q = j /\ Head(chan[q][p]) \in {Start, Victory(j)})
      <4>1. Contested(j)
        BY <1>7, <3>1, <3>3 DEF ElectionInv, Rivals
      <4>. QED
        BY <1>1, <1>2, <2>1, <2>2, <3>3, <4>1 DEF Contested
    <3>4. CASE q = j /\ Head(chan[q][p]) = Start /\ Carries(chan[q][p], Start)
      <4>1. Followed(chan[j][Hub], Start, Victory(j))
        BY <1>7, <3>1 DEF ElectionInv, Announced
      <4>2. Carries(chan[j][Hub], Victory(j))
        BY <2>2, <3>4, <4>1 DEF Followed, Carries
      <4>3. Victory(j) # Start
        BY Distinct
      <4>. QED
        BY <1>1, <1>2, <2>1, <2>2, <3>4, <4>2, <4>3
    <3>. QED
      BY <1>7, <2>2, <3>1, <3>2, <3>3, <3>4
  <2>3. CASE p = j
    <3>1. CASE Victory(p) \in F[Hub]
      BY <1>1, <1>2, <2>3, <3>1
    <3>2. CASE state[p] = "Leader" /\ ~(q = Hub /\ Head(chan[q][p]) \in {Start, Victory(Hub)})
      <4>1. Claims
        BY <1>1, <1>7, <2>1, <2>3 DEF Claims
      <4>2. Contested(j)
        BY <1>7, <2>3, <3>2, <4>1 DEF ElectionInv, Rivals
      <4>. QED
        BY <1>1, <1>2, <2>1, <2>3, <3>2, <4>2 DEF Contested
    <3>. QED
      BY <1>7, <2>3, <3>1, <3>2
  <2>4. CASE p # Hub /\ p # j
    <3>1. Claims /\ state[j] = "Leader"
      BY <1>1, <1>7, <2>1, <2>4 DEF Claims
    <3>2. Contested(j)
      BY <1>7, <3>1 DEF ElectionInv, Rivals
    <3>. QED
      BY <1>1, <1>2, <2>1, <2>4, <3>2 DEF Contested
  <2>. QED
    BY <2>2, <2>3, <2>4
<1>8. Rivals'
  BY <1>3, <1>7 DEF Rivals, Contested, Start, Victory
<1>9. ASSUME NEW n \in Nodes, Up(n), Waiting(n)', NEW m \in Peers(n), Priority[m] > Priority[n]
      PROVE  Carries(chan'[n][m], Start) \/ Carries(chan'[m][n], Alive)
             \/ Carries(chan'[m][n], Start)
  <2>1. /\ m \in Nodes /\ m # n /\ n \in Peers(m) /\ Up(m)
        /\ Priority[n] \in Nat /\ Priority[m] \in Nat
    BY <1>9, ElectionAssumption DEF Peers, Adjacent
  <2>2. CASE n = p /\ Start \in F[m]
    BY <1>2, <2>1, <2>2
  <2>3. CASE ~(n = p /\ Start \in F[m])
    <3>1. Waiting(n) /\ ~(n = p /\ q = m /\ Head(chan[q][p]) \in {Start, Alive})
      <4>1. CASE n = p
        BY <1>9, <2>3, <4>1
      <4>2. CASE n # p
        BY <1>9, <4>2 DEF Waiting
      <4>. QED
        BY <4>1, <4>2
    <3>2. Asked(n, m)
      BY <1>9, <3>1 DEF ElectionInv, HigherAsked
    <3>3. CASE m = p /\ q = n /\ Head(chan[q][p]) = Start
      <4>1. Alive \in F[n]
        BY <1>9, <2>1, <3>3
      <4>. QED
        BY <1>2, <3>3, <4>1
    <3>4. CASE ~(m = p /\ q = n /\ Head(chan[q][p]) = Start)
      BY <1>2, <2>1, <3>1, <3>2, <3>4 DEF Asked
    <3>. QED
      BY <3>3, <3>4
  <2>. QED
    BY <2>2, <2>3
<1>10. HigherAsked'
  BY <1>3, <1>9 DEF HigherAsked, Asked, Start, Alive
<1>. QED
  BY <1>4, <1>5, <1>6, <1>8, <1>10 DEF ElectionInv

-----------------------------------------------------------------------------
(* What the operators of a step do *)

(* Sending to some nodes moves only those messages.                         *)
LEMMA SendMoved ==
  ASSUME NEW c, NEW d, NEW p \in Nodes, NEW q, NEW F, Moved(c, d, p, q, F),
         NEW S \in SUBSET Nodes, NEW x, \A b \in S : x \in Route(p, b)
  PROVE  Moved(c, Cast(d, p, S, <<x>>), p, q, Sending(F, S, {x}))
BY CastMoved, OneMessage

(* What a node may send to any of its peers.                                *)
LEMMA PeerRoutes ==
  ASSUME NEW p \in Nodes
  PROVE  /\ Peers(p) \in SUBSET Nodes
         /\ \A b \in Peers(p) : /\ Start \in Route(p, b) /\ Alive \in Route(p, b)
                                /\ Victory(p) \in Route(p, b)
BY DEF Peers, Route, Start, Alive

(* What a handler makes of its own node, and of no other.                   *)
LEMMA BecomeFacts ==
  ASSUME ElectionTypeOK, NEW p \in Nodes, NEW st \in {"Follower", "Candidate", "Leader"},
         NEW ld \in Nodes \union {None}, NEW al \in BOOLEAN, Become(p, st, ld, al)
  PROVE  /\ state' \in [Nodes -> {"Follower", "Candidate", "Leader"}]
         /\ leader' \in [Nodes -> Nodes \union {None}]
         /\ alive' \in [Nodes -> BOOLEAN]
         /\ state'[p] = st /\ leader'[p] = ld /\ alive'[p] = al
         /\ \A x \in Nodes : x # p => state'[x] = state[x] /\ leader'[x] = leader[x]
                                      /\ alive'[x] = alive[x]
BY DEF ElectionTypeOK, Become

(* The message a handler takes: a node hears only from the nodes it is      *)
(* connected to, and what their connection may carry.                       *)
LEMMA Received ==
  ASSUME ElectionInv, NEW n \in Nodes, NEW m \in Nodes, chan[m][n] # <<>>
  PROVE  /\ Moved(chan, Taken(m, n), n, m, Silence)
         /\ m # n /\ Adjacent(n, m) /\ Adjacent(m, n)
         /\ Head(chan[m][n]) \in Route(m, n)
         /\ Carries(chan[m][n], Head(chan[m][n]))
<1>1. /\ Moved(chan, Taken(m, n), n, m, Silence)
      /\ Head(chan[m][n]) \in Route(m, n)
  BY TakenMoved DEF ElectionInv
<1>2. chan[m][n] \in Seq(Msg)
  BY DEF ElectionInv, ElectionTypeOK
<1>3. Len(chan[m][n]) \in Nat /\ Len(chan[m][n]) >= 1 /\ Head(chan[m][n]) = chan[m][n][1]
  BY <1>2, HeadTailProperties, EmptySeq, LenProperties
<1>4. 1 \in 1..Len(chan[m][n])
  BY <1>3
<1>5. Carries(chan[m][n], Head(chan[m][n]))
  BY <1>3, <1>4 DEF Carries
<1>6. Adjacent(m, n)
  BY <1>1 DEF Route
<1>. QED
  BY <1>1, <1>5, <1>6 DEF Adjacent

(* A step that leaves the election state alone and takes no message of an   *)
(* election keeps the invariant.                                            *)
LEMMA Untouched ==
  ASSUME ElectionInv, NEW p \in Nodes, NEW q \in Nodes \union {None}, NEW F,
         Moved(chan, chan', p, q, F), run' = run, UNCHANGED election,
         table' \in [Nodes -> SUBSET Nodes],
         \A b \in Nodes : Start \notin F[b],
         q \in Nodes => Head(chan[q][p]) \notin {Start, Alive, Victory(q)}
  PROVE  ElectionInv'
<1>1. /\ Hub \in Nodes /\ None \notin Nodes /\ Joiners \subseteq Nodes
      /\ Peers(p) \subseteq Nodes
  BY ElectionAssumption DEF Joiners, Peers
<1>2. /\ state' = state /\ leader' = leader /\ alive' = alive
      /\ state \in [Nodes -> {"Follower", "Candidate", "Leader"}]
      /\ leader \in [Nodes -> Nodes \union {None}] /\ alive \in [Nodes -> BOOLEAN]
  BY DEF election, ElectionInv, ElectionTypeOK
<1>3. Waiting(p)' = Waiting(p) /\ Claims' = Claims
  BY <1>2 DEF Waiting, Claims
<1>. QED
  BY <1>1, <1>2, <1>3, StepKeeps

(* The start of an election that every peer is asked in keeps it, whatever  *)
(* message that is none of an election it answers.                          *)
LEMMA StartKeeps ==
  ASSUME ElectionInv, NEW p \in Nodes, NEW q \in Nodes \union {None}, NEW d,
         Moved(chan, d, p, q, Silence), run' = run, StartElection(p),
         chan' = Cast(d, p, Peers(p), <<Start>>),
         table' \in [Nodes -> SUBSET Nodes],
         q \in Nodes => Head(chan[q][p]) # Start
  PROVE  ElectionInv'
<1>1. /\ Hub \in Nodes /\ None \notin Nodes /\ Joiners \subseteq Nodes
      /\ Peers(p) \subseteq Nodes
  BY ElectionAssumption DEF Joiners, Peers
<1>2. PICK F : F = Sending(Silence, Peers(p), {Start})
  OBVIOUS
<1>3. Moved(chan, chan', p, q, F)
  BY <1>2, SendMoved, PeerRoutes
<1>4. \A b \in Peers(p) : Start \in F[b]
  BY <1>1, <1>2 DEF Sending
<1>5. /\ state' \in [Nodes -> {"Follower", "Candidate", "Leader"}]
      /\ leader' \in [Nodes -> Nodes \union {None}]
      /\ alive' \in [Nodes -> BOOLEAN]
      /\ state'[p] = "Candidate"
      /\ \A x \in Nodes : x # p => state'[x] = state[x] /\ leader'[x] = leader[x]
                                   /\ alive'[x] = alive[x]
  BY BecomeFacts DEF StartElection, ElectionInv
<1>6. p = Hub => \A j \in Joiners : Up(j) => j \in Peers(p)
  BY <1>1 DEF Peers, Adjacent, Joiners
<1>. QED
  BY <1>1, <1>3, <1>4, <1>5, <1>6, StepKeeps

-----------------------------------------------------------------------------
(* The handlers keep the invariant *)

(* A Hello, and the Identify that answers it, keep the invariant.           *)
LEMMA HelloKeeps ==
  ASSUME ElectionInv, NEW n \in Nodes, NEW m \in Nodes, Up(n), chan[m][n] # <<>>,
         HandleHello(n, m)
  PROVE  ElectionInv'
<1>1. PICK x : x = [op |-> "identify"]
  OBVIOUS
<1>2. PICK F : F = Sending(Silence, {m} \intersect Peers(n), {x})
  OBVIOUS
<1>3. Moved(chan, Taken(m, n), n, m, Silence) /\ Head(chan[m][n]) \in Route(m, n)
  BY Received
<1>4. Head(chan[m][n]) = [op |-> "hello"] /\ Head(chan[m][n]).op = "hello"
  BY DEF HandleHello
<1>5. n = Hub
  BY <1>3, <1>4 DEF Route, Victory
<1>6. \A b \in {m} \intersect Peers(n) : x \in Route(n, b)
  BY <1>1, <1>5 DEF Peers, Adjacent, Route
<1>7. Moved(chan, chan', n, m, F)
  <2>1. chan' = Cast(Taken(m, n), n, {m} \intersect Peers(n), <<x>>)
    BY <1>1 DEF HandleHello
  <2>. QED
    BY <1>2, <1>3, <1>6, <2>1, SendMoved
<1>8. x # Start
  BY <1>1 DEF Start
<1>9. \A b \in Nodes : Start \notin F[b]
  BY <1>2, <1>8 DEF Sending, Silence
<1>10. Head(chan[m][n]) \notin {Start, Alive, Victory(m)}
  BY <1>4 DEF Start, Alive, Victory
<1>11. run' = run /\ UNCHANGED election /\ table' \in [Nodes -> SUBSET Nodes]
  BY DEF HandleHello, ElectionInv, ElectionTypeOK
<1>. QED
  BY <1>7, <1>9, <1>10, <1>11, Untouched

(* An Identify, which tells the new node of the master, keeps the           *)
(* invariant.                                                               *)
LEMMA IdentifyKeeps ==
  ASSUME ElectionInv, NEW n \in Nodes, NEW m \in Nodes, Up(n), chan[m][n] # <<>>,
         HandleIdentify(n, m)
  PROVE  ElectionInv'
<1>1. PICK x : x = [op |-> "identified", node |-> leader[n]]
  OBVIOUS
<1>2. PICK F : F = Sending(Silence, {m} \intersect Peers(n), {x})
  OBVIOUS
<1>3. /\ Moved(chan, Taken(m, n), n, m, Silence) /\ Head(chan[m][n]) \in Route(m, n)
      /\ Adjacent(m, n)
  BY Received
<1>4. Head(chan[m][n]) = [op |-> "identify"] /\ Head(chan[m][n]).op = "identify"
  BY DEF HandleIdentify
<1>5. n # Hub /\ m = Hub
  BY <1>3, <1>4 DEF Route, Victory, Adjacent
<1>6. \A b \in {m} \intersect Peers(n) : x \in Route(n, b)
  BY <1>1, <1>5 DEF Peers, Adjacent, Route, ElectionInv, ElectionTypeOK
<1>7. Moved(chan, chan', n, m, F)
  <2>1. chan' = Cast(Taken(m, n), n, {m} \intersect Peers(n), <<x>>)
    BY <1>1 DEF HandleIdentify
  <2>. QED
    BY <1>2, <1>3, <1>6, <2>1, SendMoved
<1>8. x # Start
  BY <1>1 DEF Start
<1>9. \A b \in Nodes : Start \notin F[b]
  BY <1>2, <1>8 DEF Sending, Silence
<1>10. Head(chan[m][n]) \notin {Start, Alive, Victory(m)}
  BY <1>4 DEF Start, Alive, Victory
<1>11. run' = run /\ UNCHANGED election /\ table' \in [Nodes -> SUBSET Nodes]
  BY DEF HandleIdentify, ElectionInv, ElectionTypeOK
<1>. QED
  BY <1>7, <1>9, <1>10, <1>11, Untouched

(* Only the hub hears whom its peer follows; it may then find itself named  *)
(* leader, but a hub that follows nobody contests a joiner that leads       *)
(* already.                                                                 *)
LEMMA IdentifiedKeeps ==
  ASSUME ElectionInv, NEW n \in Nodes, NEW m \in Nodes, Up(n), chan[m][n] # <<>>,
         HandleIdentified(n, m)
  PROVE  ElectionInv'
<1>1. PICK known : known = Head(chan[m][n]).node
  OBVIOUS
<1>2. /\ Moved(chan, Taken(m, n), n, m, Silence) /\ Head(chan[m][n]) \in Route(m, n)
  BY Received
<1>3. /\ Head(chan[m][n]).op = "identified" /\ chan' = Taken(m, n) /\ run' = run
      /\ table' \in [Nodes -> SUBSET Nodes]
  BY DEF HandleIdentified, ElectionInv, ElectionTypeOK
<1>4. n = Hub /\ known \in Nodes \union {None}
  BY <1>1, <1>2, <1>3 DEF Route, Victory
<1>5. Head(chan[m][n]) \notin {Start, Alive, Victory(m)}
  BY <1>3 DEF Start, Alive, Victory
<1>6. CASE known # None /\ leader[n] = None /\ AcceptVictory(n, known)
  <2>1. PICK st : st = IF known = n THEN "Leader" ELSE "Follower"
    OBVIOUS
  <2>2. Become(n, st, known, FALSE) /\ st \in {"Follower", "Leader"}
    BY <1>6, <2>1 DEF AcceptVictory
  <2>3. /\ state' \in [Nodes -> {"Follower", "Candidate", "Leader"}]
        /\ leader' \in [Nodes -> Nodes \union {None}]
        /\ alive' \in [Nodes -> BOOLEAN]
        /\ state'[n] = st
        /\ \A x \in Nodes : x # n => state'[x] = state[x] /\ leader'[x] = leader[x]
                                     /\ alive'[x] = alive[x]
    <3>1. /\ ElectionTypeOK /\ st \in {"Follower", "Candidate", "Leader"}
          /\ known \in Nodes \union {None} /\ FALSE \in BOOLEAN
      BY <1>4, <2>2 DEF ElectionInv
    <3>. QED
      BY <2>2, <3>1, BecomeFacts, Zenon
  <2>4. ~Waiting(n)'
    BY <2>2, <2>3 DEF Waiting
  <2>5. Claims /\ n \notin Joiners
    BY <1>4, <1>6 DEF Claims, Joiners
  <2>. QED
    BY <1>2, <1>3, <1>5, <2>3, <2>4, <2>5, StepKeeps
<1>7. CASE UNCHANGED election
  <2>1. \A b \in Nodes : Start \notin Silence[b]
    BY DEF Silence
  <2>. QED
    BY <1>2, <1>3, <1>5, <1>7, <2>1, Untouched
<1>. QED
  BY <1>1, <1>6, <1>7 DEF HandleIdentified

(* An Alive only makes a candidate wait for a victory.                      *)
LEMMA AliveKeeps ==
  ASSUME ElectionInv, NEW n \in Nodes, NEW m \in Nodes, Up(n), chan[m][n] # <<>>,
         HandleAlive(n, m)
  PROVE  ElectionInv'
<1>1. Moved(chan, Taken(m, n), n, m, Silence)
  BY Received
<1>2. /\ Head(chan[m][n]) = Alive /\ chan' = Taken(m, n) /\ run' = run
      /\ table' \in [Nodes -> SUBSET Nodes] /\ Become(n, state[n], leader[n], TRUE)
      /\ state[n] \in {"Follower", "Candidate", "Leader"}
      /\ leader[n] \in Nodes \union {None}
  BY DEF HandleAlive, ElectionInv, ElectionTypeOK
<1>3. /\ state' \in [Nodes -> {"Follower", "Candidate", "Leader"}]
      /\ leader' \in [Nodes -> Nodes \union {None}]
      /\ alive' \in [Nodes -> BOOLEAN]
      /\ state'[n] = state[n] /\ leader'[n] = leader[n] /\ alive'[n]
      /\ \A x \in Nodes : x # n => state'[x] = state[x] /\ leader'[x] = leader[x]
                                   /\ alive'[x] = alive[x]
  BY <1>2, BecomeFacts DEF ElectionInv
<1>4. ~Waiting(n)' /\ (n = Hub => Claims' = Claims)
  BY <1>3 DEF Waiting, Claims
<1>5. /\ Head(chan[m][n]) # Start /\ Head(chan[m][n]) # Victory(m)
      /\ Head(chan[m][n]) # Victory(Hub) /\ Silence[Hub] = {}
  BY <1>2, Distinct, ElectionAssumption DEF Silence
<1>. QED
  BY <1>1, <1>2, <1>3, <1>4, <1>5, StepKeeps

(* A victory names the node it comes from, so who hears one follows.        *)
LEMMA VictoryKeeps ==
  ASSUME ElectionInv, NEW n \in Nodes, NEW m \in Nodes, Up(n), chan[m][n] # <<>>,
         HandleVictory(n, m)
  PROVE  ElectionInv'
<1>1. /\ Moved(chan, Taken(m, n), n, m, Silence) /\ Head(chan[m][n]) \in Route(m, n)
      /\ m # n /\ None \notin Nodes
  BY Received, ElectionAssumption
<1>2. /\ Head(chan[m][n]).op = "victory" /\ chan' = Taken(m, n) /\ run' = run
      /\ table' \in [Nodes -> SUBSET Nodes]
      /\ AcceptVictory(n, Head(chan[m][n]).node)
  BY DEF HandleVictory, ElectionInv, ElectionTypeOK
<1>3. Head(chan[m][n]) = Victory(m) /\ Head(chan[m][n]).node = m
  BY <1>1, <1>2 DEF Route, Victory
<1>4. Become(n, "Follower", m, FALSE)
  BY <1>1, <1>2, <1>3 DEF AcceptVictory
<1>5. /\ state' \in [Nodes -> {"Follower", "Candidate", "Leader"}]
      /\ leader' \in [Nodes -> Nodes \union {None}]
      /\ alive' \in [Nodes -> BOOLEAN]
      /\ state'[n] = "Follower" /\ leader'[n] = m
      /\ \A x \in Nodes : x # n => state'[x] = state[x] /\ leader'[x] = leader[x]
                                   /\ alive'[x] = alive[x]
  BY <1>4, BecomeFacts DEF ElectionInv
<1>6. ~Waiting(n)' /\ (n = Hub => ~Claims')
  BY <1>1, <1>5 DEF Waiting, Claims
<1>7. Head(chan[m][n]) # Start
  BY <1>3, Distinct
<1>. QED
  BY <1>1, <1>2, <1>5, <1>6, <1>7, StepKeeps

(* Against a lower candidate a leader answers and announces itself.         *)
LEMMA LeaderAnswers ==
  ASSUME ElectionInv, NEW n \in Nodes, NEW m \in Nodes, Up(n), chan[m][n] # <<>>,
         Head(chan[m][n]) = Start, Priority[n] > Priority[m], state[n] = "Leader",
         chan' = Cast(Cast(Taken(m, n), n, {m} \intersect Peers(n), <<Alive>>),
                      n, Peers(n), <<Victory(n)>>),
         UNCHANGED <<run, election, table>>
  PROVE  ElectionInv'
<1>1. /\ Moved(chan, Taken(m, n), n, m, Silence) /\ Head(chan[m][n]) \in Route(m, n)
      /\ m # n /\ Hub \in Nodes /\ None \notin Nodes
  BY Received, ElectionAssumption
<1>2. PICK F : F = Sending(Silence, {m} \intersect Peers(n), {Alive})
  OBVIOUS
<1>3. PICK G : G = Sending(F, Peers(n), {Victory(n)})
  OBVIOUS
<1>4. Moved(chan, chan', n, m, G)
  <2>1. Moved(chan, Cast(Taken(m, n), n, {m} \intersect Peers(n), <<Alive>>), n, m, F)
    BY <1>1, <1>2, SendMoved, PeerRoutes
  <2>. QED
    BY <1>3, <2>1, SendMoved, PeerRoutes
<1>5. /\ \A b \in Peers(n) : Victory(n) \in G[b]
      /\ \A b \in Nodes : Start \notin G[b]
      /\ m \in Peers(n) => Alive \in G[m]
  BY <1>1, <1>2, <1>3, Distinct, PeerRoutes DEF Sending, Silence
<1>6. /\ state' = state /\ leader' = leader /\ alive' = alive /\ run' = run
      /\ table' \in [Nodes -> SUBSET Nodes]
      /\ state \in [Nodes -> {"Follower", "Candidate", "Leader"}]
      /\ leader \in [Nodes -> Nodes \union {None}] /\ alive \in [Nodes -> BOOLEAN]
  BY DEF election, ElectionInv, ElectionTypeOK
<1>7. ~Waiting(n)'
  BY <1>6 DEF Waiting
<1>8. /\ n = Hub => \A j \in Joiners : Up(j) => j \in Peers(n)
      /\ n \in Joiners /\ Up(Hub) => Hub \in Peers(n)
  BY <1>1 DEF Peers, Adjacent, Joiners
<1>. QED
  BY <1>1, <1>4, <1>5, <1>6, <1>7, <1>8, StepKeeps

(* Any other node answers and asks the rest of its peers.                   *)
LEMMA HigherAnswers ==
  ASSUME ElectionInv, NEW n \in Nodes, NEW m \in Nodes, Up(n), chan[m][n] # <<>>,
         Head(chan[m][n]) = Start, Priority[n] > Priority[m],
         chan' = Cast(Cast(Taken(m, n), n, {m} \intersect Peers(n), <<Alive>>),
                      n, Peers(n) \ {m}, <<Start>>),
         StartElection(n), UNCHANGED <<run, table>>
  PROVE  ElectionInv'
<1>1. /\ Moved(chan, Taken(m, n), n, m, Silence) /\ Head(chan[m][n]) \in Route(m, n)
      /\ m # n /\ Hub \in Nodes /\ None \notin Nodes
  BY Received, ElectionAssumption
<1>2. PICK F : F = Sending(Silence, {m} \intersect Peers(n), {Alive})
  OBVIOUS
<1>3. PICK G : G = Sending(F, Peers(n) \ {m}, {Start})
  OBVIOUS
<1>4. Moved(chan, chan', n, m, G)
  <2>1. Moved(chan, Cast(Taken(m, n), n, {m} \intersect Peers(n), <<Alive>>), n, m, F)
    BY <1>1, <1>2, SendMoved, PeerRoutes
  <2>. QED
    BY <1>3, <2>1, SendMoved, PeerRoutes
<1>5. /\ \A b \in Peers(n) \ {m} : Start \in G[b]
      /\ m \in Peers(n) => Alive \in G[m]
  BY <1>1, <1>2, <1>3, PeerRoutes DEF Sending, Silence
<1>6. /\ state' \in [Nodes -> {"Follower", "Candidate", "Leader"}]
      /\ leader' \in [Nodes -> Nodes \union {None}]
      /\ alive' \in [Nodes -> BOOLEAN]
      /\ state'[n] = "Candidate"
      /\ \A x \in Nodes : x # n => state'[x] = state[x] /\ leader'[x] = leader[x]
                                   /\ alive'[x] = alive[x]
      /\ run' = run /\ table' \in [Nodes -> SUBSET Nodes]
  BY BecomeFacts DEF StartElection, ElectionInv, ElectionTypeOK
<1>7. \A k \in Peers(n) : Priority[k] > Priority[n] => Start \in G[k]
  <2>. SUFFICES ASSUME NEW k \in Peers(n), Priority[k] > Priority[n]
                PROVE  Start \in G[k]
    OBVIOUS
  <2>1. Priority[k] \in Nat /\ Priority[n] \in Nat /\ Priority[m] \in Nat
    BY ElectionAssumption, PeerRoutes
  <2>2. k # m
    BY <2>1
  <2>. QED
    BY <1>5, <2>2
<1>8. n = Hub =>
        \A j \in Joiners : Up(j) /\ j # m => Start \in G[j]
  BY <1>5 DEF Peers, Adjacent, Joiners
<1>9. Carries(chan[m][n], Start)
  BY Received
<1>. QED
  BY <1>1, <1>4, <1>5, <1>6, <1>7, <1>8, <1>9, StepKeeps

(* Against a higher candidate every node follows.                           *)
LEMMA LowerYields ==
  ASSUME ElectionInv, NEW n \in Nodes, NEW m \in Nodes, Up(n), chan[m][n] # <<>>,
         Head(chan[m][n]) = Start, Priority[n] <= Priority[m],
         Become(n, "Follower", leader[n], alive[n]), chan' = Taken(m, n),
         UNCHANGED <<run, table>>
  PROVE  ElectionInv'
<1>1. /\ Moved(chan, chan', n, m, Silence) /\ Head(chan[m][n]) \in Route(m, n)
      /\ m # n /\ Hub \in Nodes /\ None \notin Nodes
  BY Received, ElectionAssumption
<1>2. /\ leader[n] \in Nodes \union {None} /\ alive[n] \in BOOLEAN
      /\ run' = run /\ table' \in [Nodes -> SUBSET Nodes]
  BY DEF ElectionInv, ElectionTypeOK
<1>3. /\ state' \in [Nodes -> {"Follower", "Candidate", "Leader"}]
      /\ leader' \in [Nodes -> Nodes \union {None}]
      /\ alive' \in [Nodes -> BOOLEAN]
      /\ state'[n] = "Follower" /\ leader'[n] = leader[n]
      /\ \A x \in Nodes : x # n => state'[x] = state[x] /\ leader'[x] = leader[x]
                                   /\ alive'[x] = alive[x]
  BY <1>2, BecomeFacts DEF ElectionInv
<1>4. ~Waiting(n)' /\ (n = Hub /\ Claims' => Claims)
  BY <1>3 DEF Waiting, Claims
<1>5. ~(Priority[n] > Priority[m])
  BY ElectionAssumption
<1>6. Carries(chan[m][n], Start)
  BY Received
<1>. QED
  BY <1>1, <1>2, <1>3, <1>4, <1>5, <1>6, StepKeeps

(* An ElectionStart is answered by a higher node, which starts its own.     *)
LEMMA ElectionStartKeeps ==
  ASSUME ElectionInv, NEW n \in Nodes, NEW m \in Nodes, Up(n), chan[m][n] # <<>>,
         HandleElectionStart(n, m)
  PROVE  ElectionInv'
<1>1. Head(chan[m][n]) = Start /\ UNCHANGED <<run, table>>
  BY DEF HandleElectionStart
<1>. QED
  BY <1>1, LeaderAnswers, HigherAnswers, LowerYields DEF HandleElectionStart

-----------------------------------------------------------------------------
(* Lost nodes and timeouts keep it *)

(* A node that is lost leaves the tables, and the role if it had it.        *)
LEMMA LoseNodeKeeps ==
  ASSUME ElectionInv, NEW n \in Nodes, NEW m \in Nodes, NEW c,
         NEW q \in Nodes \union {None}, Moved(chan, c, n, q, Silence),
         q \in Nodes => Head(chan[q][n]) \notin {Start, Alive, Victory(q)},
         LoseNode(n, m, c)
  PROVE  ElectionInv'
<1>1. table' \in [Nodes -> SUBSET Nodes] /\ run' = run
  BY DEF LoseNode, ElectionInv, ElectionTypeOK
<1>2. CASE StartElection(n) /\ chan' = Cast(c, n, Peers(n), <<Start>>)
  BY <1>1, <1>2, StartKeeps
<1>3. CASE UNCHANGED election /\ chan' = c
  <2>1. \A b \in Nodes : Start \notin Silence[b]
    BY DEF Silence
  <2>2. Moved(chan, chan', n, q, Silence)
    BY <1>3
  <2>. QED
    BY <1>1, <1>3, <2>1, <2>2, Untouched
<1>. QED
  BY <1>2, <1>3 DEF LoseNode

(* A node that leaves is lost at once.                                      *)
LEMMA NodeLeaveKeeps ==
  ASSUME ElectionInv, NEW n \in Nodes, NEW m \in Nodes, Up(n), chan[m][n] # <<>>,
         HandleNodeLeave(n, m)
  PROVE  ElectionInv'
<1>1. Head(chan[m][n]).op = "leave" /\ LoseNode(n, m, Taken(m, n))
  BY DEF HandleNodeLeave
<1>2. Head(chan[m][n]) \notin {Start, Alive, Victory(m)}
  BY <1>1 DEF Start, Alive, Victory
<1>3. Moved(chan, Taken(m, n), n, m, Silence)
  BY Received
<1>. QED
  BY <1>1, <1>2, <1>3, LoseNodeKeeps

(* A node that is silent too long is lost.                                  *)
LEMMA CheckHealthKeeps ==
  ASSUME ElectionInv, NEW n \in Nodes, NEW m \in Nodes, CheckHealth(n, m)
  PROVE  ElectionInv'
<1>1. Moved(chan, chan, n, None, Silence) /\ None \notin Nodes
  BY NothingMoved, ElectionAssumption DEF ElectionInv
<1>2. LoseNode(n, m, chan)
  BY DEF CheckHealth
<1>. QED
  BY <1>1, <1>2, LoseNodeKeeps

(* A leader that is taken for dead is asked like any other peer.            *)
LEMMA SuspectKeeps ==
  ASSUME ElectionInv, NEW n \in Nodes, NEW m \in Nodes, Suspect(n, m)
  PROVE  ElectionInv'
<1>1. Moved(chan, chan, n, None, Silence) /\ None \notin Nodes
  BY NothingMoved, ElectionAssumption DEF ElectionInv
<1>2. table' \in [Nodes -> SUBSET Nodes] /\ run' = run
  BY DEF Suspect, ElectionInv, ElectionTypeOK
<1>. QED
  BY <1>1, <1>2, StartKeeps DEF Suspect

(* The winner announces itself behind whatever it had sent.                 *)
LEMMA ElectionTimeoutKeeps ==
  ASSUME ElectionInv, NEW n \in Nodes, ElectionTimeout(n)
  PROVE  ElectionInv'
<1>1. /\ Moved(chan, chan, n, None, Silence) /\ Hub \in Nodes /\ None \notin Nodes
  BY NothingMoved, ElectionAssumption DEF ElectionInv
<1>2. PICK F : F = Sending(Silence, Peers(n), {Victory(n)})
  OBVIOUS
<1>3. Moved(chan, chan', n, None, F)
  BY <1>1, <1>2, SendMoved, PeerRoutes DEF ElectionTimeout
<1>4. /\ \A b \in Peers(n) : Victory(n) \in F[b]
      /\ \A b \in Nodes : Start \notin F[b]
  BY <1>1, <1>2, Distinct, PeerRoutes DEF Sending, Silence
<1>5. /\ state' \in [Nodes -> {"Follower", "Candidate", "Leader"}]
      /\ leader' \in [Nodes -> Nodes \union {None}]
      /\ alive' \in [Nodes -> BOOLEAN]
      /\ state'[n] = "Leader"
      /\ \A x \in Nodes : x # n => state'[x] = state[x] /\ leader'[x] = leader[x]
                                   /\ alive'[x] = alive[x]
      /\ run' = run /\ table' \in [Nodes -> SUBSET Nodes]
  BY <1>1, BecomeFacts DEF ElectionTimeout, ElectionInv, ElectionTypeOK
<1>6. ~Waiting(n)'
  BY <1>5 DEF Waiting
<1>7. /\ n = Hub => \A j \in Joiners : Up(j) => j \in Peers(n)
      /\ n \in Joiners /\ Up(Hub) => Hub \in Peers(n)
  BY <1>1 DEF Peers, Adjacent, Joiners
<1>8. n \in Joiners /\ Up(Hub) => Followed(chan'[n][Hub], Start, Victory(n))
  <2>. SUFFICES ASSUME n \in Joiners, Up(Hub)
                PROVE  Followed(chan'[n][Hub], Start, Victory(n))
    OBVIOUS
  <2>1. /\ Hub \in Peers(n) /\ Hub \in Nodes
        /\ chan \in [Nodes -> [Nodes -> Seq(Msg)]] /\ chan[n][Hub] \in Seq(Route(n, Hub))
    BY <1>1, <1>7 DEF ElectionInv, Routed
  <2>2. chan' = Cast(chan, n, Peers(n), <<Victory(n)>>)
    BY DEF ElectionTimeout
  <2>3. chan'[n][Hub] = chan[n][Hub] \o <<Victory(n)>>
    BY <2>1, <2>2 DEF Cast
  <2>4. Victory(n) \in Route(n, Hub) /\ Start # Victory(n)
    BY <2>1, PeerRoutes, Distinct
  <2>. QED
    BY <2>1, <2>3, <2>4, FollowedLast
<1>9. None \notin Peers(n)
  BY <1>1, PeerRoutes
<1>10. n = Hub => \A j \in Joiners : Up(j) => Victory(Hub) \in F[j]
  BY <1>4, <1>7
<1>11. n \in Joiners /\ Up(Hub) => Victory(n) \in F[Hub]
  BY <1>4, <1>7
<1>. QED
  BY <1>1, <1>3, <1>5, <1>6, <1>8, <1>9, <1>10, <1>11, StepKeeps

(* A candidate that hears no victory starts again.                          *)
LEMMA VictoryTimeoutKeeps ==
  ASSUME ElectionInv, NEW n \in Nodes, VictoryTimeout(n)
  PROVE  ElectionInv'
<1>1. Moved(chan, chan, n, None, Silence) /\ None \notin Nodes
  BY NothingMoved, ElectionAssumption DEF ElectionInv
<1>2. table' \in [Nodes -> SUBSET Nodes] /\ run' = run
  BY DEF VictoryTimeout, ElectionInv, ElectionTypeOK
<1>. QED
  BY <1>1, <1>2, StartKeeps DEF VictoryTimeout

-----------------------------------------------------------------------------
(* Nodes that join, stop and lose what they had sent keep it *)

(* A node that joins knows nobody and says Hello.                           *)
LEMMA JoinKeeps ==
  ASSUME ElectionInv, NEW n \in Nodes, Join(n)
  PROVE  ElectionInv'
<1>1. /\ Moved(chan, chan, n, None, Silence) /\ Hub \in Nodes /\ None \notin Nodes
      /\ n # Hub /\ n \in Joiners
  BY NothingMoved, ElectionAssumption DEF ElectionInv, Join, Joiners
<1>2. PICK x : x = [op |-> "hello"]
  OBVIOUS
<1>3. PICK ms : ms = <<x, Start>>
  OBVIOUS
<1>4. \A e : Carries(ms, e) <=> e \in {x, Start}
  BY <1>3 DEF Carries
<1>5. \A b \in {Hub} : ms \in Seq(Route(n, b))
  <2>1. x \in Route(n, Hub) /\ Start \in Route(n, Hub)
    BY <1>1, <1>2 DEF Route, Adjacent, Start
  <2>. QED
    BY <1>3, <2>1
<1>6. PICK F : F = Sending(Silence, {Hub}, {x, Start})
  OBVIOUS
<1>7. Moved(chan, chan', n, None, F)
  <2>1. chan' = Cast(chan, n, {Hub}, ms) /\ {Hub} \in SUBSET Nodes
    BY <1>1, <1>2, <1>3 DEF Join
  <2>. QED
    BY <1>1, <1>4, <1>5, <1>6, <2>1, CastMoved
<1>8. /\ \A a, b \in Nodes : \A e :
           /\ Carries(chan[a][b], e) => Carries(chan'[a][b], e)
           /\ a # n /\ Carries(chan'[a][b], e) => Carries(chan[a][b], e)
      /\ Carries(chan'[n][Hub], Start)
      /\ Routed(chan')
      /\ \A a, b \in Nodes : \A y, z :
           a # n /\ Followed(chan[a][b], y, z) => Followed(chan'[a][b], y, z)
  BY <1>1, <1>6, <1>7 DEF Moved, Sending
<1>9. /\ state' \in [Nodes -> {"Follower", "Candidate", "Leader"}]
      /\ leader' \in [Nodes -> Nodes \union {None}]
      /\ alive' \in [Nodes -> BOOLEAN]
      /\ state'[n] = "Candidate"
      /\ \A y \in Nodes : y # n => state'[y] = state[y] /\ leader'[y] = leader[y]
                                   /\ alive'[y] = alive[y]
  BY BecomeFacts DEF Join, StartElection, ElectionInv
<1>10. /\ run' \in [Nodes -> {"off", "up", "stopped"}] /\ table' \in [Nodes -> SUBSET Nodes]
       /\ \A y \in Nodes : y # n => run'[y] = run[y]
  BY DEF Join, ElectionInv, ElectionTypeOK
<1>11. ElectionTypeOK'
  BY <1>8, <1>9, <1>10 DEF ElectionTypeOK, Routed
<1>12. Routed(chan)'
  BY <1>8 DEF Routed, Route, Adjacent, Victory
<1>13. ASSUME NEW j \in Joiners, Up(Hub)', Up(j)', state'[j] = "Leader"
       PROVE  Followed(chan'[j][Hub], Start, Victory(j))
  <2>1. j # n /\ j \in Nodes /\ Up(Hub) /\ Up(j) /\ state[j] = "Leader"
    BY <1>1, <1>9, <1>10, <1>13 DEF Joiners, Up
  <2>2. Followed(chan[j][Hub], Start, Victory(j))
    BY <1>13, <2>1 DEF ElectionInv, Announced
  <2>. QED
    BY <1>1, <1>8, <2>1, <2>2
<1>14. Announced'
  BY <1>13 DEF Announced, Start, Victory
<1>15. ASSUME NEW j \in Joiners, Up(Hub)', Up(j)', state'[j] = "Leader", Claims'
       PROVE  \/ Carries(chan'[Hub][j], Start) \/ Carries(chan'[Hub][j], Victory(Hub))
              \/ Carries(chan'[j][Hub], Start) \/ Carries(chan'[j][Hub], Victory(j))
  <2>1. j # n /\ j \in Nodes
    BY <1>9, <1>15 DEF Joiners
  <2>2. Up(Hub) /\ Up(j) /\ Claims /\ state[j] = "Leader"
    BY <1>1, <1>9, <1>10, <1>15, <2>1 DEF Up, Claims
  <2>3. Contested(j)
    BY <1>15, <2>2 DEF ElectionInv, Rivals
  <2>. QED
    BY <1>1, <1>8, <2>1, <2>3 DEF Contested
<1>16. Rivals'
  BY <1>15 DEF Rivals, Contested, Start, Victory
<1>17. ASSUME NEW k \in Nodes, Up(k)', Waiting(k)', NEW m \in Peers(k)', Priority[m] > Priority[k]
       PROVE  Carries(chan'[k][m], Start) \/ Carries(chan'[m][k], Alive)
              \/ Carries(chan'[m][k], Start)
  <2>1. m \in Nodes /\ Adjacent(k, m) /\ Up(m)'
    BY <1>17 DEF Peers, Adjacent
  <2>2. CASE k = n \/ m = n
    BY <1>1, <1>8, <2>1, <2>2 DEF Adjacent
  <2>3. CASE k # n /\ m # n
    <3>1. Up(k) /\ Waiting(k) /\ m \in Peers(k)
      BY <1>9, <1>10, <1>17, <2>1, <2>3 DEF Up, Waiting, Peers
    <3>2. Asked(k, m)
      BY <1>17, <3>1 DEF ElectionInv, HigherAsked
    <3>. QED
      BY <1>8, <2>1, <3>2 DEF Asked
  <2>. QED
    BY <2>2, <2>3
<1>18. HigherAsked'
  BY <1>17 DEF HigherAsked, Asked, Start, Alive
<1>. QED
  BY <1>11, <1>12, <1>14, <1>16, <1>18 DEF ElectionInv

(* What is under way between two nodes that run is untouched when another   *)
(* node ends or its last message is lost.                                   *)
LEMMA EndKeeps ==
  ASSUME ElectionInv, NEW n \in Nodes, UNCHANGED <<election, table>>,
         run' \in [Nodes -> {"off", "up", "stopped"}],
         \A y \in Nodes : Up(y)' => Up(y) /\ y # n,
         Routed(chan'),
         \A a, b \in Nodes : a # n /\ b # n => chan'[a][b] = chan[a][b]
  PROVE  ElectionInv'
<1>1. Hub \in Nodes /\ Joiners \subseteq Nodes
  BY ElectionAssumption DEF Joiners
<1>2. state' = state /\ leader' = leader /\ alive' = alive /\ table' = table
  BY DEF election
<1>3. ElectionTypeOK'
  BY <1>2 DEF ElectionInv, ElectionTypeOK, Routed
<1>4. Routed(chan)'
  BY DEF Routed, Route, Adjacent, Victory
<1>5. Announced'
  <2>1. ASSUME NEW j \in Joiners, Up(Hub)', Up(j)', state'[j] = "Leader"
        PROVE  Followed(chan'[j][Hub], Start, Victory(j))
    BY <1>1, <1>2, <2>1 DEF ElectionInv, Announced
  <2>. QED
    BY <2>1 DEF Announced, Start, Victory
<1>6. ASSUME NEW j \in Joiners, Up(Hub)', Up(j)', state'[j] = "Leader", Claims'
      PROVE  \/ Carries(chan'[Hub][j], Start) \/ Carries(chan'[Hub][j], Victory(Hub))
             \/ Carries(chan'[j][Hub], Start) \/ Carries(chan'[j][Hub], Victory(j))
  <2>1. Up(Hub) /\ Up(j) /\ j # n /\ Hub # n /\ Claims /\ state[j] = "Leader" /\ j \in Nodes
    BY <1>1, <1>2, <1>6 DEF Claims
  <2>2. Contested(j)
    BY <1>6, <2>1 DEF ElectionInv, Rivals
  <2>. QED
    BY <1>1, <2>1, <2>2 DEF Contested
<1>7. Rivals'
  BY <1>6 DEF Rivals, Contested, Start, Victory
<1>8. ASSUME NEW k \in Nodes, Up(k)', Waiting(k)', NEW m \in Peers(k)', Priority[m] > Priority[k]
      PROVE  Carries(chan'[k][m], Start) \/ Carries(chan'[m][k], Alive)
             \/ Carries(chan'[m][k], Start)
  <2>1. m \in Nodes /\ Adjacent(k, m) /\ Up(m)'
    BY <1>8 DEF Peers, Adjacent
  <2>2. Up(k) /\ Up(m) /\ k # n /\ m # n
    BY <1>8, <2>1
  <2>3. Waiting(k) /\ m \in Peers(k)
    BY <1>2, <1>8, <2>1, <2>2 DEF Waiting, Peers
  <2>4. Asked(k, m)
    BY <1>8, <2>2, <2>3 DEF ElectionInv, HigherAsked
  <2>. QED
    BY <2>1, <2>2, <2>4 DEF Asked
<1>9. HigherAsked'
  BY <1>8 DEF HigherAsked, Asked, Start, Alive
<1>. QED
  BY <1>3, <1>4, <1>5, <1>7, <1>9 DEF ElectionInv

(* A node that stops takes its role with it.                                *)
LEMMA StopKeeps ==
  ASSUME ElectionInv, NEW n \in Nodes, Stop(n)
  PROVE  ElectionInv'
<1>1. PICK last \in {<<>>, <<[op |-> "leave"]>>} :
        chan' = [a \in Nodes |-> [b \in Nodes |->
                   IF b = n THEN <<>>
                   ELSE IF a = n /\ b \in Peers(n) THEN chan[a][b] \o last
                   ELSE chan[a][b]]]
  BY DEF Stop
<1>2. PICK d : d = chan'
  OBVIOUS
<1>3. /\ Hub \in Nodes
      /\ \A a, b \in Nodes : chan[a][b] \in Seq(Route(a, b)) /\ chan[a][b] \in Seq(Msg)
  BY ElectionAssumption DEF ElectionInv, Routed
<1>4. \A b \in Peers(n) : last \in Seq(Route(n, b))
  <2>. SUFFICES ASSUME NEW b \in Peers(n)
                PROVE  last \in Seq(Route(n, b))
    OBVIOUS
  <2>1. [op |-> "leave"] \in Route(n, b)
    BY DEF Peers, Route
  <2>2. <<[op |-> "leave"]>> \in Seq(Route(n, b))
    BY <2>1, OneMessage, Zenon
  <2>3. <<>> \in Seq(Route(n, b))
    BY EmptySeq
  <2>. QED
    BY <2>2, <2>3, Zenon
<1>6. ASSUME NEW a \in Nodes, NEW b \in Nodes
      PROVE  /\ d[a][b] \in Seq(Route(a, b)) /\ d[a][b] \in Seq(Msg)
             /\ a # n /\ b # n => d[a][b] = chan[a][b]
  <2>1. CASE b = n
    <3>1. d[a][b] = <<>>
      BY <1>1, <1>2, <2>1
    <3>. QED
      BY <2>1, <3>1, EmptySeq
  <2>2. CASE b # n /\ a = n /\ b \in Peers(n)
    <3>1. d[a][b] = chan[a][b] \o last
      BY <1>1, <1>2, <2>2
    <3>2. /\ chan[a][b] \in Seq(Route(a, b)) /\ last \in Seq(Route(a, b))
      BY <1>3, <1>4, <2>2
    <3>3. d[a][b] \in Seq(Route(a, b))
      BY <3>1, <3>2, ConcatProperties
    <3>4. d[a][b] \in Seq(Msg)
      BY <3>3, RouteFacts, SeqMonotonic
    <3>. QED
      BY <2>2, <3>3, <3>4
  <2>3. CASE b # n /\ ~(a = n /\ b \in Peers(n))
    <3>1. d[a][b] = chan[a][b]
      BY <1>1, <1>2, <2>3
    <3>. QED
      BY <1>3, <3>1
  <2>. QED
    BY <2>1, <2>2, <2>3
<1>7. d \in [Nodes -> [Nodes -> Seq(Msg)]]
  <2>1. \A a \in Nodes : d[a] = [b \in Nodes |-> d[a][b]] /\ d = [x \in Nodes |-> d[x]]
    BY <1>1, <1>2
  <2>. QED
    BY <1>1, <1>2, <1>6, <2>1
<1>8. Routed(d)
  BY <1>6, <1>7 DEF Routed
<1>9. /\ run' \in [Nodes -> {"off", "up", "stopped"}]
      /\ \A y \in Nodes : Up(y)' => Up(y) /\ y # n
      /\ UNCHANGED <<election, table>>
  BY DEF Stop, Up, ElectionInv, ElectionTypeOK
<1>. QED
  BY <1>2, <1>3, <1>6, <1>8, <1>9, EndKeeps

(* What a crash cuts off was the last message of its sender.                *)
LEMMA LoseLastKeeps ==
  ASSUME ElectionInv, NEW n \in Nodes, NEW m \in Nodes, LoseLast(n, m)
  PROVE  ElectionInv'
<1>1. PICK d : d = chan'
  OBVIOUS
<1>2. PICK s : s = chan[n][m]
  OBVIOUS
<1>3. PICK t : t = SubSeq(s, 1, Len(s) - 1)
  OBVIOUS
<1>4. /\ Hub \in Nodes /\ s \in Seq(Route(n, m)) /\ s # <<>>
      /\ chan \in [Nodes -> [Nodes -> Seq(Msg)]]
      /\ \A a, b \in Nodes : chan[a][b] \in Seq(Route(a, b))
  BY <1>2, ElectionAssumption DEF ElectionInv, Routed, LoseLast
<1>5. Len(s) \in Nat /\ Len(s) >= 1 /\ Len(s) - 1 \in 0..Len(s)
  BY <1>4, EmptySeq, LenProperties
<1>6. /\ t \in Seq(Route(n, m)) /\ Len(t) = Len(s) - 1
      /\ \A i \in 1..Len(s) - 1 : t[i] = s[i]
  <2>1. \A i \in 1..Len(s) - 1 : s[i] \in Route(n, m)
    BY <1>4, <1>5, LenProperties, ElementOfSeq
  <2>2. PICK k \in Int : k = Len(s) - 1
    BY <1>5
  <2>3. t = SubSeq(s, 1, k) /\ k >= 0 /\ \A i \in 1..k : s[i] \in Route(n, m)
    BY <1>3, <1>5, <2>1, <2>2
  <2>4. /\ SubSeq(s, 1, k) \in Seq(Route(n, m))
        /\ Len(SubSeq(s, 1, k)) = IF 1 <= k THEN k - 1 + 1 ELSE 0
        /\ \A i \in 1 .. k - 1 + 1 : SubSeq(s, 1, k)[i] = s[1 + i - 1]
    BY <2>3, SubSeqProperties
  <2>. QED
    BY <2>2, <2>3, <2>4
<1>8. t \in Seq(Msg)
  BY <1>6, RouteFacts, SeqMonotonic
<1>9. /\ d \in [Nodes -> [Nodes -> Seq(Msg)]]
      /\ d[n][m] = t
      /\ \A a, b \in Nodes : ~(a = n /\ b = m) => d[a][b] = chan[a][b]
  BY <1>1, <1>2, <1>3, <1>4, <1>8 DEF LoseLast
<1>10. Routed(d)
  BY <1>4, <1>6, <1>9 DEF Routed
<1>11. /\ run' \in [Nodes -> {"off", "up", "stopped"}]
       /\ \A y \in Nodes : Up(y)' => Up(y) /\ y # n
       /\ UNCHANGED <<election, table>>
  BY DEF LoseLast, Up, ElectionInv, ElectionTypeOK
<1>12. \A a, b \in Nodes : a # n /\ b # n => d[a][b] = chan[a][b]
  BY <1>9
<1>. QED
  BY <1>1, <1>10, <1>11, <1>12, EndKeeps

-----------------------------------------------------------------------------
(* Theorems *)

(* A hub alone is its own master.                                           *)
LEMMA InitKeeps ==
  ASSUME Init
  PROVE  ElectionInv
<1>1. /\ Hub \in Nodes /\ None \notin Nodes /\ Joiners \subseteq Nodes /\ Hub \notin Joiners
  BY ElectionAssumption DEF Joiners
<1>2. /\ \A a, b \in Nodes : chan[a][b] = <<>> /\ \A e : ~Carries(chan[a][b], e)
      /\ chan \in [Nodes -> [Nodes -> Seq(Msg)]]
      /\ \A a, b \in Nodes : chan[a][b] \in Seq(Route(a, b))
  <2>1. \A a, b \in Nodes : chan[a][b] = <<>>
    BY DEF Init
  <2>2. \A e : ~Carries(<<>>, e)
    BY DEF Carries
  <2>3. \A S : <<>> \in Seq(S)
    BY EmptySeq
  <2>. QED
    BY <2>1, <2>2, <2>3 DEF Init
<1>3. ElectionTypeOK
  BY <1>1, <1>2 DEF Init, ElectionTypeOK
<1>4. \A j \in Joiners : state[j] = "Follower"
  BY <1>1 DEF Init
<1>5. \A n \in Nodes : ~Waiting(n)
  BY DEF Init, Waiting
<1>. QED
  BY <1>2, <1>3, <1>4, <1>5
     DEF ElectionInv, Routed, Announced, Rivals, HigherAsked

(* A step that changes nothing keeps the invariant.                         *)
LEMMA StutterKeeps ==
  ASSUME ElectionInv, UNCHANGED vars
  PROVE  ElectionInv'
<1>1. Moved(chan, chan, Hub, None, Silence) /\ Hub \in Nodes /\ None \notin Nodes
  BY NothingMoved, ElectionAssumption DEF ElectionInv
<1>2. Moved(chan, chan', Hub, None, Silence)
  BY <1>1 DEF vars
<1>3. /\ run' = run /\ UNCHANGED election /\ table' \in [Nodes -> SUBSET Nodes]
      /\ \A b \in Nodes : Start \notin Silence[b]
  BY DEF vars, election, Silence, ElectionInv, ElectionTypeOK
<1>. QED
  BY <1>1, <1>2, <1>3, Untouched

(* Every step keeps the invariant.                                          *)
LEMMA NextKeeps ==
  ASSUME ElectionInv, [Next]_vars
  PROVE  ElectionInv'
<1>1. ASSUME NEW n \in Nodes,
             Join(n) \/ ElectionTimeout(n) \/ VictoryTimeout(n) \/ Stop(n)
      PROVE  ElectionInv'
  BY <1>1, JoinKeeps, ElectionTimeoutKeeps, VictoryTimeoutKeeps, StopKeeps
<1>2. ASSUME NEW n \in Nodes, NEW m \in Nodes, Handle(n, m)
      PROVE  ElectionInv'
  <2>1. Up(n) /\ chan[m][n] # <<>>
    BY <1>2 DEF Handle
  <2>. QED
    BY <1>2, <2>1, HelloKeeps, IdentifyKeeps, IdentifiedKeeps, ElectionStartKeeps,
       AliveKeeps, VictoryKeeps, NodeLeaveKeeps DEF Handle
<1>3. ASSUME NEW n \in Nodes, NEW m \in Nodes,
             CheckHealth(n, m) \/ Suspect(n, m) \/ LoseLast(n, m)
      PROVE  ElectionInv'
  BY <1>3, CheckHealthKeeps, SuspectKeeps, LoseLastKeeps
<1>. QED
  BY <1>1, <1>2, <1>3, StutterKeeps DEF Next

(* The invariant of the election holds in every reachable state, whatever   *)
(* the order of priorities and however many nodes join, stop and crash.     *)
THEOREM ElectionInvariant == Spec => []ElectionInv
<1>1. Init => ElectionInv
  BY InitKeeps
<1>2. ElectionInv /\ [Next]_vars => ElectionInv'
  BY NextKeeps
<1>. QED
  BY <1>1, <1>2, PTL DEF Spec

(* The early timeouts are counted.                                          *)
LEMMA LateIsNat == Spec => [](late \in Nat)
<1>1. Init => late \in Nat
  BY DEF Init
<1>2. late \in Nat /\ [Next]_vars => (late \in Nat)'
  <2>. SUFFICES ASSUME late \in Nat, [Next]_vars
                PROVE  late' \in Nat
    OBVIOUS
  <2>1. ASSUME NEW n \in Nodes, Join(n) \/ Stop(n)
        PROVE  late' = late \/ late' = late + 1
    BY <2>1 DEF Join, Stop
  <2>2. ASSUME NEW n \in Nodes, ElectionTimeout(n)
        PROVE  late' = late \/ late' = late + 1
    BY <2>2, Zenon DEF ElectionTimeout, After
  <2>3. ASSUME NEW n \in Nodes, VictoryTimeout(n)
        PROVE  late' = late \/ late' = late + 1
    BY <2>3, Zenon DEF VictoryTimeout, After
  <2>4. ASSUME NEW n \in Nodes, NEW m \in Nodes,
               Handle(n, m) \/ CheckHealth(n, m) \/ Suspect(n, m) \/ LoseLast(n, m)
        PROVE  late' = late \/ late' = late + 1
    BY <2>4 DEF Handle, CheckHealth, Suspect, LoseLast, After
  <2>5. CASE UNCHANGED vars
    BY <2>5 DEF vars
  <2>. QED
    BY <2>1, <2>2, <2>3, <2>4, <2>5 DEF Next
<1>. QED
  BY <1>1, <1>2, PTL DEF Spec

(* Every variable keeps its type: a node knows at most one leader, and a    *)
(* connection carries the messages of the protocol.                         *)
THEOREM ElectionTypeCorrect == Spec => []TypeOK
<1>1. ElectionInv => ElectionTypeOK
  BY DEF ElectionInv
<1>2. ElectionTypeOK /\ late \in Nat => TypeOK
  BY DEF TypeOK
<1>. QED
  BY <1>1, <1>2, LateIsNat, ElectionInvariant, PTL

(* Two connected nodes never both lead once their messages are handled: the *)
(* hub and a joiner that both lead always have a message between them that  *)
(* makes one give way, however early a timeout fires and whichever leader   *)
(* is taken for dead.                                                       *)
THEOREM OneOfTwoGivesWay == Spec => []LeadersApart
<1>1. ElectionInv => LeadersApart
  <2>1. SUFFICES ASSUME ElectionInv, NEW j \in Joiners, Up(Hub), Up(j),
                        Quiet(Hub), state[Hub] = "Leader", state[j] = "Leader"
                 PROVE  FALSE
    BY ElectionAssumption DEF LeadersApart, Adjacent, Joiners
  <2>2. Contested(j)
    BY <2>1 DEF ElectionInv, Rivals, Claims
  <2>3. chan[Hub][j] = <<>> /\ chan[j][Hub] = <<>>
    BY <2>1 DEF Quiet, Joiners
  <2>. QED
    BY <2>2, <2>3 DEF Contested, Carries
<1>. QED
  BY <1>1, ElectionInvariant, PTL

(* A candidate whose timeout expires has no connected node of higher        *)
(* priority: of each such node a message to or from it would still be under *)
(* way.                                                                     *)
THEOREM VictoriesAreEarned == Spec => VictoryIsEarned
<1>1. ElectionInv /\ late \in Nat =>
        \A n \in Nodes :
          ElectionTimeout(n) /\ UNCHANGED late =>
            \A m \in Peers(n) : Priority[m] < Priority[n]
  <2>1. SUFFICES ASSUME ElectionInv, late \in Nat, NEW n \in Nodes, ElectionTimeout(n), UNCHANGED late,
                        NEW m \in Peers(n)
                 PROVE  Priority[m] < Priority[n]
    OBVIOUS
  <2>2. /\ m \in Nodes /\ m # n /\ Priority[m] \in Nat /\ Priority[n] \in Nat
        /\ Priority[m] # Priority[n]
    BY ElectionAssumption DEF Peers, Adjacent
  <2>3. Up(n) /\ Waiting(n) /\ chan[n][m] = <<>> /\ chan[m][n] = <<>>
    <3>1. Quiet(n)
      BY <2>1 DEF ElectionTimeout, After
    <3>. QED
      BY <2>1, <2>2, <3>1 DEF ElectionTimeout, Waiting, Quiet
  <2>4. ~Asked(n, m)
    BY <2>3 DEF Asked, Carries
  <2>5. ~(Priority[m] > Priority[n])
    BY <2>1, <2>3, <2>4 DEF ElectionInv, HigherAsked
  <2>. QED
    BY <2>2, <2>5
<1>. QED
  BY <1>1, LateIsNat, ElectionInvariant, PTL DEF VictoryIsEarned
=============================================================================
