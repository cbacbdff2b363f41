-------------------------- MODULE DashboardProofs ---------------------------
(***************************************************************************)
(* The dashboard's state between its threads, for every set of nodes, all  *)
(* thresholds and any number of frames: a toggle lets one heartbeat pass   *)
(* at most, the loss shown is what the numbers support, and the topology   *)
(* hangs together.                                                         *)
(***************************************************************************)
EXTENDS Dashboard, FiniteSetTheorems, TLAPS

(* What the tick under way has still to serve as if it were not jammed. *)
Owed == {simTodo[i] : i \in DOMAIN simTodo} \ simJammed

(* A node that slipped through is not served again as long as it is jammed. *)
SlipsSpent ==
    /\ \A i, j \in DOMAIN simTodo : simTodo[i] = simTodo[j] => i = j
    /\ \A n \in jammed : slips[n] <= 1 /\ (n \in Owed => slips[n] = 0)

(* The dashboard knows a simulated node's last number, jammed or not. *)
SimNumbers == \A n \in SimNodes \ Origins : lost[n] = 0 /\ lastSeq[n] = simSeq[n]

(* It measures the next jump from the last number heard. *)
LastHeard(n) == IF heard[n] = <<>> THEN 0 ELSE heard[n][Len(heard[n])]

RadioNumbers ==
    /\ heard \in [Origins -> Seq(1 .. MaxSeq)]
    /\ \A n \in Origins \ SimNodes :
        /\ lastSeq[n] = LastHeard(n)
        /\ lost[n] >= Cardinality(Missed(heard[n]))

(* A link that is drawn. *)
Drawn(p) == p \in Paths /\ p[1] # BASE /\ links[p] # Gone

(* It ends in a node that has been heard of. *)
LinksHang ==
    \A p \in Paths :
        Drawn(p)
        => /\ p[2] \in Nodes
           /\ links[<<BASE, p[1]>>] <= links[p] + Slack(p[1])
           /\ age[p[2]] <= links[p] + Slack(p[2])

(* A feed that has read the clock will not set a node it enters back behind a  *)
(* link that is drawn at it.                                                 *)
StampsFresh ==
    /\ \A t \in Feeds : stamp[t] # NoStamp => t \in source
    /\ \A t \in Feeds, p \in Paths, i \in {1, 2} :
          stamp[t] # NoStamp /\ Drawn(p) /\ p[i] \in Fed(t)
          => stamp[t] <= links[p] + Slack(p[i])

IndInv == TypeOK /\ SlipsSpent /\ SimNumbers /\ RadioNumbers /\ LinksHang /\ StampsFresh

-----------------------------------------------------------------------------
(* Arithmetic. *)

LEMMA Bounds ==
    /\ SimInterval \in Nat \ {0} /\ StaleAfter \in Nat \ {0} /\ DownAfter \in Nat \ {0}
    /\ LinkKept \in Nat \ {0} /\ MaxSeq \in Nat \ {0}
    /\ Old \in Nat /\ Gone \in Nat /\ Old = DownAfter + 1 /\ Gone = LinkKept + 1
    /\ Old < Gone
    /\ LockWait \in Nat /\ LockWait <= Old /\ LockWait <= Gone /\ NoStamp = -1
BY DashboardAssumption DEF Old, Gone, NoStamp

LEMMA ElementIn ==
    ASSUME NEW S, NEW s \in Seq(S), NEW i \in 1 .. Len(s)
    PROVE  s[i] \in S
OBVIOUS

LEMMA NodeSets ==
    /\ SimNodes \subseteq Nodes /\ RadioNodes \subseteq Nodes /\ Origins \subseteq Nodes
    /\ Origins \subseteq RadioNodes /\ BASE \notin Nodes
    /\ FarNode \in SimNodes /\ RelayNode \in SimNodes
    /\ Feeds = {"sim", "radio"} /\ Fed("sim") = SimNodes /\ Fed("radio") = RadioNodes
    /\ Nodes = Fed("sim") \union Fed("radio")
BY DashboardAssumption DEF Nodes, RadioNodes, Feeds, Fed

LEMMA NextSeqType ==
    ASSUME source \in Sources, NEW s \in 0 .. MaxSeq
    PROVE  NextSeq(s) \in 1 .. MaxSeq /\ Loss(s, NextSeq(s)) = 0
<1>1. Wrap[source] \in 1 .. MaxSeq
  BY DashboardAssumption
<1> QED BY <1>1, Bounds DEF NextSeq, Loss

LEMMA LossType ==
    ASSUME NEW last \in 0 .. MaxSeq, NEW s \in 1 .. MaxSeq
    PROVE  Loss(last, s) \in Nat
BY Bounds DEF Loss

-----------------------------------------------------------------------------
(* The numbers heard by radio.  A number that begins to be missed with the   *)
(* next one heard lies between that one and the last.                       *)
LEMMA MissedAppend ==
    ASSUME NEW h \in Seq(1 .. MaxSeq), NEW s \in 1 .. MaxSeq, NEW lost0 \in Nat,
           lost0 >= Cardinality(Missed(h))
    PROVE  LET last == IF h = <<>> THEN 0 ELSE h[Len(h)]
           IN  lost0 + Loss(last, s) >= Cardinality(Missed(Append(h, s)))
<1> DEFINE last == IF h = <<>> THEN 0 ELSE h[Len(h)]
           t == Append(h, s)
           n == Len(h)
<1>1. /\ n \in Nat /\ DOMAIN h = 1 .. n /\ DOMAIN t = 1 .. n + 1 /\ t[n + 1] = s
      /\ \A i \in 1 .. n : t[i] = h[i] /\ h[i] \in 1 .. MaxSeq
      /\ t \in Seq(1 .. MaxSeq)
      /\ h = <<>> <=> n = 0
  <2>1. n \in Nat /\ DOMAIN h = 1 .. n /\ (h = <<>> <=> n = 0)
    OBVIOUS
  <2>2. DOMAIN t = 1 .. n + 1 /\ t[n + 1] = s
    OBVIOUS
  <2>3. ASSUME NEW i \in 1 .. n
        PROVE  t[i] = h[i] /\ h[i] \in 1 .. MaxSeq
    <3>1. t[i] = h[i]
      OBVIOUS
    <3>2. h[i] \in 1 .. MaxSeq
      BY ElementIn
    <3> QED BY <3>1, <3>2
  <2>4. t \in Seq(1 .. MaxSeq)
    OBVIOUS
  <2> QED BY <2>1, <2>2, <2>3, <2>4
<1>2. \A g \in Seq(1 .. MaxSeq) : IsFiniteSet(Missed(g)) /\ Cardinality(Missed(g)) \in Nat
  <2>1. IsFiniteSet(1 .. MaxSeq)
    <3>1. 1 \in Int /\ MaxSeq \in Int
      BY Bounds
    <3> QED BY <3>1, FS_Interval
  <2>2. ASSUME NEW g \in Seq(1 .. MaxSeq) PROVE Missed(g) \subseteq 1 .. MaxSeq
    BY DEF Missed
  <2> QED BY <2>1, <2>2, FS_Subset, FS_CardinalityType
<1> HIDE DEF t, n
<1>3. CASE n = 0
  <2>1. Missed(t) = {}
    <3>1. DOMAIN t = {1} /\ t[1] = s
      BY <1>1, <1>3
    <3> QED BY <3>1, Bounds DEF Missed
  <2>2. Cardinality(Missed(t)) = 0
    BY <2>1, FS_EmptySet
  <2>3. last = 0 /\ Loss(last, s) = 0
    BY <1>1, <1>3 DEF Loss
  <2> HIDE DEF last
  <2>4. lost0 + Loss(last, s) >= Cardinality(Missed(t))
    BY <2>2, <2>3
  <2> QED BY <2>4 DEF last, t
<1>4. CASE n > 0
  <2>1. last = h[n] /\ last \in 1 .. MaxSeq /\ h[1] \in 1 .. MaxSeq /\ t[1] = h[1]
        /\ n \in 1 .. n /\ 1 \in 1 .. n
    BY <1>1, <1>4 DEF n
  <2> HIDE DEF last
  <2> DEFINE jump == (last + 1) .. (s - 1)
  <2>2. Missed(t) \subseteq Missed(h) \union jump
    <3>1. SUFFICES ASSUME NEW m \in Missed(t), m \notin Missed(h)
                   PROVE  m \in jump
      OBVIOUS
    <3>2. /\ m \in 1 .. MaxSeq /\ \A i \in DOMAIN t : t[i] # m
          /\ t[1] < m
      BY DEF Missed
    <3>3. PICK j \in DOMAIN t : m < t[j]
      BY DEF Missed
    <3>4. \A i \in 1 .. n : h[i] # m /\ ~(m < h[i])
      <4>1. \A i \in 1 .. n : i \in DOMAIN t /\ h[i] = t[i]
        BY <1>1
      <4>2. \A i \in DOMAIN h : h[i] # m
        BY <1>1, <3>2, <4>1
      <4>3. ~ \E i \in DOMAIN h : h[1] < m /\ m < h[i]
        BY <3>1, <3>2, <4>2 DEF Missed
      <4> QED BY <1>1, <2>1, <3>2, <4>2, <4>3
    <3>5. j = n + 1 /\ m < s
      BY <1>1, <3>3, <3>4
    <3>6. h[n] < m
      BY <1>1, <2>1, <3>2, <3>4, Bounds
    <3> QED BY <2>1, <3>2, <3>5, <3>6
  <2>3. IsFiniteSet(jump) /\ Cardinality(jump) = IF last + 1 <= s - 1 THEN s - last - 1 ELSE 0
    <3>1. last \in Nat /\ s \in Nat
      BY <2>1, Bounds
    <3>2. last + 1 \in Int /\ s - 1 \in Int
      BY <3>1
    <3>3. /\ IsFiniteSet(jump)
          /\ Cardinality(jump) = IF last + 1 > s - 1 THEN 0 ELSE (s - 1) - (last + 1) + 1
      BY <3>2, FS_Interval
    <3> QED BY <3>1, <3>3
  <2>4. Cardinality(jump) = Loss(last, s)
    <3>1. last \in Nat \ {0} /\ s \in Nat
      BY <2>1, Bounds
    <3>2. last + 1 <= s - 1 <=> s > last + 1
      BY <3>1
    <3> QED BY <2>3, <3>1, <3>2 DEF Loss
  <2> HIDE DEF jump
  <2>5. /\ IsFiniteSet(Missed(h) \union jump)
        /\ Cardinality(Missed(h) \union jump) \in Nat
        /\ Cardinality(Missed(h) \union jump) <= Cardinality(Missed(h)) + Cardinality(jump)
    <3>1. Cardinality(jump) \in Nat /\ Cardinality(Missed(h) \cap jump) \in Nat
          /\ Cardinality(Missed(h)) \in Nat
      BY <1>2, <2>3, FS_Intersection, FS_CardinalityType
    <3>2. /\ IsFiniteSet(Missed(h) \union jump)
          /\ Cardinality(Missed(h) \union jump)
                 = Cardinality(Missed(h)) + Cardinality(jump) - Cardinality(Missed(h) \cap jump)
      BY <1>2, <2>3, FS_Union
    <3>3. Cardinality(Missed(h) \union jump) \in Nat
      BY <3>2, FS_CardinalityType
    <3> QED BY <3>1, <3>2, <3>3
  <2>6. Cardinality(Missed(t)) \in Nat
        /\ Cardinality(Missed(t)) <= Cardinality(Missed(h) \union jump)
    BY <1>1, <1>2, <2>2, <2>5, FS_Subset
  <2>7. Cardinality(Missed(h)) \in Nat /\ Loss(last, s) \in Nat
    <3>1. last \in 0 .. MaxSeq
      BY <2>1, Bounds
    <3> QED BY <1>2, <3>1, LossType
  <2>8. lost0 + Loss(last, s) >= Cardinality(Missed(t))
    BY <2>4, <2>5, <2>6, <2>7
  <2> QED BY <2>8 DEF last, t
<1> QED BY <1>1, <1>3, <1>4

-----------------------------------------------------------------------------
(* One observation. *)

LEMMA ViaType ==
    ASSUME NEW n \in SimNodes
    PROVE  SimVia(n) \in SimNodes
BY NodeSets DEF SimVia

LEMMA StampType ==
    ASSUME TypeOK, NEW t \in Feeds
    PROVE  /\ stamp[t] \in NoStamp .. LockWait
           /\ stamp[t] # NoStamp => stamp[t] \in 0 .. LockWait
BY Bounds DEF TypeOK

LEMMA SlackType ==
    ASSUME NEW n
    PROVE  Slack(n) \in Nat
BY Bounds DEF Slack

LEMMA IngestType ==
    ASSUME TypeOK, NEW t \in Feeds, NEW origin \in Nodes, NEW via \in Nodes,
           NEW s \in 1 .. MaxSeq, Ingest(t, origin, via, s)
    PROVE  /\ age' \in [Nodes -> 0 .. Old]
           /\ lastSeq' \in [Nodes -> 0 .. MaxSeq]
           /\ lost' \in [Nodes -> Nat]
           /\ links' \in [Paths -> 0 .. Gone]
           /\ stamp' \in [Feeds -> NoStamp .. LockWait]
<1>1. stamp[t] \in 0 .. Old /\ stamp[t] \in 0 .. Gone /\ s \in 0 .. MaxSeq
      /\ NoStamp \in NoStamp .. LockWait
  BY StampType, Bounds DEF Ingest
<1>2. lost[origin] + Loss(lastSeq[origin], s) \in Nat
  <2>1. lastSeq[origin] \in 0 .. MaxSeq /\ lost[origin] \in Nat
    BY DEF TypeOK
  <2> QED BY <2>1, LossType
<1> QED BY <1>1, <1>2 DEF Ingest, TypeOK

(* What an observation sets back, it does not set behind a link that is drawn. *)
LEMMA IngestLinks ==
    ASSUME TypeOK, LinksHang, StampsFresh, NEW t \in Feeds,
           NEW origin \in Fed(t), NEW via \in Fed(t), NEW s,
           Ingest(t, origin, via, s), source' = source
    PROVE  LinksHang'
<1> DEFINE a == stamp[t]
<1>1. /\ age' = [age EXCEPT ![origin] = a]
      /\ links' = [p \in Paths |-> IF p \in Touched(origin, via) THEN a ELSE links[p]]
      /\ a # NoStamp /\ a \in 0 .. LockWait
  BY StampType DEF Ingest
<1> HIDE DEF a
<1>2. \A n : Slack(n)' = Slack(n)
  BY DEF Slack
<1>3. SUFFICES ASSUME NEW p \in Paths, p[1] # BASE, links'[p] # Gone
               PROVE  /\ p[2] \in Nodes
                      /\ links'[<<BASE, p[1]>>] <= links'[p] + Slack(p[1])
                      /\ age'[p[2]] <= links'[p] + Slack(p[2])
  BY <1>2 DEF LinksHang, Drawn
<1>4. /\ p = <<p[1], p[2]>> /\ <<BASE, p[1]>> \in Paths
      /\ links[p] \in 0 .. Gone /\ links[<<BASE, p[1]>>] \in 0 .. Gone
      /\ Slack(p[1]) \in Nat /\ Slack(p[2]) \in Nat
  BY SlackType DEF Paths, TypeOK
<1>5. CASE p \in Touched(origin, via)
  <2>1. p[1] = via /\ p[2] = origin /\ <<BASE, via>> \in Touched(origin, via)
    BY <1>3, <1>5 DEF Touched
  <2>2. origin \in Nodes
    BY NodeSets DEF Feeds
  <2>3. links'[p] = a /\ links'[<<BASE, p[1]>>] = a /\ age'[p[2]] = a
    BY <1>1, <1>4, <1>5, <2>1, <2>2 DEF TypeOK
  <2> QED BY <1>1, <1>4, <2>1, <2>2, <2>3
<1>6. CASE p \notin Touched(origin, via)
  <2>1. links'[p] = links[p] /\ Drawn(p)
    BY <1>1, <1>3, <1>6 DEF Drawn
  <2>2. /\ p[2] \in Nodes /\ links[<<BASE, p[1]>>] <= links[p] + Slack(p[1])
        /\ age[p[2]] <= links[p] + Slack(p[2])
    BY <2>1 DEF LinksHang
  <2>3. p[1] = via => a <= links[p] + Slack(p[1])
    BY <1>1, <2>1 DEF StampsFresh, a
  <2>4. p[2] = origin => a <= links[p] + Slack(p[2])
    BY <1>1, <2>1 DEF StampsFresh, a
  <2>5. links'[<<BASE, p[1]>>] <= links[p] + Slack(p[1])
    <3>1. CASE <<BASE, p[1]>> \in Touched(origin, via)
      <4>1. via \in Nodes /\ via # BASE
        BY NodeSets DEF Feeds
      <4>2. p[1] = via
        BY <3>1, <4>1 DEF Touched
      <4>3. links'[<<BASE, p[1]>>] = a
        BY <1>1, <1>4, <3>1
      <4> QED BY <2>3, <4>2, <4>3
    <3>2. CASE <<BASE, p[1]>> \notin Touched(origin, via)
      <4>1. links'[<<BASE, p[1]>>] = links[<<BASE, p[1]>>]
        BY <1>1, <1>4, <3>2
      <4> QED BY <2>2, <4>1
    <3> QED BY <3>1, <3>2
  <2>6. age'[p[2]] <= links[p] + Slack(p[2])
    <3>1. CASE p[2] = origin
      <4>1. age'[p[2]] = a
        BY <1>1, <2>2, <3>1 DEF TypeOK
      <4> QED BY <2>4, <3>1, <4>1
    <3>2. CASE p[2] # origin
      <4>1. age'[p[2]] = age[p[2]]
        BY <1>1, <3>2, <2>2 DEF TypeOK
      <4> QED BY <2>2, <4>1
    <3> QED BY <3>1, <3>2
  <2> QED BY <2>1, <2>2, <2>5, <2>6
<1> QED BY <1>5, <1>6

(* A node that the other thread enters as well is one with slack. *)
LEMMA IngestStamps ==
    ASSUME TypeOK, StampsFresh, NEW t \in Feeds,
           NEW origin \in Fed(t), NEW via \in Fed(t), NEW s,
           Ingest(t, origin, via, s), source' = source
    PROVE  StampsFresh'
<1> DEFINE a == stamp[t]
<1>1. /\ stamp' = [stamp EXCEPT ![t] = NoStamp]
      /\ links' = [p \in Paths |-> IF p \in Touched(origin, via) THEN a ELSE links[p]]
      /\ a # NoStamp /\ a \in 0 .. LockWait /\ t \in source
  BY StampType DEF Ingest, StampsFresh
<1> HIDE DEF a
<1>2. \A n : Slack(n)' = Slack(n)
  BY DEF Slack
<1>3. \A u \in Feeds : stamp'[u] # NoStamp => u # t /\ stamp'[u] = stamp[u]
  BY <1>1 DEF TypeOK
<1>4. ASSUME NEW u \in Feeds, NEW p \in Paths, NEW i \in {1, 2},
             stamp'[u] # NoStamp, p[1] # BASE, links'[p] # Gone, p[i] \in Fed(u)
      PROVE  stamp'[u] <= links'[p] + Slack(p[i])
  <2>1. u # t /\ stamp'[u] = stamp[u] /\ stamp[u] # NoStamp /\ stamp[u] \in 0 .. LockWait
    BY <1>3, <1>4, StampType
  <2>2. CASE p \in Touched(origin, via)
    <3>1. links'[p] = a /\ p[i] \in Fed(t)
      BY <1>1, <1>4, <2>2 DEF Touched
    <3>2. u \in source /\ t \in source
      BY <1>1, <2>1 DEF StampsFresh
    <3>3. source = Feeds
      <4>1. source \subseteq Feeds
        BY DashboardAssumption DEF TypeOK
      <4> QED BY <2>1, <3>2, <4>1, NodeSets
    <3>4. p[i] \in SimNodes \cap RadioNodes
      BY <1>4, <2>1, <3>1, NodeSets
    <3>5. Slack(p[i]) = LockWait
      BY <3>3, <3>4 DEF Slack
    <3> QED BY <1>1, <2>1, <3>1, <3>5, Bounds
  <2>3. CASE p \notin Touched(origin, via)
    <3>1. links'[p] = links[p] /\ Drawn(p)
      BY <1>1, <1>4, <2>3 DEF Drawn
    <3> QED BY <1>4, <2>1, <3>1 DEF StampsFresh
  <2> QED BY <2>2, <2>3
<1>5. \A u \in Feeds : stamp'[u] # NoStamp => u \in source
  BY <1>3 DEF StampsFresh
<1> QED BY <1>2, <1>4, <1>5 DEF StampsFresh, Drawn

(* A feed that reads the clock has the time of now. *)
LEMMA ReadsClockInv ==
    ASSUME TypeOK, LinksHang, NEW t \in source, t \in Feeds, ReadsClock(t), StampsFresh,
           UNCHANGED <<source, links>>
    PROVE  StampsFresh' /\ stamp' \in [Feeds -> NoStamp .. LockWait]
<1>1. stamp' = [stamp EXCEPT ![t] = 0] /\ 0 \in NoStamp .. LockWait
  BY Bounds DEF ReadsClock
<1>2. \A n : Slack(n)' = Slack(n) /\ Slack(n) \in Nat
  BY SlackType DEF Slack
<1>3. \A u \in Feeds : stamp'[u] = IF u = t THEN 0 ELSE stamp[u]
  BY <1>1 DEF TypeOK
<1>4. \A p \in Paths : links[p] \in Nat
  BY Bounds DEF TypeOK
<1>5. ASSUME NEW u \in Feeds, NEW p \in Paths, NEW i \in {1, 2},
             stamp'[u] # NoStamp, Drawn(p), p[i] \in Fed(u)
      PROVE  stamp'[u] <= links[p] + Slack(p[i])
  <2>1. CASE u = t
    BY <1>2, <1>3, <1>4, <2>1
  <2>2. CASE u # t
    BY <1>3, <1>5, <2>2 DEF StampsFresh
  <2> QED BY <2>1, <2>2
<1>6. \A u \in Feeds : stamp'[u] # NoStamp => u \in source
  BY <1>3 DEF StampsFresh
<1>7. \A p : Drawn(p)' <=> Drawn(p)
  BY DEF Drawn
<1> QED BY <1>1, <1>2, <1>5, <1>6, <1>7 DEF StampsFresh, TypeOK

(* Steps that leave ages, links and stamps alone. *)
LEMMA LinksStay ==
    ASSUME LinksHang, StampsFresh, UNCHANGED <<source, age, links, stamp>>
    PROVE  LinksHang' /\ StampsFresh'
BY DEF LinksHang, StampsFresh, Drawn, Slack

-----------------------------------------------------------------------------
(* The invariant. *)

LEMMA InitInv == Init => IndInv
<1> SUFFICES ASSUME Init PROVE IndInv
  OBVIOUS
<1> USE DEF Init
<1>1. TypeOK
  <2>1. /\ Old \in 0 .. Old /\ Gone \in 0 .. Gone /\ 0 \in 0 .. SimInterval
        /\ NoStamp \in NoStamp .. LockWait
        /\ 0 \in 0 .. MaxSeq /\ <<>> \in Seq(SimNodes)
    BY Bounds
  <2> QED BY <2>1 DEF TypeOK
<1>2. SlipsSpent
  BY DEF SlipsSpent
<1>3. SimNumbers
  BY NodeSets DEF SimNumbers
<1>4. RadioNumbers
  <2>1. <<>> \in Seq(1 .. MaxSeq) /\ Missed(<<>>) = {}
    BY DEF Missed
  <2>2. Cardinality(Missed(<<>>)) = 0
    BY <2>1, FS_EmptySet
  <2> QED BY <2>1, <2>2, NodeSets DEF RadioNumbers, LastHeard
<1>5. LinksHang /\ StampsFresh
  BY DEF LinksHang, StampsFresh, Drawn
<1> QED BY <1>1, <1>2, <1>3, <1>4, <1>5 DEF IndInv

(* A tick begins with the set of jammed nodes: it owes them nothing. *)
LEMMA SimTickInv ==
    ASSUME IndInv, SimTick, source' = source
    PROVE  IndInv'
<1> USE DEF IndInv, SimTick, shown
<1>1. TypeOK'
  BY DashboardAssumption DEF TypeOK
<1>2. SlipsSpent'
  BY DashboardAssumption DEF SlipsSpent, Owed
<1>3. SimNumbers' /\ LinksHang' /\ StampsFresh'
  BY LinksStay DEF SimNumbers
<1>4. RadioNumbers'
  BY DEF RadioNumbers, LastHeard
<1> QED BY <1>1, <1>2, <1>3, <1>4

(* Serving a node leaves the others of the tick to be served. *)
LEMMA Served ==
    ASSUME TypeOK, SlipsSpent, simTodo # <<>>, SimServed
    PROVE  /\ Head(simTodo) \in SimNodes
           /\ simTodo' \in Seq(SimNodes) /\ simWait' \in 0 .. SimInterval
           /\ \A i, j \in DOMAIN simTodo' : simTodo'[i] = simTodo'[j] => i = j
           /\ {simTodo'[i] : i \in DOMAIN simTodo'}
                 \subseteq {simTodo[i] : i \in DOMAIN simTodo} \ {Head(simTodo)}
           /\ Head(simTodo) \in {simTodo[i] : i \in DOMAIN simTodo}
<1>1. simTodo \in Seq(SimNodes)
  BY DEF TypeOK
<1>2. /\ Len(simTodo) \in Nat \ {0} /\ DOMAIN simTodo = 1 .. Len(simTodo)
      /\ Head(simTodo) = simTodo[1] /\ simTodo' \in Seq(SimNodes)
      /\ DOMAIN simTodo' = 1 .. Len(simTodo) - 1
      /\ \A i \in DOMAIN simTodo' : simTodo'[i] = simTodo[i + 1]
  BY <1>1 DEF SimServed
<1>3. 1 \in DOMAIN simTodo /\ simTodo[1] \in SimNodes
  BY <1>1, <1>2, ElementIn
<1>4. simWait' \in 0 .. SimInterval
  BY Bounds DEF SimServed, TypeOK
<1>5. \A i \in DOMAIN simTodo' : i + 1 \in DOMAIN simTodo /\ i + 1 # 1
  BY <1>2
<1>6. \A i, j \in DOMAIN simTodo' : simTodo'[i] = simTodo'[j] => i = j
  <2>1. SUFFICES ASSUME NEW i \in DOMAIN simTodo', NEW j \in DOMAIN simTodo',
                        simTodo'[i] = simTodo'[j]
                 PROVE  i = j
    OBVIOUS
  <2>2. i + 1 = j + 1
    BY <1>2, <1>5, <2>1 DEF SlipsSpent
  <2> QED BY <1>2, <2>2
<1>7. \A i \in DOMAIN simTodo' : simTodo'[i] = simTodo[i + 1] /\ simTodo[i + 1] # simTodo[1]
  BY <1>2, <1>3, <1>5 DEF SlipsSpent
<1>8. {simTodo'[i] : i \in DOMAIN simTodo'}
          \subseteq {simTodo[i] : i \in DOMAIN simTodo} \ {Head(simTodo)}
  BY <1>2, <1>5, <1>7
<1> QED BY <1>2, <1>3, <1>4, <1>6, <1>8

LEMMA SimSkipInv ==
    ASSUME IndInv, SimSkip, source' = source
    PROVE  IndInv'
<1> USE DEF IndInv, SimSkip, shown
<1>1. TypeOK'
  BY Served DEF TypeOK
<1>2. SlipsSpent'
  <2>1. Owed' \subseteq Owed
    BY Served DEF Owed
  <2> QED BY <2>1, Served DEF SlipsSpent
<1>3. SimNumbers' /\ LinksHang' /\ StampsFresh'
  BY LinksStay DEF SimNumbers
<1>4. RadioNumbers'
  BY DEF RadioNumbers, LastHeard
<1> QED BY <1>1, <1>2, <1>3, <1>4

LEMMA SimReadsClockInv ==
    ASSUME IndInv, SimReadsClock, "sim" \in source, source' = source
    PROVE  IndInv'
<1> USE DEF IndInv, SimReadsClock, shown, sim
<1>1. StampsFresh' /\ stamp' \in [Feeds -> NoStamp .. LockWait]
  BY ReadsClockInv, NodeSets
<1>2. TypeOK'
  BY <1>1 DEF TypeOK
<1>3. SlipsSpent'
  BY DEF SlipsSpent, Owed
<1>4. SimNumbers' /\ LinksHang'
  BY DEF SimNumbers, LinksHang, Drawn, Slack
<1>5. RadioNumbers'
  BY DEF RadioNumbers, LastHeard
<1> QED BY <1>1, <1>2, <1>3, <1>4, <1>5

(* A heartbeat that slips through is the last of its tick for this node, and *)
(* its number is the next one.                                              *)
LEMMA SimHeartbeatInv ==
    ASSUME IndInv, SimHeartbeat, source' = source
    PROVE  IndInv'
<1> USE DEF IndInv
<1> DEFINE n == Head(simTodo)
           s == NextSeq(simSeq[n])
<1>1. /\ simTodo # <<>> /\ n \notin simJammed /\ SimServed
      /\ simSeq' = [simSeq EXCEPT ![n] = s]
      /\ Ingest("sim", n, SimVia(n), simSeq'[n])
      /\ slips' = IF n \in jammed THEN [slips EXCEPT ![n] = @ + 1] ELSE slips
      /\ jammed' = jammed /\ radioStatus' = radioStatus /\ simJammed' = simJammed
      /\ heard' = heard
  BY DEF SimHeartbeat
<1>2. /\ n \in SimNodes /\ n \in Nodes /\ SimVia(n) \in Nodes
      /\ "sim" \in Feeds /\ n \in Fed("sim") /\ SimVia(n) \in Fed("sim")
  BY <1>1, Served, ViaType, NodeSets
<1>3. simSeq[n] \in 0 .. MaxSeq /\ s \in 1 .. MaxSeq /\ Loss(simSeq[n], s) = 0
  BY <1>2, NextSeqType DEF TypeOK
<1> HIDE DEF n, s
<1>4. simSeq'[n] = s /\ Ingest("sim", n, SimVia(n), s)
  BY <1>1, <1>2 DEF TypeOK
<1>5. TypeOK'
  <2>1. simSeq' \in [SimNodes -> 0 .. MaxSeq]
    <3>1. s \in 0 .. MaxSeq
      BY <1>3, Bounds
    <3> QED BY <1>1, <3>1 DEF TypeOK
  <2>2. slips' \in [Nodes -> Nat]
    <3>1. slips \in [Nodes -> Nat] /\ slips[n] + 1 \in Nat
      BY <1>2 DEF TypeOK
    <3> QED BY <1>1, <3>1
  <2> QED BY <1>1, <1>2, <1>3, <1>4, <2>1, <2>2, IngestType, Served DEF TypeOK
<1>6. SlipsSpent'
  <2>1. n \in Owed /\ Owed' \subseteq Owed \ {n}
    BY <1>1, Served DEF Owed, n
  <2>2. \A m \in jammed : slips'[m] <= 1 /\ (m \in Owed' => slips'[m] = 0)
    <3>1. SUFFICES ASSUME NEW m \in jammed
                   PROVE  slips'[m] <= 1 /\ (m \in Owed' => slips'[m] = 0)
      OBVIOUS
    <3>2. m \in Nodes /\ slips[m] \in Nat
      BY NodeSets DEF TypeOK
    <3>3. CASE m = n
      BY <1>1, <2>1, <3>2, <3>3 DEF SlipsSpent, TypeOK
    <3>4. CASE m # n
      <4>1. slips'[m] = slips[m]
        BY <1>1, <3>2, <3>4 DEF TypeOK
      <4> QED BY <2>1, <4>1 DEF SlipsSpent
    <3> QED BY <3>3, <3>4
  <2> QED BY <1>1, <2>2, Served DEF SlipsSpent
<1>7. SimNumbers'
  <2>1. SUFFICES ASSUME NEW m \in SimNodes \ Origins
                 PROVE  lost'[m] = 0 /\ lastSeq'[m] = simSeq'[m]
    BY DEF SimNumbers
  <2>2. m \in Nodes /\ lost[m] = 0 /\ lastSeq[m] = simSeq[m]
    BY NodeSets DEF SimNumbers
  <2>3. CASE m = n
    <3>1. lost'[m] = lost[m] + Loss(lastSeq[m], s) /\ lastSeq'[m] = s
      BY <1>4, <2>2, <2>3 DEF Ingest, TypeOK
    <3> QED BY <1>3, <1>4, <2>2, <2>3, <3>1
  <2>4. CASE m # n
    BY <1>1, <1>4, <2>2, <2>4 DEF Ingest, TypeOK
  <2> QED BY <2>3, <2>4
<1>8. RadioNumbers'
  <2>1. \A m \in Origins \ SimNodes : lost'[m] = lost[m] /\ lastSeq'[m] = lastSeq[m]
    BY <1>2, <1>4, NodeSets DEF Ingest, TypeOK
  <2> QED BY <1>1, <2>1 DEF RadioNumbers, LastHeard
<1>9. LinksHang' /\ StampsFresh'
  BY <1>2, <1>4, IngestLinks, IngestStamps
<1> QED BY <1>5, <1>6, <1>7, <1>8, <1>9

(* The radio thread's comings and goings. *)
LEMMA RadioStatusInv ==
    ASSUME IndInv, RadioOpens \/ RadioConnected \/ RadioHops \/ RadioFails, source' = source
    PROVE  IndInv'
<1>1. /\ radioStatus' \in {"idle", "opening", "hopping", "connected", "error"}
      /\ UNCHANGED <<shown, jammed, sim, stamp, heard, slips>>
  BY DEF RadioOpens, RadioConnected, RadioHops, RadioFails
<1> USE <1>1 DEF IndInv, shown, sim
<1>2. TypeOK'
  BY DEF TypeOK
<1>3. SlipsSpent'
  BY DEF SlipsSpent, Owed
<1>4. SimNumbers' /\ LinksHang' /\ StampsFresh'
  BY LinksStay DEF SimNumbers
<1>5. RadioNumbers'
  BY DEF RadioNumbers, LastHeard
<1> QED BY <1>2, <1>3, <1>4, <1>5

LEMMA RadioReadsClockInv ==
    ASSUME IndInv, RadioReadsClock, "radio" \in source, source' = source
    PROVE  IndInv'
<1> USE DEF IndInv, RadioReadsClock, shown, sim
<1>1. StampsFresh' /\ stamp' \in [Feeds -> NoStamp .. LockWait]
  BY ReadsClockInv, NodeSets
<1>2. TypeOK'
  BY <1>1 DEF TypeOK
<1>3. SlipsSpent'
  BY DEF SlipsSpent, Owed
<1>4. SimNumbers' /\ LinksHang'
  BY DEF SimNumbers, LinksHang, Drawn, Slack
<1>5. RadioNumbers'
  BY DEF RadioNumbers, LastHeard
<1> QED BY <1>1, <1>2, <1>3, <1>4, <1>5

LEMMA RadioHeardInv ==
    ASSUME IndInv, NEW n \in Origins, NEW via \in RadioNodes, NEW s \in 1 .. MaxSeq,
           RadioHeard(n, via, s), source' = source
    PROVE  IndInv'
<1> USE DEF IndInv
<1>1. /\ Ingest("radio", n, via, s) /\ heard' = [heard EXCEPT ![n] = Append(@, s)]
      /\ UNCHANGED <<jammed, radioStatus, sim, slips>>
  BY DEF RadioHeard
<1>2. /\ n \in Nodes /\ via \in Nodes
      /\ "radio" \in Feeds /\ n \in Fed("radio") /\ via \in Fed("radio")
  BY NodeSets
<1>3. TypeOK'
  BY <1>1, <1>2, IngestType DEF TypeOK, sim
<1>4. SlipsSpent'
  BY <1>1 DEF SlipsSpent, Owed, sim
<1>5. SimNumbers'
  BY <1>1, <1>2, NodeSets DEF SimNumbers, Ingest, TypeOK, sim
<1>6. LinksHang' /\ StampsFresh'
  BY <1>1, <1>2, IngestLinks, IngestStamps
<1>7. RadioNumbers'
  <2>1. SUFFICES ASSUME NEW m \in Origins \ SimNodes
                 PROVE  /\ lastSeq'[m] = LastHeard(m)'
                        /\ lost'[m] >= Cardinality(Missed(heard'[m]))
    <3>1. heard' \in [Origins -> Seq(1 .. MaxSeq)]
      BY <1>1 DEF RadioNumbers
    <3> QED BY <3>1 DEF RadioNumbers
  <2>2. CASE m # n
    <3>1. m \in Nodes
      BY NodeSets
    <3>2. heard'[m] = heard[m] /\ lost'[m] = lost[m] /\ lastSeq'[m] = lastSeq[m]
      BY <1>1, <2>2, <3>1 DEF Ingest, TypeOK
    <3> QED BY <3>2 DEF RadioNumbers, LastHeard
  <2>3. CASE m = n
    <3>1. /\ heard[n] \in Seq(1 .. MaxSeq) /\ lastSeq[n] = LastHeard(n)
          /\ lost[n] \in Nat /\ lost[n] >= Cardinality(Missed(heard[n]))
      BY <1>2, <2>3 DEF RadioNumbers, TypeOK
    <3>2. heard'[n] = Append(heard[n], s)
      BY <1>1 DEF RadioNumbers
    <3>3. lost'[n] = lost[n] + Loss(lastSeq[n], s) /\ lastSeq'[n] = s
      BY <1>1, <1>2 DEF Ingest, TypeOK
    <3>4. lost'[n] >= Cardinality(Missed(heard'[n]))
      BY <3>1, <3>2, <3>3, MissedAppend DEF LastHeard
    <3>5. heard'[n] \in Seq(1 .. MaxSeq) /\ heard'[n] # <<>> /\ heard'[n][Len(heard'[n])] = s
      BY <3>1, <3>2
    <3> QED BY <2>3, <3>3, <3>4, <3>5 DEF LastHeard
  <2> QED BY <2>2, <2>3
<1> QED BY <1>3, <1>4, <1>5, <1>6, <1>7

(* A toggle counts a node's heartbeats afresh, unless it is jammed already. *)
LEMMA HttpInv ==
    ASSUME IndInv, HttpThreads
    PROVE  IndInv'
<1> USE DEF IndInv
<1>1. /\ UNCHANGED <<source, shown, radioStatus, sim, stamp, heard>>
      /\ \/ jammed' \subseteq jammed /\ slips' = slips
         \/ \E n \in SimNodes :
               /\ jammed' = jammed \cup {n}
               /\ slips' = IF n \in jammed THEN slips ELSE [slips EXCEPT ![n] = 0]
  BY DEF HttpThreads, ResetSim, Clear, Jam
<1>2. /\ SlipsSpent'
      /\ jammed' \subseteq SimNodes /\ slips' \in [Nodes -> Nat]
  <2>1. Owed' = Owed /\ simTodo' = simTodo
    BY <1>1 DEF Owed, sim
  <2>2. CASE jammed' \subseteq jammed /\ slips' = slips
    BY <2>1, <2>2 DEF SlipsSpent, TypeOK
  <2>3. ASSUME NEW n \in SimNodes,
               jammed' = jammed \cup {n},
               slips' = IF n \in jammed THEN slips ELSE [slips EXCEPT ![n] = 0]
        PROVE  /\ SlipsSpent'
               /\ jammed' \subseteq SimNodes /\ slips' \in [Nodes -> Nat]
    <3>1. jammed' \subseteq SimNodes /\ slips' \in [Nodes -> Nat]
      BY <2>3 DEF TypeOK
    <3>2. CASE n \in jammed
      <4>1. jammed' = jammed /\ slips' = slips
        BY <2>3, <3>2
      <4> QED BY <2>1, <3>1, <4>1 DEF SlipsSpent
    <3>3. CASE n \notin jammed
      <4>1. \A m \in jammed' : slips'[m] = IF m = n THEN 0 ELSE slips[m]
        BY <2>3, <3>1, <3>3, NodeSets DEF TypeOK
      <4>2. \A m \in jammed' : m = n \/ m \in jammed
        BY <2>3
      <4>3. \A m \in jammed' : slips'[m] <= 1 /\ (m \in Owed => slips'[m] = 0)
        BY <4>1, <4>2 DEF SlipsSpent
      <4> QED BY <2>1, <3>1, <4>3 DEF SlipsSpent
    <3> QED BY <3>2, <3>3
  <2> QED BY <1>1, <2>2, <2>3
<1> USE <1>1 DEF shown, sim
<1>3. TypeOK'
  BY <1>2 DEF TypeOK
<1>4. SimNumbers' /\ LinksHang' /\ StampsFresh'
  BY LinksStay DEF SimNumbers
<1>5. RadioNumbers'
  BY DEF RadioNumbers, LastHeard
<1> QED BY <1>2, <1>3, <1>4, <1>5

(* Ages grow together, and one that is at its limit is not told from others. *)
LEMMA TickInv ==
    ASSUME IndInv, Tick
    PROVE  IndInv'
<1> USE DEF IndInv
<1>1. \A n \in Nodes : /\ age[n] \in 0 .. Old
                       /\ age'[n] = IF age[n] + 1 <= Old THEN age[n] + 1 ELSE Old
  <2>1. ASSUME NEW n \in Nodes
        PROVE  /\ age[n] \in 0 .. Old
               /\ age'[n] = IF age[n] + 1 <= Old THEN age[n] + 1 ELSE Old
    <3>1. age[n] \in 0 .. Old /\ age'[n] = Older(age[n], Old)
      BY DEF Tick, TypeOK
    <3> QED BY <3>1, Bounds DEF Older
  <2> QED BY <2>1
<1>2. \A p \in Paths : /\ links[p] \in 0 .. Gone
                       /\ links'[p] = IF links[p] + 1 <= Gone THEN links[p] + 1 ELSE Gone
  <2>1. ASSUME NEW p \in Paths
        PROVE  /\ links[p] \in 0 .. Gone
               /\ links'[p] = IF links[p] + 1 <= Gone THEN links[p] + 1 ELSE Gone
    <3>1. links[p] \in 0 .. Gone /\ links'[p] = Older(links[p], Gone)
      BY DEF Tick, TypeOK
    <3> QED BY <3>1, Bounds DEF Older
  <2> QED BY <2>1
<1>3. TypeOK'
  <2>1. age' \in [Nodes -> 0 .. Old]
    <3>1. \A n \in Nodes : age'[n] \in 0 .. Old
      BY <1>1, Bounds
    <3> QED BY <3>1 DEF Tick
  <2>2. links' \in [Paths -> 0 .. Gone]
    <3>1. \A p \in Paths : links'[p] \in 0 .. Gone
      BY <1>2, Bounds
    <3> QED BY <3>1 DEF Tick
  <2>3. simWait' \in 0 .. SimInterval
    BY Bounds DEF Tick, TypeOK
  <2>4. stamp' \in [Feeds -> NoStamp .. LockWait]
    BY Bounds DEF Tick, TypeOK
  <2> QED BY <2>1, <2>2, <2>3, <2>4 DEF Tick, TypeOK
<1>4. SlipsSpent'
  BY DEF Tick, SlipsSpent, Owed
<1>5. SimNumbers'
  BY DEF Tick, SimNumbers
<1>6. RadioNumbers'
  BY DEF Tick, RadioNumbers, LastHeard
<1>7. \A n : Slack(n)' = Slack(n) /\ Slack(n) \in Nat
  BY SlackType DEF Tick, Slack
<1>8. ASSUME NEW p \in Paths, Drawn(p)'
      PROVE  Drawn(p) /\ links[p] \in Nat /\ links'[p] = links[p] + 1
  BY <1>2, <1>8, Bounds DEF Drawn
<1>9. LinksHang'
  <2>1. SUFFICES ASSUME NEW p \in Paths, Drawn(p)'
                 PROVE  /\ p[2] \in Nodes
                        /\ links'[<<BASE, p[1]>>] <= links'[p] + Slack(p[1])
                        /\ age'[p[2]] <= links'[p] + Slack(p[2])
    BY <1>7 DEF LinksHang
  <2>2. <<BASE, p[1]>> \in Paths
    BY DEF Paths
  <2>3. Drawn(p) /\ links[p] \in Nat /\ links'[p] = links[p] + 1
        /\ Slack(p[1]) \in Nat /\ Slack(p[2]) \in Nat
    BY <1>7, <1>8, <2>1
  <2>4. /\ p[2] \in Nodes /\ links[<<BASE, p[1]>>] <= links[p] + Slack(p[1])
        /\ age[p[2]] <= links[p] + Slack(p[2])
    BY <2>3 DEF LinksHang
  <2>5. links'[<<BASE, p[1]>>] <= links[<<BASE, p[1]>>] + 1
        /\ links'[<<BASE, p[1]>>] \in Int /\ links[<<BASE, p[1]>>] \in Int
    BY <1>2, <2>2, Bounds
  <2>6. age'[p[2]] <= age[p[2]] + 1 /\ age'[p[2]] \in Int /\ age[p[2]] \in Int
    BY <1>1, <2>4, Bounds
  <2> QED BY <2>3, <2>4, <2>5, <2>6
<1>10. StampsFresh'
  <2>1. \A t \in Feeds :
            /\ stamp'[t] = IF stamp[t] = NoStamp THEN NoStamp ELSE stamp[t] + 1
            /\ stamp'[t] # NoStamp => stamp[t] # NoStamp
    BY DEF Tick
  <2>2. ASSUME NEW t \in Feeds, NEW p \in Paths, NEW i \in {1, 2},
               stamp'[t] # NoStamp, Drawn(p)', p[i] \in Fed(t)
        PROVE  stamp'[t] <= links'[p] + Slack(p[i])
    <3>1. stamp[t] # NoStamp /\ stamp'[t] = stamp[t] + 1 /\ stamp[t] \in 0 .. LockWait
      BY <2>1, <2>2, StampType
    <3>2. Drawn(p) /\ links[p] \in Nat /\ links'[p] = links[p] + 1 /\ Slack(p[i]) \in Nat
      BY <1>7, <1>8, <2>2
    <3>3. stamp[t] <= links[p] + Slack(p[i])
      BY <2>2, <3>1, <3>2 DEF StampsFresh
    <3> QED BY <3>1, <3>2, <3>3
  <2>3. \A t \in Feeds : stamp'[t] # NoStamp => t \in source'
    BY <2>1 DEF StampsFresh, Tick
  <2> QED BY <1>7, <2>2, <2>3 DEF StampsFresh
<1> QED BY <1>3, <1>4, <1>5, <1>6, <1>9, <1>10

LEMMA Step ==
    ASSUME IndInv, [Next]_vars
    PROVE  IndInv'
<1>1. CASE SimThread
  BY <1>1, SimTickInv, SimSkipInv, SimReadsClockInv, SimHeartbeatInv DEF SimThread
<1>2. CASE RadioThread
  <2>1. 1 .. Wrap[source] \subseteq 1 .. MaxSeq
    <3>1. Wrap[source] \in 1 .. MaxSeq
      BY DashboardAssumption DEF IndInv, TypeOK
    <3> QED BY <3>1, Bounds
  <2>2. CASE RadioEnters
    BY <2>1, <2>2, RadioHeardInv DEF RadioEnters
  <2> QED BY <1>2, <2>2, RadioStatusInv, RadioReadsClockInv DEF RadioThread
<1>3. CASE UNCHANGED vars
  <2> USE <1>3 DEF IndInv, vars, shown, sim
  <2>1. TypeOK'
    BY DEF TypeOK
  <2>2. SlipsSpent'
    BY DEF SlipsSpent, Owed
  <2>3. SimNumbers' /\ LinksHang' /\ StampsFresh'
    BY LinksStay DEF SimNumbers
  <2>4. RadioNumbers'
    BY DEF RadioNumbers, LastHeard
  <2> QED BY <2>1, <2>2, <2>3, <2>4
<1> QED BY <1>1, <1>2, <1>3, HttpInv, TickInv DEF Next

-----------------------------------------------------------------------------
(* The theorems. *)

(* What the threads rely on between their turns at the lock: a node that is  *)
(* owed a heartbeat has not slipped through, the last numbers are those of   *)
(* the senders, every link drawn hangs on the base, and no time stamp that a *)
(* thread has read and not entered sets one back further than allowed        *)
(* (dashboard_server.py:400-478 and 832-876).                                *)
THEOREM DashboardInvariance == Spec => []IndInv
<1>1. Init => IndInv
  BY InitInv
<1>2. IndInv /\ [Next]_vars => IndInv'
  BY Step
<1> QED BY <1>1, <1>2, PTL DEF Spec

(* At most one heartbeat passes after a toggle, however often toggles come   *)
(* and whatever the tick under way had read (dashboard_server.py:832).       *)
THEOREM ToggleTakesHold == Spec => []JamTakesHold
<1>1. IndInv => JamTakesHold
  BY DEF IndInv, SlipsSpent, JamTakesHold
<1> QED BY <1>1, DashboardInvariance, PTL

(* Of loss the dashboard claims no less than the numbers of a node heard by  *)
(* radio support, and none of a simulated one, unless one has the id of the  *)
(* other (dashboard_server.py:447-452).                                      *)
THEOREM LossIsHonest == Spec => []LossHonest
<1>1. IndInv => LossHonest
  BY DEF IndInv, SimNumbers, RadioNumbers, LossHonest, SimLosesNothing, LossNeverUnderstated
<1> QED BY <1>1, DashboardInvariance, PTL

(* A link beyond a relay is never fresher than the base's link to the relay, *)
(* or than the news of the node at its end, by more than the wait for the    *)
(* lock where both threads enter the node, and not at all where one does,    *)
(* whether or not they share ids (dashboard_server.py:415, 420, 459-461).    *)
THEOREM TopologyHangsTogether == Spec => []LinksReachBase
<1>1. IndInv => LinksReachBase
  BY DEF IndInv, LinksHang, Drawn, LinksReachBase
<1> QED BY <1>1, DashboardInvariance, PTL
=============================================================================
