----------------------------- MODULE Dashboard ------------------------------
(***************************************************************************)
(* The dashboard server (demo/dashboard_server.py): one MeshState under one *)
(* lock, fed by a simulation thread and a radio thread and read and changed *)
(* by the threads of the HTTP server.  Every method of MeshState holds the  *)
(* lock from beginning to end and is one step; between two of its calls a   *)
(* thread may be overtaken by any other.  ingest_observation reads the clock *)
(* before it takes the lock, so that it is two steps: by the time an         *)
(* observation is entered its time stamp may be older than one that the     *)
(* other thread has entered.                                                *)
(*                                                                          *)
(* Time is counted in ticks and kept as the age of what was last seen, cut  *)
(* off where the code no longer tells ages apart.  A simulated node and one  *)
(* heard by radio may have the same id.  Counters of packets, the list of    *)
(* events and what a status says of position or battery are left out.       *)
(***************************************************************************)
EXTENDS Integers, Sequences, FiniteSets

CONSTANTS
    Sources,      \* values of --source to consider, as sets of threads
    BASE,         \* BASE_NODE_ID
    SimOrder,     \* the simulated nodes, in the order they are served
    FarNode,      \* the simulated node that is heard through a relay
    RelayNode,    \* ... and that relay, node 2
    Origins,      \* nodes heard by radio
    Relays,       \* nodes that relay what Origins send
    SimInterval,  \* --sim-interval-ms
    StaleAfter,   \* --stale-after-s
    DownAfter,    \* --down-after-s
    LinkKept,     \* max(2 * down_after, 8): how long a link is drawn
    LockWait,     \* bound: the longest from reading the clock to the lock
    MaxSeq,       \* the largest number (2^32 - 1 in the code)
    Wrap,         \* bound: Wrap[s]: numbers wrap after it, with source s
    MaxHeard      \* bound: MaxHeard[s]: frames heard of an origin, with source s

SimNodes   == {SimOrder[i] : i \in DOMAIN SimOrder}
RadioNodes == Origins \cup Relays
Nodes      == SimNodes \cup RadioNodes

(* The threads that enter observations, and the nodes each enters. *)
Feeds  == {"sim", "radio"}
Fed(t) == IF t = "sim" THEN SimNodes ELSE RadioNodes

ASSUME DashboardAssumption ==
    /\ Sources \subseteq SUBSET Feeds
    /\ SimOrder \in Seq(SimNodes)
    /\ \A i, j \in DOMAIN SimOrder : SimOrder[i] = SimOrder[j] => i = j
    /\ BASE \notin Nodes
    /\ {FarNode, RelayNode} \subseteq SimNodes
    /\ {SimInterval, StaleAfter, DownAfter, LinkKept, MaxSeq}
           \subseteq Nat \ {0}
    /\ StaleAfter < DownAfter /\ 2 * DownAfter <= LinkKept
    /\ LockWait \in 0 .. StaleAfter
    /\ Wrap \in [Sources -> 1 .. MaxSeq] /\ MaxHeard \in [Sources -> Nat]

VARIABLES
    source,       \* --source, {"sim", "radio"} standing for both
    age,          \* since last_seen; Old when down or never seen
    lastSeq,      \* last_seq, 0 for None
    lost,         \* lost_packets
    links,        \* links[<<from, to>>]: age since the link's last_seen
    jammed,       \* jammed_sim_nodes
    radioStatus,  \* radio_status
    simWait,      \* time until next_tick
    simTodo,      \* nodes this tick has still to serve; <<>> between ticks
    simJammed,    \* the jammed set the tick read at its beginning
    simSeq,       \* seq_by_node
    stamp,        \* age of the time a feed has read and not yet entered
    heard,        \* history: numbers heard of each origin
    slips         \* history: heartbeats of a node since it is jammed

shown == <<age, lastSeq, lost, links>>
sim   == <<simWait, simTodo, simJammed, simSeq>>
vars  == <<source, shown, jammed, radioStatus, sim, stamp, heard, slips>>

Old == DownAfter + 1
Gone == LinkKept + 1
NoStamp == -1

NextSeq(seq) == IF seq < Wrap[source] THEN seq + 1 ELSE 1

Paths == (({BASE} \cup Nodes) \X ({BASE} \cup Nodes))

Init ==
    /\ source \in Sources
    /\ age = [n \in Nodes |-> Old]
    /\ lastSeq = [n \in Nodes |-> 0]
    /\ lost = [n \in Nodes |-> 0]
    /\ links = [p \in Paths |-> Gone]
    /\ jammed = {} /\ radioStatus = "idle"
    /\ simWait = 0 /\ simTodo = <<>> /\ simJammed = {}
    /\ simSeq = [n \in SimNodes |-> 0]
    /\ stamp = [t \in Feeds |-> NoStamp]
    /\ heard = [n \in Origins |-> <<>>]
    /\ slips = [n \in Nodes |-> 0]

-----------------------------------------------------------------------------

(* Mutant: the base's link is touched only for what is heard directly. *)
TouchedOne(origin, via) ==
    IF via # origin THEN {<<via, origin>>} ELSE {<<BASE, via>>}

(* What one observation does to the links: base to relay, relay to origin. *)
Touched(origin, via) ==
    {<<BASE, via>>} \cup (IF via # origin THEN {<<via, origin>>} ELSE {})

(* Mutant: the jump is off by one. *)
LossShort(last, seq) ==
    IF last # 0 /\ seq > last + 1 THEN seq - last - 2 ELSE 0

Loss(last, seq) ==
    IF last # 0 /\ seq > last + 1 THEN seq - last - 1 ELSE 0

(* ingest_observation: now is read ... *)
ReadsClock(t) ==
    /\ stamp[t] = NoStamp
    /\ stamp' = [stamp EXCEPT ![t] = 0]

(* ... and entered, with what was observed, under the lock. *)
Ingest(t, origin, via, seq) ==
    /\ stamp[t] # NoStamp
    /\ stamp' = [stamp EXCEPT ![t] = NoStamp]
    /\ age' = [age EXCEPT ![origin] = stamp[t]]
    /\ lost' = [lost EXCEPT ![origin] = @ + Loss(lastSeq[origin], seq)]
    /\ lastSeq' = [lastSeq EXCEPT ![origin] = seq]
    /\ LET touched == Touched(origin, via)
       IN  links' = [p \in Paths |-> IF p \in touched THEN stamp[t] ELSE links[p]]

-----------------------------------------------------------------------------
(* The simulation thread. *)

(* Mutant: the jammed nodes are read with the first tick only. *)
SimTickOnce ==
    /\ simTodo = <<>> /\ simWait = 0
    /\ simTodo' = SimOrder
    /\ simJammed' = IF \A n \in SimNodes : simSeq[n] = 0 THEN jammed ELSE simJammed
    /\ UNCHANGED <<shown, jammed, radioStatus, simWait, simSeq, stamp, heard, slips>>

(* Mutant: the set of jammed nodes only grows. *)
SimTickAdding ==
    /\ simTodo = <<>> /\ simWait = 0
    /\ simTodo' = SimOrder
    /\ simJammed' = simJammed \cup jammed
    /\ UNCHANGED <<shown, jammed, radioStatus, simWait, simSeq, stamp, heard, slips>>

(* A tick begins with a snapshot, of which it keeps the jammed nodes. *)
SimTick ==
    /\ simTodo = <<>> /\ simWait = 0
    /\ simTodo' = SimOrder
    /\ simJammed' = jammed
    /\ UNCHANGED <<shown, jammed, radioStatus, simWait, simSeq, stamp, heard, slips>>

SimServed ==
    /\ simTodo' = Tail(simTodo)
    /\ simWait' = IF Len(simTodo) = 1 THEN SimInterval ELSE simWait

SimVia(n) == IF n = FarNode /\ RelayNode \notin simJammed THEN RelayNode ELSE n

(* A jammed node takes no number. *)
SimSkip ==
    /\ simTodo # <<>> /\ Head(simTodo) \in simJammed
    /\ SimServed
    /\ UNCHANGED <<shown, jammed, radioStatus, simJammed, simSeq, stamp, heard, slips>>

SimReadsClock ==
    /\ simTodo # <<>> /\ Head(simTodo) \notin simJammed
    /\ ReadsClock("sim")
    /\ UNCHANGED <<shown, jammed, radioStatus, sim, heard, slips>>

SimHeartbeat ==
    /\ simTodo # <<>> /\ Head(simTodo) \notin simJammed
    /\ LET n == Head(simTodo) IN
       /\ simSeq' = [simSeq EXCEPT ![n] = NextSeq(@)]
       /\ Ingest("sim", n, SimVia(n), simSeq'[n])
       /\ slips' = IF n \in jammed THEN [slips EXCEPT ![n] = @ + 1] ELSE slips
    /\ SimServed
    /\ UNCHANGED <<jammed, radioStatus, simJammed, heard>>

-----------------------------------------------------------------------------
(* The radio thread; between reading the clock and entering what it heard it
   does nothing else. *)

RadioOpens ==
    /\ radioStatus = "idle"
    /\ radioStatus' = "opening"
    /\ UNCHANGED <<shown, jammed, sim, stamp, heard, slips>>

RadioConnected ==
    /\ radioStatus \in {"opening", "hopping"}
    /\ radioStatus' = "connected"
    /\ UNCHANGED <<shown, jammed, sim, stamp, heard, slips>>

RadioHops ==
    /\ radioStatus \in {"opening", "connected"} /\ stamp["radio"] = NoStamp
    /\ radioStatus' = "hopping"
    /\ UNCHANGED <<shown, jammed, sim, stamp, heard, slips>>

(* Any exception ends the thread; the rest of the server goes on. *)
RadioFails ==
    /\ radioStatus \notin {"idle", "error"} /\ stamp["radio"] = NoStamp
    /\ radioStatus' = "error"
    /\ UNCHANGED <<shown, jammed, sim, stamp, heard, slips>>

RadioReadsClock ==
    /\ radioStatus = "connected"
    /\ \E n \in Origins : Len(heard[n]) < MaxHeard[source]
    /\ ReadsClock("radio")
    /\ UNCHANGED <<shown, jammed, radioStatus, sim, heard, slips>>

(* process_radio_payload: frames are lost, and copies come late and by other
   ways: any number of any origin, any number of times. *)
RadioHeard(n, via, seq) ==
    /\ radioStatus = "connected"
    /\ Len(heard[n]) < MaxHeard[source]
    /\ Ingest("radio", n, via, seq)
    /\ heard' = [heard EXCEPT ![n] = Append(@, seq)]
    /\ UNCHANGED <<jammed, radioStatus, sim, slips>>

-----------------------------------------------------------------------------
(* The HTTP threads: set_sim_jammed and reset_sim. *)

Jam(n) ==
    /\ jammed' = jammed \cup {n}
    /\ slips' = IF n \in jammed THEN slips ELSE [slips EXCEPT ![n] = 0]
    /\ UNCHANGED <<shown, radioStatus, sim, stamp, heard>>

Clear(n) ==
    /\ jammed' = jammed \ {n}
    /\ UNCHANGED <<shown, radioStatus, sim, stamp, heard, slips>>

ResetSim ==
    /\ jammed' = {}
    /\ UNCHANGED <<shown, radioStatus, sim, stamp, heard, slips>>

(* Ages are told apart up to a limit. *)
Older(a, limit) == IF a < limit THEN a + 1 ELSE limit

Tick ==
    /\ \A t \in Feeds : stamp[t] < LockWait
    /\ stamp' = [t \in Feeds |-> IF stamp[t] = NoStamp THEN NoStamp ELSE stamp[t] + 1]
    /\ age' = [n \in Nodes |-> Older(age[n], Old)]
    /\ links' = [p \in Paths |-> Older(links[p], Gone)]
    /\ simWait' = IF simWait > 0 THEN simWait - 1 ELSE 0
    /\ UNCHANGED <<source, lastSeq, lost, jammed, radioStatus,
                   simTodo, simJammed, simSeq, heard, slips>>

SimThread ==
    /\ "sim" \in source
    /\ SimTick \/ SimSkip \/ SimReadsClock \/ SimHeartbeat
    /\ UNCHANGED source

RadioEnters ==
    /\ \E n \in Origins, via \in RadioNodes, seq \in 1 .. Wrap[source] : RadioHeard(n, via, seq)
    /\ UNCHANGED source

RadioThread ==
    \/ /\ "radio" \in source
       /\ RadioOpens \/ RadioConnected \/ RadioHops \/ RadioFails \/ RadioReadsClock
       /\ UNCHANGED source
    \/ RadioEnters

HttpThreads ==
    /\ ResetSim \/ \E n \in SimNodes : Jam(n) \/ Clear(n)
    /\ UNCHANGED source

Next == SimThread \/ RadioThread \/ HttpThreads \/ Tick

(* The simulation thread is never stopped for good, a thread that has read the
   clock gets the lock, and time passes. *)
Spec ==
    /\ Init /\ [][Next]_vars
    /\ WF_vars(SimThread) /\ WF_vars(RadioEnters) /\ WF_vars(Tick)

-----------------------------------------------------------------------------

TypeOK ==
    /\ source \in Sources
    /\ age \in [Nodes -> 0 .. Old]
    /\ lastSeq \in [Nodes -> 0 .. MaxSeq]
    /\ lost \in [Nodes -> Nat]
    /\ links \in [Paths -> 0 .. Gone]
    /\ jammed \subseteq SimNodes /\ simJammed \subseteq SimNodes
    /\ radioStatus \in {"idle", "opening", "hopping", "connected", "error"}
    /\ simWait \in 0 .. SimInterval
    /\ simTodo \in Seq(SimNodes)
    /\ simSeq \in [SimNodes -> 0 .. MaxSeq]
    /\ stamp \in [Feeds -> NoStamp .. LockWait]
    /\ slips \in [Nodes -> Nat]

(* _node_to_dict_locked *)
NodeState(n) ==
    IF age[n] > DownAfter THEN "down"
    ELSE IF age[n] > StaleAfter THEN "stale" ELSE "online"

(* "The jamming toggles stop simulated heartbeats for selected nodes"
   (demo/README.md:56), although a tick works with the set of jammed nodes it
   read at its beginning (dashboard_server.py:832): at most one heartbeat
   slips through after a toggle, however often toggles come. *)
JamTakesHold == \A n \in jammed : slips[n] <= 1

(* Jamming leaves no gap in the numbers of a simulated node, and the wrap of
   the numbers is none: no simulated heartbeat counts as lost, whatever is
   toggled when (dashboard_server.py:836-841 and 447-452).  Where a node heard
   by radio has the id of a simulated one the two number on one account, and
   nothing is claimed of it. *)
SimLosesNothing == \A n \in SimNodes \ Origins : lost[n] = 0

(* The numbers between the first and the highest heard that were not. *)
Missed(nos) ==
    {s \in 1 .. MaxSeq :
        /\ \A i \in DOMAIN nos : nos[i] # s
        /\ \E i \in DOMAIN nos : nos[1] < s /\ s < nos[i]}

(* The loss shown for a node heard by radio never understates: every number
   between the first and the highest heard that was not heard was counted,
   however copies are repeated or reordered (dashboard_server.py:447-452). *)
LossNeverUnderstated ==
    \A n \in Origins \ SimNodes : lost[n] >= Cardinality(Missed(heard[n]))

(* The two together: of loss the dashboard claims what the numbers support. *)
LossHonest == SimLosesNothing /\ LossNeverUnderstated

(* A node that both threads enter may be set back to an older stamp, by no
   more than a thread waits for the lock. *)
Slack(n) == IF source = Feeds /\ n \in SimNodes \cap RadioNodes THEN LockWait ELSE 0

(* The topology a snapshot draws hangs together: a link beyond a relay is
   never fresher than the base's link to that relay, or than the news of the
   node at its end - by more than the wait for the lock, where both threads
   enter the same node and one overtakes the other between reading the clock
   and entering (dashboard_server.py:415, 420 and 459-461). *)
LinksReachBase ==
    /\ TypeOK
    /\ \A p \in Paths :
          p[1] # BASE /\ links[p] # Gone
          => /\ links[<<BASE, p[1]>>] <= links[p] + Slack(p[1])
             /\ age[p[2]] <= links[p] + Slack(p[2])

(* "The dashboard marks nodes stale and then down when no heartbeat arrives"
   (demo/README.md:56-57): a node that stays jammed is down in the end and
   stays so, although a tick may have read the jammed nodes before; unless the
   radio hears a node of its id. *)
JammedGoesDown ==
    \A n \in SimNodes \ Origins : (<>[](n \in jammed)) => <>[](NodeState(n) = "down")

(* A node that is no longer jammed comes back, whatever the state of the
   radio thread. *)
ClearedComesBack ==
    "sim" \in source =>
    \A n \in SimNodes : (<>[](n \notin jammed)) => []<>(NodeState(n) = "online")

(* Both ways: what the page shows of a simulated node follows the toggles. *)
JamShows == JammedGoesDown /\ ClearedComesBack
=============================================================================
