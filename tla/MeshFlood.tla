----------------------------- MODULE MeshFlood -----------------------------
(***************************************************************************)
(* A mesh of mesh_txrx.py processes that flood routed packets over one     *)
(* radio channel.                                                          *)
(*                                                                         *)
(* Every node runs a single-threaded loop: it originates routes            *)
(* (send_route, send_route_v2), and takes received frames one at a time    *)
(* from its radio and either drops, or accepts and forwards them.  Routes  *)
(* come in three kinds: v1 data (sealed hop by hop when the node has the   *)
(* mesh-group key), v1 sync (always in the clear) and v2 (sealed end to    *)
(* end, opaque to relays).  The three kinds share one seen cache, one      *)
(* replay window and one origin sequence counter per node.                 *)
(*                                                                         *)
(* Transmissions are heard by some of the sender's neighbours; a receiver  *)
(* takes what it heard in order.  Frames the decoders reject change        *)
(* nothing and are indistinguishable from frames that were not heard.      *)
(***************************************************************************)
EXTENDS FifoCache, Naturals, Sequences, FiniteSets

CONSTANTS
    Nodes,        \* the nodes: their sender ids
    Links,        \* Links[n]: the nodes that can hear n (n itself: --include-self)
    Broadcast,    \* destination_id 0
    Traffic,      \* what the nodes' configurations originate
    Ttl,          \* Ttl[n]: the ttl of the routes n originates
    CryptoKeys,   \* AEAD keys: one per security domain and key epoch
    NoKey,        \* stands for "no key configured"
    MeshKey,      \* MeshKey[n]: the mesh-group key of n, or NoKey
    E2EKey,       \* E2EKey[n]: the key that seals the v2 routes n originates
    InboundKeys,  \* InboundKeys[n]: n's keyring for v2 routes addressed to it
    SeenLimit,    \* --seen-limit
    ReplayLimit,  \* [mesh_crypto] replay_window: the only window the node has
    MaxSeq,       \* MAX_U32 in the code
    InitialSeqs,  \* the first sequence numbers a starting process may draw
    Dist,         \* Dist[o][n]: the number of links between o and n
    Lossy,        \* TRUE: any subset of the neighbours hears a transmission
    RxLimit,      \* bound: frames that wait at a receiver (more are lost)
    MaxRoutes,    \* bound: routes originated in a behaviour
    MaxRestarts   \* bound: crashes in a behaviour

Kinds == {"data", "sync", "v2"}
Seqs == 1..MaxSeq

ASSUME ConfigAssumption ==
    /\ Broadcast \notin Nodes
    /\ NoKey \notin CryptoKeys
    /\ Links \in [Nodes -> SUBSET Nodes]
    /\ Ttl \in [Nodes -> Nat]
    /\ MeshKey \in [Nodes -> CryptoKeys \union {NoKey}]
    /\ E2EKey \in [Nodes -> CryptoKeys \union {NoKey}]
    /\ InboundKeys \in [Nodes -> SUBSET CryptoKeys]
    /\ Traffic \subseteq [origin : Nodes, kind : Kinds, dest : Nodes \union {Broadcast}]
    /\ \A t \in Traffic : t.kind = "v2" => E2EKey[t.origin] # NoKey

ASSUME LimitAssumption ==
    /\ SeenLimit \in Nat \ {0}
    /\ ReplayLimit \in Nat \ {0}
    /\ MaxSeq \in Nat \ {0}
    /\ InitialSeqs \subseteq Seqs
    /\ RxLimit \in Nat
    /\ MaxRoutes \in Nat
    /\ MaxRestarts \in Nat
    /\ Lossy \in BOOLEAN

(* All a distance needs here: one link adds one at most. *)
ASSUME DistAssumption ==
    /\ Dist \in [Nodes -> [Nodes -> Nat]]
    /\ \A o \in Nodes : Dist[o][o] = 0
    /\ \A o, n \in Nodes : \A m \in Links[n] : Dist[o][m] <= Dist[o][n] + 1

VARIABLES
    rxq,         \* rxq[n]: routes n has heard and not yet taken from its radio
    seen,        \* seen[n]: the SeenRoutes cache
    replay,      \* replay[n]: the ReplayWindow cache
    nextSeq,     \* nextSeq[n]: next_origin_seq
    log,         \* history: what n entered into its seen cache since it started
    opened,      \* history: what n decrypted since it started
    originated,  \* counts against MaxRoutes
    restarts     \* counts against MaxRestarts

vars == <<rxq, seen, replay, nextSeq, log, opened, originated, restarts>>

-----------------------------------------------------------------------------
(* Routed packets.                                                         *)

(***************************************************************************)
(* An AEAD envelope: the key and the ttl that is part of the associated    *)
(* data.  The associated data of v1 covers the ttl of the hop; that of v2  *)
(* leaves the ttl out, which is written as 0.                              *)
(***************************************************************************)
Seals == [key : CryptoKeys \union {NoKey}, aadTtl : Nat]
NoSeal == [key |-> NoKey, aadTtl |-> 0]

(* `trail` is history: the nodes that have transmitted the route. *)
Routes == [kind : Kinds, origin : Nodes, dest : Nodes \union {Broadcast}, ttl : Nat,
           seq : Seqs, seal : Seals, trail : SUBSET Nodes]

Class(kind) == IF kind = "v2" THEN "v2" ELSE "v1"

Keys == {"v1", "v2"} \X Nodes \X Seqs

(* dedupe_key of RouteData and of RouteDataV2: keys of the two never meet. *)
Key(r) == <<Class(r.kind), r.origin, r.seq>>

(* The replay key names the key the route was sealed with. *)
ReplayKey(r) == <<r.seal.key, Class(r.kind), r.origin, r.seq>>
ReplayKeys == (CryptoKeys \union {NoKey}) \X {"v1", "v2"} \X Nodes \X Seqs

(* A counter that runs into 0, the value reserved for "none". *)
NextSeqThroughZero(s) == (s + 1) % (MaxSeq + 1)

(* The u32 successor, skipping 0. *)
NextSeq(s) == IF s = MaxSeq THEN 1 ELSE s + 1

(* encrypt_mesh_payload: sync and keyless nodes send the payload as it is. *)
SealMesh(n, kind, ttl) ==
    IF kind = "sync" \/ MeshKey[n] = NoKey THEN NoSeal ELSE [key |-> MeshKey[n], aadTtl |-> ttl]

(* encrypt_e2e_payload *)
SealE2E(n) == [key |-> E2EKey[n], aadTtl |-> 0]

NewRoute(n, t, s) ==
    [kind |-> t.kind, origin |-> n, dest |-> t.dest, ttl |-> Ttl[n], seq |-> s,
     seal |-> IF t.kind = "v2" THEN SealE2E(n) ELSE SealMesh(n, t.kind, Ttl[n]),
     trail |-> {n}]

(***************************************************************************)
(* decremented_ttl, and for v1 data a new envelope for the next hop; what  *)
(* a keyless relay received, sealed or not, it passes on as it is.         *)
(***************************************************************************)
Forwarded(n, r) ==
    [r EXCEPT !.ttl = @ - 1,
              !.seal = IF r.kind = "data" /\ MeshKey[n] # NoKey
                       THEN SealMesh(n, r.kind, r.ttl - 1) ELSE @,
              !.trail = @ \union {n}]

-----------------------------------------------------------------------------
(* Radio.                                                                  *)

(* Who may hear one transmission of n. *)
Hearers(n) == IF Lossy THEN SUBSET Links[n] ELSE {Links[n]}

(* The queues after route r was heard by the nodes R. *)
Air(queues, R, r) ==
    [m \in Nodes |-> IF m \in R /\ Len(queues[m]) < RxLimit
                     THEN Append(queues[m], r) ELSE queues[m]]

(* A receive call that hands out the oldest frame and leaves it queued. *)
TakenStaysQueued(n) == rxq

(* rx.recv_optional hands the oldest frame to the handler. *)
Taken(n) == [rxq EXCEPT ![n] = Tail(@)]

-----------------------------------------------------------------------------
(* The receive handler's tests, in the order the code makes them.          *)

IsOwn(n, r) == r.origin = n

(* Whether the handler tries to decrypt the route. *)
Attempts(n, r) ==
    CASE r.kind = "data" -> MeshKey[n] # NoKey
      [] r.kind = "sync" -> FALSE
      [] r.kind = "v2"   -> r.dest = n /\ r.seal.key \in InboundKeys[n]

(* A receiver that checks the key and not the associated data. *)
OpensByKeyOnly(n, r) == r.kind = "data" => r.seal.key = MeshKey[n]

(* Whether the decryption succeeds: right key, unchanged associated data. *)
Opens(n, r) ==
    r.kind = "data" => r.seal = [key |-> MeshKey[n], aadTtl |-> r.ttl]

LogEntry(n, r, why) ==
    [key |-> Key(r), why |-> why, kind |-> r.kind, trail |-> r.trail,
     by |-> IF why = "accepted" /\ Attempts(n, r) THEN r.seal.key ELSE NoKey]

LogEntries == [key : Keys, why : {"sent", "echo", "accepted"}, kind : Kinds,
               trail : SUBSET Nodes, by : CryptoKeys \union {NoKey}]

(***************************************************************************)
(* seen.remember(key), recorded in the history when it inserts.            *)
(***************************************************************************)
RememberSeen(n, r, why) ==
    /\ seen' = [seen EXCEPT ![n] = Remember(@, Key(r), SeenLimit)]
    /\ log' = IF Known(seen[n], Key(r)) THEN log
              ELSE [log EXCEPT ![n] = Append(@, LogEntry(n, r, why))]

-----------------------------------------------------------------------------
(* Actions.                                                                *)

Init ==
    /\ rxq = [n \in Nodes |-> <<>>]
    /\ seen = [n \in Nodes |-> <<>>]
    /\ replay = [n \in Nodes |-> <<>>]
    /\ nextSeq \in [Nodes -> InitialSeqs]
    /\ log = [n \in Nodes |-> <<>>]
    /\ opened = [n \in Nodes |-> <<>>]
    /\ originated = 0
    /\ restarts = 0

(***************************************************************************)
(* send_route / send_route_v2: transmit, remember the own key, advance the *)
(* origin sequence number.                                                 *)
(***************************************************************************)
Originate(n) ==
    /\ originated < MaxRoutes
    /\ \E t \in Traffic, R \in Hearers(n) :
          /\ t.origin = n
          /\ LET r == NewRoute(n, t, nextSeq[n])
             IN  /\ rxq' = Air(rxq, R, r)
                 /\ RememberSeen(n, r, "sent")
    /\ nextSeq' = [nextSeq EXCEPT ![n] = NextSeq(@)]
    /\ originated' = originated + 1
    /\ UNCHANGED <<replay, opened, restarts>>

(* A route of its own comes back: remembered again, not handled. *)
DropOwn(n) ==
    /\ rxq[n] # <<>>
    /\ IsOwn(n, Head(rxq[n]))
    /\ rxq' = Taken(n)
    /\ RememberSeen(n, Head(rxq[n]), "echo")
    /\ UNCHANGED <<replay, nextSeq, opened, originated, restarts>>

(* A route of another origin, not in the cache. *)
IsNew(n, r) == ~IsOwn(n, r) /\ ~Known(seen[n], Key(r))

DropDuplicate(n) ==
    /\ rxq[n] # <<>>
    /\ ~IsOwn(n, Head(rxq[n]))
    /\ Known(seen[n], Key(Head(rxq[n])))
    /\ rxq' = Taken(n)
    /\ UNCHANGED <<seen, replay, nextSeq, log, opened, originated, restarts>>

(* A node that enters a route into its caches before it authenticates it. *)
DropUnopenedRemembering(n) ==
    /\ rxq[n] # <<>>
    /\ IsNew(n, Head(rxq[n]))
    /\ Attempts(n, Head(rxq[n]))
    /\ ~Opens(n, Head(rxq[n]))
    /\ rxq' = Taken(n)
    /\ RememberSeen(n, Head(rxq[n]), "echo")
    /\ UNCHANGED <<replay, nextSeq, opened, originated, restarts>>

(* A node that fills its replay window before it authenticates. *)
DropUnopenedBurning(n) ==
    /\ rxq[n] # <<>>
    /\ IsNew(n, Head(rxq[n]))
    /\ Attempts(n, Head(rxq[n]))
    /\ ~Opens(n, Head(rxq[n]))
    /\ rxq' = Taken(n)
    /\ replay' = [replay EXCEPT ![n] = Remember(@, ReplayKey(Head(rxq[n])), ReplayLimit)]
    /\ opened' = [opened EXCEPT ![n] = Append(@, ReplayKey(Head(rxq[n])))]
    /\ UNCHANGED <<seen, nextSeq, log, originated, restarts>>

(* auth_fail: dropped, and not remembered, so a good copy may still come. *)
DropUnopened(n) ==
    /\ rxq[n] # <<>>
    /\ IsNew(n, Head(rxq[n]))
    /\ Attempts(n, Head(rxq[n]))
    /\ ~Opens(n, Head(rxq[n]))
    /\ rxq' = Taken(n)
    /\ UNCHANGED <<seen, replay, nextSeq, log, opened, originated, restarts>>

(* Authentic, but the replay window has it: "secure replay detected". *)
DropReplayed(n) ==
    /\ rxq[n] # <<>>
    /\ IsNew(n, Head(rxq[n]))
    /\ Attempts(n, Head(rxq[n]))
    /\ Opens(n, Head(rxq[n]))
    /\ Known(replay[n], ReplayKey(Head(rxq[n])))
    /\ rxq' = Taken(n)
    /\ UNCHANGED <<seen, replay, nextSeq, log, opened, originated, restarts>>

(* A replay window that is consulted and never filled. *)
RememberReplayNever(n, r) ==
    /\ replay' = replay
    /\ opened' = IF Attempts(n, r) THEN [opened EXCEPT ![n] = Append(@, ReplayKey(r))] ELSE opened

(* The new replay window, and the history of what passed it. *)
RememberReplay(n, r) ==
    IF Attempts(n, r)
    THEN /\ replay' = [replay EXCEPT ![n] = Remember(@, ReplayKey(r), ReplayLimit)]
         /\ opened' = [opened EXCEPT ![n] = Append(@, ReplayKey(r))]
    ELSE UNCHANGED <<replay, opened>>

(* A relay that never looks at the ttl. *)
MayForwardAlways(r) == TRUE

MayForward(r) == r.ttl > 0

(***************************************************************************)
(* The rest of the handler: deliver or relay (log, local tap and HTTP      *)
(* upload are its outputs), then transmit the decremented route.           *)
(***************************************************************************)
Accept(n) ==
    /\ rxq[n] # <<>>
    /\ LET r == Head(rxq[n])
       IN  /\ IsNew(n, r)
           /\ Attempts(n, r) => Opens(n, r) /\ ~Known(replay[n], ReplayKey(r))
           /\ RememberReplay(n, r)
           /\ RememberSeen(n, r, "accepted")
           /\ IF MayForward(r)
              THEN \E R \in Hearers(n) : rxq' = Air(Taken(n), R, Forwarded(n, r))
              ELSE rxq' = Taken(n)
    /\ UNCHANGED <<nextSeq, originated, restarts>>

Receive(n) ==
    \/ DropOwn(n)
    \/ DropDuplicate(n)
    \/ DropUnopened(n)
    \/ DropReplayed(n)
    \/ Accept(n)

(***************************************************************************)
(* The process dies (at any point: all it holds is in memory) and a new    *)
(* one starts: empty caches, a freshly drawn sequence number, a newly      *)
(* opened radio.                                                           *)
(***************************************************************************)
Restart(n) ==
    /\ restarts < MaxRestarts
    /\ restarts' = restarts + 1
    /\ rxq' = [rxq EXCEPT ![n] = <<>>]
    /\ seen' = [seen EXCEPT ![n] = <<>>]
    /\ replay' = [replay EXCEPT ![n] = <<>>]
    /\ \E s \in InitialSeqs : nextSeq' = [nextSeq EXCEPT ![n] = s]
    /\ log' = [log EXCEPT ![n] = <<>>]
    /\ opened' = [opened EXCEPT ![n] = <<>>]
    /\ UNCHANGED originated

Next == \E n \in Nodes : Originate(n) \/ Receive(n) \/ Restart(n)

Spec == Init /\ [][Next]_vars

(* The loop of every node keeps polling its radio. *)
FairSpec == Spec /\ \A n \in Nodes : WF_vars(Receive(n))
-----------------------------------------------------------------------------
(* Properties.                                                             *)

(* The type invariant. *)
TypeOK ==
    /\ rxq \in [Nodes -> Seq(Routes)]
    /\ seen \in [Nodes -> Seq(Keys)]
    /\ replay \in [Nodes -> Seq(ReplayKeys)]
    /\ nextSeq \in [Nodes -> Seqs]
    /\ log \in [Nodes -> Seq(LogEntries)]
    /\ opened \in [Nodes -> Seq(ReplayKeys)]
    /\ originated \in Nat
    /\ restarts \in Nat

KeysOf(entries) == [i \in 1..Len(entries) |-> entries[i].key]
LoggedKeys(n) == KeysOf(log[n])

(***************************************************************************)
(* What the two caches hold is exactly the most recent part of what the    *)
(* node has remembered: nothing is evicted early, nothing is kept late.    *)
(***************************************************************************)
CachesHoldNewest ==
    \A n \in Nodes :
        /\ seen[n] = Newest(LoggedKeys(n), SeenLimit)
        /\ replay[n] = Newest(opened[n], ReplayLimit)

(***************************************************************************)
(* Every route under way respects its ttl budget, and a v1 envelope whose  *)
(* associated data still matches was made by a chain of key holders.       *)
(***************************************************************************)
FramesWithinBudget ==
    \A n \in Nodes : \A i \in 1..Len(rxq[n]) :
        LET r == rxq[n][i] IN Dist[r.origin][n] + r.ttl <= Ttl[r.origin] + 1

FramesSealed ==
    \A n \in Nodes : \A i \in 1..Len(rxq[n]) :
        LET r == rxq[n][i]
        IN  r.kind = "data" /\ r.seal.key # NoKey =>
                /\ r.ttl <= r.seal.aadTtl
                /\ r.ttl = r.seal.aadTtl => \A m \in r.trail : MeshKey[m] = r.seal.key

(***************************************************************************)
(* A node handles a route (delivers it, uploads it, forwards it) again     *)
(* only after --seen-limit other routes: however many copies the flood     *)
(* brings, and although echoes of the node's own routes take places in the *)
(* same cache.                                                             *)
(***************************************************************************)
HandledOncePerWindow == \A n \in Nodes : MinGap(LoggedKeys(n), SeenLimit)

(***************************************************************************)
(* A sealed route is opened again only after replay_window other routes    *)
(* were opened, even when the (smaller) seen cache has long forgotten it.  *)
(***************************************************************************)
OpenedOncePerReplayWindow == \A n \in Nodes : MinGap(opened[n], ReplayLimit)

(* The entries among the first j of a log whose route was decrypted. *)
Openings(entries, j) == {i \in 1..j : entries[i].by # NoKey}

(***************************************************************************)
(* The replay window and the seen cache move together: a place in the      *)
(* replay window is taken by accepting a route and by nothing else, so a   *)
(* copy that fails to authenticate cannot shut out the genuine one.  In    *)
(* the histories: the k-th key that was opened is that of the k-th         *)
(* decrypted route of the log, and there are no others.                    *)
(***************************************************************************)
ReplayTakenOnlyByAccept ==
    \A n \in Nodes :
        /\ Len(opened[n]) = Cardinality(Openings(log[n], Len(log[n])))
        /\ \A i \in Openings(log[n], Len(log[n])) :
              LET e == log[n][i]
              IN  opened[n][Cardinality(Openings(log[n], i))]
                  = <<e.by, e.key[1], e.key[2], e.key[3]>>

(***************************************************************************)
(* The ttl is authenticated hop by hop: a node opens a v1 data route only  *)
(* when every node that transmitted it holds the same mesh key.  A relay   *)
(* without the key lowers the ttl and so spoils the copy it forwards.      *)
(***************************************************************************)
OpenedOnlyAlongKeyHolders ==
    \A n \in Nodes : \A i \in 1..Len(log[n]) :
        LET e == log[n][i]
        IN  e.kind = "data" /\ e.by # NoKey => \A m \in e.trail : MeshKey[m] = e.by

(***************************************************************************)
(* ttl is the number of forwards allowed: no node more than ttl + 1 links  *)
(* away from the origin handles the route, whatever loops it took.         *)
(***************************************************************************)
WithinRadius ==
    \A n \in Nodes : \A i \in 1..Len(log[n]) :
        LET o == log[n][i].key[2] IN Dist[o][n] <= Ttl[o] + 1

(***************************************************************************)
(* The inductive invariant of the proofs: the caches are the recent past,  *)
(* the frames under way are within budget and honestly sealed, and so      *)
(* everything in the histories is as the properties above say.             *)
(***************************************************************************)
IndInv ==
    /\ TypeOK
    /\ CachesHoldNewest
    /\ HandledOncePerWindow
    /\ OpenedOncePerReplayWindow
    /\ FramesSealed
    /\ OpenedOnlyAlongKeyHolders
    /\ FramesWithinBudget
    /\ WithinRadius

Accepted(n, key) == \E i \in 1..Len(log[n]) : log[n][i].key = key /\ log[n][i].why = "accepted"

(* The nodes that should handle a route of this kind from o. *)
Audience(o, kind) ==
    {n \in Nodes \ {o} : kind = "data" => MeshKey[n] = MeshKey[o]}

AllCovered ==
    \A o \in Nodes : \A i \in 1..Len(log[o]) :
        log[o][i].why = "sent" =>
            \A n \in Audience(o, log[o][i].kind) : Accepted(n, log[o][i].key)

(***************************************************************************)
(* Without loss, and with a ttl that covers the longest simple path, every *)
(* route is eventually handled by all nodes that can open it, whichever    *)
(* copy arrives first and however many spoiled copies precede it.          *)
(***************************************************************************)
EventuallyCovered == []<>AllCovered

(***************************************************************************)
(* A finite number of originated routes causes a finite number of          *)
(* transmissions, on any topology and with caches too small to recognise   *)
(* the copies.                                                             *)
(***************************************************************************)
StormDies == <>[](\A n \in Nodes : rxq[n] = <<>>)
=============================================================================
