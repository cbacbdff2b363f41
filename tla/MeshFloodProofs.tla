-------------------------- MODULE MeshFloodProofs --------------------------
(***************************************************************************)
(* The safety properties of MeshFlood for every mesh: any nodes, links,    *)
(* keys, cache sizes and bounds that satisfy the assumptions.              *)
(***************************************************************************)
EXTENDS MeshFlood, FifoCacheProofs, FiniteSetTheorems

(* Routed packets have the types they should. *)
LEMMA NewRouteType ==
    ASSUME NEW n \in Nodes, NEW t \in Traffic, NEW s \in Seqs
    PROVE  NewRoute(n, t, s) \in Routes
<1>1. t.kind \in Kinds /\ t.dest \in Nodes \union {Broadcast}
  BY ConfigAssumption
<1>2. Ttl[n] \in Nat /\ MeshKey[n] \in CryptoKeys \union {NoKey} /\ E2EKey[n] \in CryptoKeys \union {NoKey}
  BY ConfigAssumption
<1>3. SealMesh(n, t.kind, Ttl[n]) \in Seals /\ SealE2E(n) \in Seals
  BY <1>2 DEF SealMesh, SealE2E, NoSeal, Seals
<1> QED BY <1>1, <1>2, <1>3 DEF NewRoute, Routes

LEMMA ForwardedType ==
    ASSUME NEW n \in Nodes, NEW r \in Routes, MayForward(r)
    PROVE  Forwarded(n, r) \in Routes
<1>1. r.ttl - 1 \in Nat
  BY DEF MayForward, Routes
<1>2. SealMesh(n, r.kind, r.ttl - 1) \in Seals
  BY <1>1, ConfigAssumption DEF SealMesh, NoSeal, Seals
<1> QED BY <1>1, <1>2 DEF Forwarded, Routes

LEMMA KeyTypes ==
    ASSUME NEW r \in Routes
    PROVE  Key(r) \in Keys /\ ReplayKey(r) \in ReplayKeys
BY DEF Key, ReplayKey, Keys, ReplayKeys, Routes, Seals, Class

LEMMA LogEntryType ==
    ASSUME NEW n \in Nodes, NEW r \in Routes, NEW why \in {"sent", "echo", "accepted"}
    PROVE  LogEntry(n, r, why) \in LogEntries
<1>1. r.seal.key \in CryptoKeys \union {NoKey} /\ r.kind \in Kinds /\ r.trail \in SUBSET Nodes
  BY DEF Routes, Seals
<1> QED BY <1>1, KeyTypes DEF LogEntry, LogEntries

(***************************************************************************)
(* What a transmission puts into the queues: whatever was there, in its    *)
(* place, and perhaps the transmitted route, at nodes that may hear it.    *)
(***************************************************************************)
LEMMA AirElements ==
    ASSUME NEW q \in [Nodes -> Seq(Routes)], NEW R, NEW r \in Routes
    PROVE  /\ Air(q, R, r) \in [Nodes -> Seq(Routes)]
           /\ \A m \in Nodes : \A i \in 1..Len(Air(q, R, r)[m]) :
                 \/ i \in 1..Len(q[m]) /\ Air(q, R, r)[m][i] = q[m][i]
                 \/ m \in R /\ Air(q, R, r)[m][i] = r
BY DEF Air

(* Taking the oldest frame leaves only frames that were there. *)
LEMMA TakenElements ==
    ASSUME rxq \in [Nodes -> Seq(Routes)], NEW n \in Nodes, rxq[n] # <<>>
    PROVE  /\ Taken(n) \in [Nodes -> Seq(Routes)]
           /\ Head(rxq[n]) \in Routes
           /\ Head(rxq[n]) = rxq[n][1] /\ 1 \in 1..Len(rxq[n])
           /\ \A m \in Nodes : \A i \in 1..Len(Taken(n)[m]) :
                 \E j \in 1..Len(rxq[m]) : Taken(n)[m][i] = rxq[m][j]
<1>1. rxq[n] \in Seq(Routes) /\ Len(rxq[n]) \in Nat \ {0}
  OBVIOUS
<1>2. /\ Tail(rxq[n]) \in Seq(Routes)
      /\ Len(Tail(rxq[n])) = Len(rxq[n]) - 1
      /\ \A i \in 1..Len(Tail(rxq[n])) : Tail(rxq[n])[i] = rxq[n][i + 1]
  BY <1>1
<1>3. \A m \in Nodes : Taken(n)[m] = IF m = n THEN Tail(rxq[n]) ELSE rxq[m]
  BY DEF Taken
<1>4. ASSUME NEW m \in Nodes, NEW i \in 1..Len(Taken(n)[m])
      PROVE  \E j \in 1..Len(rxq[m]) : Taken(n)[m][i] = rxq[m][j]
  <2>1. CASE m = n
    <3>1. Taken(n)[m] = Tail(rxq[n])
      BY <1>3, <2>1
    <3>2. i \in 1..Len(Tail(rxq[n]))
      BY <3>1
    <3>3. i + 1 \in 1..Len(rxq[n]) /\ Tail(rxq[n])[i] = rxq[n][i + 1]
      BY <1>1, <1>2, <3>2
    <3> QED BY <2>1, <3>1, <3>3
  <2>2. CASE m # n
    BY <1>3, <1>4, <2>2
  <2> QED BY <2>1, <2>2
<1>5. Taken(n) \in [Nodes -> Seq(Routes)]
  BY <1>2 DEF Taken
<1> QED BY <1>1, <1>4, <1>5

(* remember() on the cache of one node, with its history. *)
LEMMA RememberSeenType ==
    ASSUME TypeOK, NEW n \in Nodes, NEW r \in Routes,
           NEW why \in {"sent", "echo", "accepted"}, RememberSeen(n, r, why)
    PROVE  seen' \in [Nodes -> Seq(Keys)] /\ log' \in [Nodes -> Seq(LogEntries)]
<1>1. seen[n] \in Seq(Keys) /\ log[n] \in Seq(LogEntries)
  BY DEF TypeOK
<1>2. Remember(seen[n], Key(r), SeenLimit) \in Seq(Keys)
  BY <1>1, KeyTypes, RememberType, LimitAssumption
<1>3. Append(log[n], LogEntry(n, r, why)) \in Seq(LogEntries)
  BY <1>1, LogEntryType
<1> QED BY <1>2, <1>3 DEF RememberSeen, TypeOK

LEMMA RememberReplayType ==
    ASSUME TypeOK, NEW n \in Nodes, NEW r \in Routes, RememberReplay(n, r)
    PROVE  replay' \in [Nodes -> Seq(ReplayKeys)] /\ opened' \in [Nodes -> Seq(ReplayKeys)]
<1>1. replay[n] \in Seq(ReplayKeys) /\ opened[n] \in Seq(ReplayKeys)
  BY DEF TypeOK
<1>2. Remember(replay[n], ReplayKey(r), ReplayLimit) \in Seq(ReplayKeys)
  BY <1>1, KeyTypes, RememberType, LimitAssumption
<1>3. Append(opened[n], ReplayKey(r)) \in Seq(ReplayKeys)
  BY <1>1, KeyTypes
<1> QED BY <1>2, <1>3 DEF RememberReplay, TypeOK

-----------------------------------------------------------------------------
(* Type correctness of every step. *)
LEMMA TypeStep ==
    ASSUME TypeOK, [Next]_vars
    PROVE  TypeOK'
<1>1. ASSUME NEW n \in Nodes, Originate(n)
      PROVE  TypeOK'
  <2>1. PICK t \in Traffic, R \in Hearers(n) :
           /\ rxq' = Air(rxq, R, NewRoute(n, t, nextSeq[n]))
           /\ RememberSeen(n, NewRoute(n, t, nextSeq[n]), "sent")
    BY <1>1 DEF Originate
  <2>2. NewRoute(n, t, nextSeq[n]) \in Routes
    BY NewRouteType DEF TypeOK
  <2>3. rxq' \in [Nodes -> Seq(Routes)]
    BY <2>1, <2>2, AirElements DEF TypeOK
  <2>4. seen' \in [Nodes -> Seq(Keys)] /\ log' \in [Nodes -> Seq(LogEntries)]
    BY <2>1, <2>2, RememberSeenType
  <2>5. NextSeq(nextSeq[n]) \in Seqs
    BY LimitAssumption DEF TypeOK, NextSeq, Seqs
  <2>6. nextSeq' \in [Nodes -> Seqs] /\ originated' \in Nat
    BY <1>1, <2>5 DEF Originate, TypeOK
  <2>7. UNCHANGED <<replay, opened, restarts>>
    BY <1>1 DEF Originate
  <2> QED BY <2>3, <2>4, <2>6, <2>7 DEF TypeOK
<1>2. ASSUME NEW n \in Nodes, DropOwn(n)
      PROVE  TypeOK'
  <2>1. Taken(n) \in [Nodes -> Seq(Routes)] /\ Head(rxq[n]) \in Routes
    BY <1>2, TakenElements DEF DropOwn, TypeOK
  <2>2. seen' \in [Nodes -> Seq(Keys)] /\ log' \in [Nodes -> Seq(LogEntries)]
    BY <1>2, <2>1, RememberSeenType DEF DropOwn
  <2> QED BY <1>2, <2>1, <2>2 DEF DropOwn, TypeOK
<1>3. ASSUME NEW n \in Nodes, DropDuplicate(n) \/ DropUnopened(n) \/ DropReplayed(n)
      PROVE  TypeOK'
  <2>1. Taken(n) \in [Nodes -> Seq(Routes)]
    BY <1>3, TakenElements DEF DropDuplicate, DropUnopened, DropReplayed, TypeOK
  <2> QED BY <1>3, <2>1 DEF DropDuplicate, DropUnopened, DropReplayed, TypeOK
<1>4. ASSUME NEW n \in Nodes, Accept(n)
      PROVE  TypeOK'
  <2> DEFINE r == Head(rxq[n])
  <2>1. Taken(n) \in [Nodes -> Seq(Routes)] /\ r \in Routes
    BY <1>4, TakenElements DEF Accept, TypeOK
  <2>2. seen' \in [Nodes -> Seq(Keys)] /\ log' \in [Nodes -> Seq(LogEntries)]
    BY <1>4, <2>1, RememberSeenType DEF Accept
  <2>3. replay' \in [Nodes -> Seq(ReplayKeys)] /\ opened' \in [Nodes -> Seq(ReplayKeys)]
    BY <1>4, <2>1, RememberReplayType DEF Accept
  <2>4. rxq' \in [Nodes -> Seq(Routes)]
    <3>1. CASE MayForward(r)
      <4>1. PICK R \in Hearers(n) : rxq' = Air(Taken(n), R, Forwarded(n, r))
        BY <1>4, <3>1 DEF Accept
      <4> QED BY <4>1, <3>1, <2>1, ForwardedType, AirElements
    <3>2. CASE ~MayForward(r)
      BY <1>4, <3>2, <2>1 DEF Accept
    <3> QED BY <3>1, <3>2
  <2> QED BY <1>4, <2>2, <2>3, <2>4 DEF Accept, TypeOK
<1>5. ASSUME NEW n \in Nodes, Restart(n)
      PROVE  TypeOK'
  BY <1>5, LimitAssumption DEF Restart, TypeOK
<1>6. CASE UNCHANGED vars
  BY <1>6 DEF vars, TypeOK
<1> QED BY <1>1, <1>2, <1>3, <1>4, <1>5, <1>6 DEF Next, Receive

LEMMA TypeInit == Init => TypeOK
BY LimitAssumption DEF Init, TypeOK

(***************************************************************************)
(* Type correctness: whatever is heard, in whatever order, caches hold     *)
(* keys, queues hold routes and sequence numbers stay in 1..MaxSeq.        *)
(***************************************************************************)
THEOREM TypeCorrect == Spec => []TypeOK
<1>1. Init => TypeOK
  BY TypeInit
<1>2. TypeOK /\ [Next]_vars => TypeOK'
  BY TypeStep
<1> QED BY <1>1, <1>2, PTL DEF Spec

-----------------------------------------------------------------------------
(* The caches and their histories. *)

LEMMA KeysOfAppend ==
    ASSUME NEW s \in Seq(LogEntries), NEW e \in LogEntries
    PROVE  KeysOf(s) \in Seq(Keys) /\ KeysOf(Append(s, e)) = Append(KeysOf(s), e.key)
<1>1. \A x \in LogEntries : x.key \in Keys
  BY DEF LogEntries
<1>2. \A i \in 1..Len(s) : s[i] \in LogEntries
  OBVIOUS
<1>3. KeysOf(s) \in Seq(Keys) /\ Len(KeysOf(s)) = Len(s) /\ Len(s) \in Nat
  BY <1>1, <1>2 DEF KeysOf
<1>4. Append(s, e) \in Seq(LogEntries) /\ Len(Append(s, e)) = Len(s) + 1
  OBVIOUS
<1>5. /\ KeysOf(Append(s, e)) \in Seq(Keys)
      /\ Len(KeysOf(Append(s, e))) = Len(s) + 1
  BY <1>1, <1>4 DEF KeysOf
<1>6. /\ Append(KeysOf(s), e.key) \in Seq(Keys)
      /\ Len(Append(KeysOf(s), e.key)) = Len(s) + 1
  BY <1>1, <1>3
<1>7. ASSUME NEW i \in 1..Len(s) + 1
      PROVE  KeysOf(Append(s, e))[i] = Append(KeysOf(s), e.key)[i]
  <2>1. CASE i \in 1..Len(s)
    BY <2>1, <1>3, <1>4 DEF KeysOf
  <2>2. CASE i = Len(s) + 1
    BY <2>2, <1>3, <1>4 DEF KeysOf
  <2> QED BY <2>1, <2>2, <1>3
<1> QED BY <1>3, <1>5, <1>6, <1>7

(* One remember(): the seen cache stays the newest part, gaps stay wide. *)
LEMMA RememberSeenStep ==
    ASSUME TypeOK, NEW n \in Nodes, NEW r \in Routes,
           NEW why \in {"sent", "echo", "accepted"}, RememberSeen(n, r, why),
           NEW m \in Nodes,
           seen[m] = Newest(LoggedKeys(m), SeenLimit),
           MinGap(LoggedKeys(m), SeenLimit)
    PROVE  /\ seen'[m] = Newest(LoggedKeys(m)', SeenLimit)
           /\ MinGap(LoggedKeys(m)', SeenLimit)
<1>1. CASE Known(seen[n], Key(r)) \/ m # n
  <2>1. seen'[m] = seen[m] /\ log'[m] = log[m]
    BY <1>1 DEF RememberSeen, Remember, TypeOK
  <2> QED BY <2>1 DEF LoggedKeys
<1>2. CASE ~Known(seen[n], Key(r)) /\ m = n
  <2>1. log[n] \in Seq(LogEntries) /\ LogEntry(n, r, why) \in LogEntries
    BY LogEntryType DEF TypeOK
  <2>2. log'[n] = Append(log[n], LogEntry(n, r, why))
    BY <1>2 DEF RememberSeen, TypeOK
  <2>3. LogEntry(n, r, why).key = Key(r)
    BY DEF LogEntry
  <2>4. LoggedKeys(n) \in Seq(Keys) /\ LoggedKeys(n)' = Append(LoggedKeys(n), Key(r))
    BY <2>1, <2>2, <2>3, KeysOfAppend DEF LoggedKeys
  <2>5. seen'[n] = Newest(Append(seen[n], Key(r)), SeenLimit)
    BY <1>2 DEF RememberSeen, Remember, TypeOK
  <2>6. seen'[n] = Newest(LoggedKeys(n)', SeenLimit)
    BY <1>2, <2>4, <2>5, NewestAppend, KeyTypes, LimitAssumption
  <2>7. MinGap(LoggedKeys(n)', SeenLimit)
    BY <1>2, <2>4, MinGapAppend, KeyTypes, LimitAssumption
  <2> QED BY <1>2, <2>6, <2>7
<1> QED BY <1>1, <1>2

(* The same for the replay window, which only new keys ever reach. *)
LEMMA RememberReplayStep ==
    ASSUME TypeOK, NEW n \in Nodes, NEW r \in Routes, RememberReplay(n, r),
           Attempts(n, r) => ~Known(replay[n], ReplayKey(r)),
           NEW m \in Nodes,
           replay[m] = Newest(opened[m], ReplayLimit),
           MinGap(opened[m], ReplayLimit)
    PROVE  /\ replay'[m] = Newest(opened'[m], ReplayLimit)
           /\ MinGap(opened'[m], ReplayLimit)
<1>1. CASE ~Attempts(n, r) \/ m # n
  <2>1. replay'[m] = replay[m] /\ opened'[m] = opened[m]
    BY <1>1 DEF RememberReplay, TypeOK
  <2> QED BY <2>1
<1>2. CASE Attempts(n, r) /\ m = n
  <2>1. opened[n] \in Seq(ReplayKeys) /\ ReplayKey(r) \in ReplayKeys
    BY KeyTypes DEF TypeOK
  <2>2. opened'[n] = Append(opened[n], ReplayKey(r))
    BY <1>2 DEF RememberReplay, TypeOK
  <2>3. replay'[n] = Newest(Append(replay[n], ReplayKey(r)), ReplayLimit)
    BY <1>2 DEF RememberReplay, Remember, TypeOK
  <2>4. replay'[n] = Newest(opened'[n], ReplayLimit)
    BY <1>2, <2>1, <2>2, <2>3, NewestAppend, LimitAssumption
  <2>5. MinGap(opened'[n], ReplayLimit)
    BY <1>2, <2>1, <2>2, MinGapAppend, LimitAssumption
  <2> QED BY <1>2, <2>4, <2>5
<1> QED BY <1>1, <1>2

DedupeInv == CachesHoldNewest /\ HandledOncePerWindow /\ OpenedOncePerReplayWindow

(* A started process: nothing remembered, nothing to compare. *)
LEMMA EmptyHistory ==
    /\ KeysOf(<<>>) = <<>>
    /\ \A limit \in Nat : Newest(<<>>, limit) = <<>> /\ MinGap(<<>>, limit)
BY DEF KeysOf, Newest, MinGap

LEMMA DedupeInit == Init => DedupeInv
<1> SUFFICES ASSUME Init PROVE DedupeInv
  OBVIOUS
<1>1. SeenLimit \in Nat /\ ReplayLimit \in Nat
  BY LimitAssumption
<1> QED BY <1>1, EmptyHistory
     DEF Init, DedupeInv, CachesHoldNewest, HandledOncePerWindow, OpenedOncePerReplayWindow, LoggedKeys

(* The same, for one node. *)
CachesOK(m) ==
    /\ seen[m] = Newest(LoggedKeys(m), SeenLimit) /\ MinGap(LoggedKeys(m), SeenLimit)
    /\ replay[m] = Newest(opened[m], ReplayLimit) /\ MinGap(opened[m], ReplayLimit)

LEMMA RestartStep ==
    ASSUME TypeOK, NEW n \in Nodes, Restart(n), NEW m \in Nodes, CachesOK(m)
    PROVE  CachesOK(m)'
<1>1. CASE m = n
  <2>1. seen'[m] = <<>> /\ log'[m] = <<>>
    BY <1>1 DEF Restart, TypeOK
  <2>2. replay'[m] = <<>> /\ opened'[m] = <<>>
    BY <1>1 DEF Restart, TypeOK
  <2>3. LoggedKeys(m)' = <<>>
    BY <2>1, EmptyHistory DEF LoggedKeys
  <2>4. /\ Newest(<<>>, SeenLimit) = <<>> /\ MinGap(<<>>, SeenLimit)
        /\ Newest(<<>>, ReplayLimit) = <<>> /\ MinGap(<<>>, ReplayLimit)
    BY LimitAssumption, EmptyHistory
  <2> QED BY <2>1, <2>2, <2>3, <2>4 DEF CachesOK
<1>2. CASE m # n
  <2>1. seen'[m] = seen[m] /\ log'[m] = log[m]
    BY <1>2 DEF Restart, TypeOK
  <2>2. replay'[m] = replay[m] /\ opened'[m] = opened[m]
    BY <1>2 DEF Restart, TypeOK
  <2>3. LoggedKeys(m)' = LoggedKeys(m)
    BY <2>1 DEF LoggedKeys
  <2> QED BY <2>1, <2>2, <2>3 DEF CachesOK
<1> QED BY <1>1, <1>2

LEMMA DedupeStep ==
    ASSUME TypeOK, DedupeInv, [Next]_vars
    PROVE  DedupeInv'
<1> USE DEF DedupeInv, CachesHoldNewest, HandledOncePerWindow, OpenedOncePerReplayWindow
<1>1. ASSUME NEW n \in Nodes, Originate(n)
      PROVE  DedupeInv'
  <2>1. PICK t \in Traffic : RememberSeen(n, NewRoute(n, t, nextSeq[n]), "sent")
    BY <1>1 DEF Originate
  <2>2. NewRoute(n, t, nextSeq[n]) \in Routes
    BY NewRouteType DEF TypeOK
  <2>3. UNCHANGED <<replay, opened>>
    BY <1>1 DEF Originate
  <2>4. \A m \in Nodes : seen'[m] = Newest(LoggedKeys(m)', SeenLimit)
                       /\ MinGap(LoggedKeys(m)', SeenLimit)
    BY <2>1, <2>2, RememberSeenStep
  <2> QED BY <2>3, <2>4
<1>2. ASSUME NEW n \in Nodes, DropOwn(n)
      PROVE  DedupeInv'
  <2>1. Head(rxq[n]) \in Routes
    BY <1>2, TakenElements DEF DropOwn, TypeOK
  <2>2. UNCHANGED <<replay, opened>> /\ RememberSeen(n, Head(rxq[n]), "echo")
    BY <1>2 DEF DropOwn
  <2>3. \A m \in Nodes : seen'[m] = Newest(LoggedKeys(m)', SeenLimit)
                       /\ MinGap(LoggedKeys(m)', SeenLimit)
    BY <2>1, <2>2, RememberSeenStep
  <2> QED BY <2>2, <2>3
<1>3. ASSUME NEW n \in Nodes, DropDuplicate(n) \/ DropUnopened(n) \/ DropReplayed(n)
      PROVE  DedupeInv'
  BY <1>3 DEF DropDuplicate, DropUnopened, DropReplayed, LoggedKeys
<1>4. ASSUME NEW n \in Nodes, Accept(n)
      PROVE  DedupeInv'
  <2>1. Head(rxq[n]) \in Routes
    BY <1>4, TakenElements DEF Accept, TypeOK
  <2>2. /\ RememberSeen(n, Head(rxq[n]), "accepted")
        /\ RememberReplay(n, Head(rxq[n]))
        /\ Attempts(n, Head(rxq[n])) => ~Known(replay[n], ReplayKey(Head(rxq[n])))
    BY <1>4 DEF Accept
  <2>3. \A m \in Nodes : seen'[m] = Newest(LoggedKeys(m)', SeenLimit)
                       /\ MinGap(LoggedKeys(m)', SeenLimit)
    BY <2>1, <2>2, RememberSeenStep
  <2>4. \A m \in Nodes : replay'[m] = Newest(opened'[m], ReplayLimit)
                       /\ MinGap(opened'[m], ReplayLimit)
    BY <2>1, <2>2, RememberReplayStep
  <2> QED BY <2>3, <2>4
<1>5. ASSUME NEW n \in Nodes, Restart(n)
      PROVE  DedupeInv'
  <2>1. \A m \in Nodes : CachesOK(m) => CachesOK(m)'
    BY <1>5, RestartStep
  <2> QED BY <2>1 DEF CachesOK
<1>6. CASE UNCHANGED vars
  BY <1>6 DEF vars, LoggedKeys
<1> QED BY <1>1, <1>2, <1>3, <1>4, <1>5, <1>6 DEF Next, Receive

(***************************************************************************)
(* A node handles a route again only after --seen-limit other routes, and  *)
(* opens one again only after replay_window other openings: in every mesh, *)
(* under every loss, reordering and restart.                               *)
(***************************************************************************)
THEOREM DedupeCorrect ==
    Spec => [](CachesHoldNewest /\ HandledOncePerWindow /\ OpenedOncePerReplayWindow)
<1>1. Init => TypeOK /\ DedupeInv
  BY TypeInit, DedupeInit
<1>2. TypeOK /\ DedupeInv /\ [Next]_vars => TypeOK' /\ DedupeInv'
  BY TypeStep, DedupeStep
<1>3. DedupeInv => CachesHoldNewest /\ HandledOncePerWindow /\ OpenedOncePerReplayWindow
  BY DEF DedupeInv
<1> QED BY <1>1, <1>2, <1>3, PTL DEF Spec

(* The part of it that is about the replay window. *)
THEOREM OpenedOnce == Spec => []OpenedOncePerReplayWindow
BY DedupeCorrect, PTL

-----------------------------------------------------------------------------
(* The replay window beside the log. *)

(* How many of the first j entries were decrypted is a number up to j. *)
LEMMA OpeningsCount ==
    ASSUME NEW entries, NEW j \in Nat
    PROVE  /\ IsFiniteSet(Openings(entries, j))
           /\ Cardinality(Openings(entries, j)) \in Nat
           /\ \A i \in Openings(entries, j) :
                 Cardinality(Openings(entries, i)) \in 1..Cardinality(Openings(entries, j))
<1>1. ASSUME NEW k \in Nat
      PROVE  IsFiniteSet(Openings(entries, k)) /\ Cardinality(Openings(entries, k)) \in Nat
  <2>1. IsFiniteSet(1..k)
    BY FS_Interval
  <2>2. Openings(entries, k) \subseteq 1..k
    BY DEF Openings
  <2> QED BY <2>1, <2>2, FS_Subset, FS_CardinalityType
<1>2. ASSUME NEW i \in Openings(entries, j)
      PROVE  Cardinality(Openings(entries, i)) \in 1..Cardinality(Openings(entries, j))
  <2>1. i \in 1..j /\ i \in Openings(entries, i) /\ i \in Nat
    BY DEF Openings
  <2>2. Openings(entries, i) \subseteq Openings(entries, j)
    BY <2>1 DEF Openings
  <2>3. Cardinality(Openings(entries, i)) <= Cardinality(Openings(entries, j))
    BY <1>1, <2>2, FS_Subset
  <2>4. Cardinality(Openings(entries, i)) # 0
    BY <1>1, <2>1, FS_EmptySet
  <2> QED BY <1>1, <2>1, <2>3, <2>4
<1> QED BY <1>1, <1>2

(* One more entry: earlier counts stay, and it counts if it was decrypted. *)
LEMMA OpeningsAppend ==
    ASSUME NEW s \in Seq(LogEntries), NEW e \in LogEntries
    PROVE  /\ \A j \in 0..Len(s) : Openings(Append(s, e), j) = Openings(s, j)
           /\ Openings(Append(s, e), Len(s) + 1)
              = Openings(s, Len(s)) \union (IF e.by # NoKey THEN {Len(s) + 1} ELSE {})
<1> DEFINE b == Append(s, e)
           n == Len(s)
<1>1. n \in Nat /\ (\A i \in 1..n : b[i] = s[i]) /\ b[n + 1] = e
  OBVIOUS
<1> HIDE DEF b, n
<1>2. \A j \in 0..n : Openings(b, j) = Openings(s, j)
  BY <1>1 DEF Openings
<1>3. 1..(n + 1) = (1..n) \union {n + 1}
  BY <1>1
<1>4. Openings(b, n + 1) = Openings(s, n) \union (IF e.by # NoKey THEN {n + 1} ELSE {})
  BY <1>1, <1>3 DEF Openings
<1> QED BY <1>2, <1>4 DEF b, n

(* The property for one node, with the histories as parameters. *)
Aligned(keys, entries) ==
    /\ Len(keys) = Cardinality(Openings(entries, Len(entries)))
    /\ \A i \in Openings(entries, Len(entries)) :
          keys[Cardinality(Openings(entries, i))]
          = <<entries[i].by, entries[i].key[1], entries[i].key[2], entries[i].key[3]>>

LEMMA AlignedEmpty == Aligned(<<>>, <<>>)
<1>1. Openings(<<>>, 0) = {}
  BY DEF Openings
<1> QED BY <1>1, FS_EmptySet DEF Aligned

(* An entry that was not decrypted leaves the two aligned ... *)
LEMMA AlignedOther ==
    ASSUME NEW keys, NEW s \in Seq(LogEntries), NEW e \in LogEntries, e.by = NoKey,
           Aligned(keys, s)
    PROVE  Aligned(keys, Append(s, e))
<1> DEFINE b == Append(s, e)
           n == Len(s)
<1>1. n \in Nat /\ Len(b) = n + 1 /\ \A i \in 1..n : b[i] = s[i]
  OBVIOUS
<1>2. /\ \A j \in 0..n : Openings(b, j) = Openings(s, j)
      /\ Openings(b, n + 1) = Openings(s, n)
  BY OpeningsAppend
<1>3. Openings(s, n) \subseteq 1..n /\ 1..n \subseteq 0..n
  BY <1>1 DEF Openings
<1> HIDE DEF b, n
<1> QED BY <1>1, <1>2, <1>3 DEF Aligned, b, n

(* ... and one that was, if its key is appended with it. *)
LEMMA AlignedOpened ==
    ASSUME NEW K, NEW keys \in Seq(K), NEW s \in Seq(LogEntries), NEW e \in LogEntries,
           e.by # NoKey, Aligned(keys, s),
           NEW k \in K, k = <<e.by, e.key[1], e.key[2], e.key[3]>>
    PROVE  Aligned(Append(keys, k), Append(s, e))
<1> DEFINE b == Append(s, e)
           a == Append(keys, k)
           n == Len(s)
           c(i) == Cardinality(Openings(b, i))
           m == Cardinality(Openings(s, n))
<1>1. /\ n \in Nat /\ Len(b) = n + 1 /\ b[n + 1] = e /\ \A i \in 1..n : b[i] = s[i]
      /\ Len(a) = Len(keys) + 1 /\ a[Len(keys) + 1] = k
      /\ \A i \in 1..Len(keys) : a[i] = keys[i]
  OBVIOUS
<1>2. /\ \A j \in 0..n : Openings(b, j) = Openings(s, j)
      /\ Openings(b, n + 1) = Openings(s, n) \union {n + 1}
  BY OpeningsAppend
<1>3. n + 1 \notin Openings(s, n) /\ Openings(s, n) \subseteq 1..n /\ 1..n \subseteq 0..n
  BY <1>1 DEF Openings
<1>4. /\ IsFiniteSet(Openings(s, n)) /\ m \in Nat
      /\ \A i \in Openings(s, n) : Cardinality(Openings(s, i)) \in 1..m
  BY <1>1, OpeningsCount
<1>5. c(n + 1) = m + 1
  <2>1. Cardinality(Openings(s, n) \union {n + 1}) = m + 1
    BY <1>3, <1>4, FS_AddElement
  <2> QED BY <1>2, <2>1
<1>6. Len(keys) = m
  BY DEF Aligned
<1>7. ASSUME NEW i \in Openings(b, n + 1)
      PROVE  a[c(i)] = <<b[i].by, b[i].key[1], b[i].key[2], b[i].key[3]>>
  <2>1. CASE i = n + 1
    BY <1>1, <1>5, <1>6, <2>1
  <2>2. CASE i \in Openings(s, n)
    <3>1. Openings(b, i) = Openings(s, i) /\ b[i] = s[i]
      BY <1>1, <1>2, <1>3, <2>2
    <3>2. keys[c(i)] = <<s[i].by, s[i].key[1], s[i].key[2], s[i].key[3]>>
      BY <2>2, <3>1 DEF Aligned
    <3>3. a[c(i)] = keys[c(i)]
      BY <1>1, <1>4, <1>6, <2>2, <3>1
    <3> QED BY <3>1, <3>2, <3>3
  <2> QED BY <1>2, <2>1, <2>2
<1> HIDE DEF b, n, a, m
<1> QED BY <1>1, <1>5, <1>6, <1>7 DEF Aligned, b, n, a, m

(* Only accepted routes count as decrypted. *)
LEMMA UndecryptedEntry ==
    ASSUME NEW n \in Nodes, NEW r \in Routes, NEW why \in {"sent", "echo"}
    PROVE  LogEntry(n, r, why).by = NoKey
BY DEF LogEntry

(* A route that opens was sealed with a key. *)
LEMMA OpenedHasKey ==
    ASSUME NEW n \in Nodes, NEW r \in Routes, Attempts(n, r), Opens(n, r)
    PROVE  r.seal.key # NoKey
<1>1. InboundKeys[n] \subseteq CryptoKeys /\ NoKey \notin CryptoKeys
  BY ConfigAssumption
<1>2. r.kind \in Kinds
  BY DEF Routes
<1>3. CASE r.kind = "data"
  BY <1>3 DEF Attempts, Opens
<1>4. CASE r.kind = "sync"
  BY <1>4 DEF Attempts
<1>5. CASE r.kind = "v2"
  BY <1>1, <1>5 DEF Attempts
<1> QED BY <1>2, <1>3, <1>4, <1>5 DEF Kinds

(* remember() of a route that was not decrypted. *)
LEMMA UndecryptedStep ==
    ASSUME TypeOK, NEW n \in Nodes, NEW r \in Routes, NEW why \in {"sent", "echo", "accepted"},
           RememberSeen(n, r, why), LogEntry(n, r, why).by = NoKey, opened' = opened,
           NEW m \in Nodes, Aligned(opened[m], log[m])
    PROVE  Aligned(opened'[m], log'[m])
<1>1. CASE log'[m] = log[m]
  BY <1>1
<1>2. CASE log'[m] # log[m]
  <2>1. m = n /\ log'[n] = Append(log[n], LogEntry(n, r, why))
    BY <1>2 DEF RememberSeen, TypeOK
  <2>2. log[n] \in Seq(LogEntries) /\ LogEntry(n, r, why) \in LogEntries
    BY LogEntryType DEF TypeOK
  <2> QED BY <2>1, <2>2, AlignedOther
<1> QED BY <1>1, <1>2

LEMMA AlignedStep ==
    ASSUME TypeOK, ReplayTakenOnlyByAccept, [Next]_vars
    PROVE  ReplayTakenOnlyByAccept'
<1>0. \A m \in Nodes : Aligned(opened[m], log[m])
  BY DEF ReplayTakenOnlyByAccept, Aligned
<1> SUFFICES ASSUME NEW m \in Nodes PROVE Aligned(opened'[m], log'[m])
  BY DEF ReplayTakenOnlyByAccept, Aligned
<1>1. ASSUME NEW n \in Nodes, Originate(n)
      PROVE  Aligned(opened'[m], log'[m])
  <2>1. PICK t \in Traffic : RememberSeen(n, NewRoute(n, t, nextSeq[n]), "sent")
    BY <1>1 DEF Originate
  <2>2. NewRoute(n, t, nextSeq[n]) \in Routes /\ opened' = opened
    BY <1>1, NewRouteType DEF Originate, TypeOK
  <2> QED BY <1>0, <2>1, <2>2, UndecryptedEntry, UndecryptedStep
<1>2. ASSUME NEW n \in Nodes, DropOwn(n)
      PROVE  Aligned(opened'[m], log'[m])
  <2>1. Head(rxq[n]) \in Routes /\ opened' = opened /\ RememberSeen(n, Head(rxq[n]), "echo")
    BY <1>2, TakenElements DEF DropOwn, TypeOK
  <2> QED BY <1>0, <2>1, UndecryptedEntry, UndecryptedStep
<1>3. ASSUME NEW n \in Nodes, DropDuplicate(n) \/ DropUnopened(n) \/ DropReplayed(n)
      PROVE  Aligned(opened'[m], log'[m])
  BY <1>0, <1>3 DEF DropDuplicate, DropUnopened, DropReplayed
<1>4. ASSUME NEW n \in Nodes, Accept(n)
      PROVE  Aligned(opened'[m], log'[m])
  <2> DEFINE r == Head(rxq[n])
             e == LogEntry(n, r, "accepted")
  <2>1. /\ r \in Routes
        /\ ~Known(seen[n], Key(r))
        /\ Attempts(n, r) => Opens(n, r)
        /\ RememberReplay(n, r) /\ RememberSeen(n, r, "accepted")
    BY <1>4, TakenElements DEF Accept, IsNew, TypeOK
  <2>2. e \in LogEntries /\ log[n] \in Seq(LogEntries) /\ opened[n] \in Seq(ReplayKeys)
    BY <2>1, LogEntryType DEF TypeOK
  <2>3. CASE ~Attempts(n, r)
    <3>1. opened' = opened /\ e.by = NoKey
      BY <2>1, <2>3 DEF RememberReplay, LogEntry
    <3> QED BY <1>0, <2>1, <3>1, UndecryptedStep
  <2>4. CASE Attempts(n, r) /\ m = n
    <3>1. /\ log'[n] = Append(log[n], e)
          /\ opened'[n] = Append(opened[n], ReplayKey(r))
      BY <2>1, <2>4 DEF RememberReplay, RememberSeen, TypeOK
    <3>2. e.by = r.seal.key /\ e.key = Key(r)
      BY <2>4 DEF LogEntry
    <3>3. e.by # NoKey
      BY <2>1, <2>4, <3>2, OpenedHasKey
    <3>4. ReplayKey(r) = <<e.by, e.key[1], e.key[2], e.key[3]>> /\ ReplayKey(r) \in ReplayKeys
      BY <2>1, <3>2, KeyTypes DEF ReplayKey, Key
    <3> HIDE DEF e
    <3> QED BY <1>0, <2>2, <2>4, <3>1, <3>3, <3>4, AlignedOpened
  <2>5. CASE m # n
    <3>1. opened'[m] = opened[m] /\ log'[m] = log[m]
      BY <2>1, <2>5 DEF RememberReplay, RememberSeen, TypeOK
    <3> QED BY <1>0, <3>1
  <2> QED BY <2>3, <2>4, <2>5
<1>5. ASSUME NEW n \in Nodes, Restart(n)
      PROVE  Aligned(opened'[m], log'[m])
  <2>1. /\ opened'[m] = IF m = n THEN <<>> ELSE opened[m]
        /\ log'[m] = IF m = n THEN <<>> ELSE log[m]
    BY <1>5 DEF Restart, TypeOK
  <2> QED BY <1>0, <2>1, AlignedEmpty
<1>6. CASE UNCHANGED vars
  BY <1>0, <1>6 DEF vars
<1> QED BY <1>1, <1>2, <1>3, <1>4, <1>5, <1>6 DEF Next, Receive

(***************************************************************************)
(* Nothing but the acceptance of a route takes a place in a replay window: *)
(* in every mesh, the keys it was given are those of the decrypted routes  *)
(* of the log, in order.                                                   *)
(***************************************************************************)
THEOREM ReplayFollowsLog == Spec => []ReplayTakenOnlyByAccept
<1>1. Init => TypeOK /\ ReplayTakenOnlyByAccept
  <2>1. Init => \A n \in Nodes : opened[n] = <<>> /\ log[n] = <<>>
    BY DEF Init
  <2> QED BY <2>1, TypeInit, AlignedEmpty DEF ReplayTakenOnlyByAccept, Aligned
<1>2. TypeOK /\ ReplayTakenOnlyByAccept /\ [Next]_vars => TypeOK' /\ ReplayTakenOnlyByAccept'
  BY TypeStep, AlignedStep
<1> QED BY <1>1, <1>2, PTL DEF Spec

-----------------------------------------------------------------------------
(* Frames under way, and what the nodes made of them.                      *)

FrameOK(m, r) ==
    /\ Dist[r.origin][m] + r.ttl <= Ttl[r.origin] + 1
    /\ r.kind = "data" /\ r.seal.key # NoKey =>
          /\ r.ttl <= r.seal.aadTtl
          /\ r.ttl = r.seal.aadTtl => \A x \in r.trail : MeshKey[x] = r.seal.key

EntryOK(m, e) ==
    /\ e.kind = "data" /\ e.by # NoKey => \A x \in e.trail : MeshKey[x] = e.by
    /\ Dist[e.key[2]][m] <= Ttl[e.key[2]] + 1

FramesOK == \A m \in Nodes : \A i \in 1..Len(rxq[m]) : FrameOK(m, rxq[m][i])
EntriesOK == \A m \in Nodes : \A i \in 1..Len(log[m]) : EntryOK(m, log[m][i])

LEMMA Recombined ==
    (FramesOK /\ EntriesOK) <=>
        /\ FramesSealed
        /\ OpenedOnlyAlongKeyHolders
        /\ FramesWithinBudget
        /\ WithinRadius
BY DEF FramesOK, EntriesOK, FrameOK, EntryOK, FramesSealed,
       OpenedOnlyAlongKeyHolders, FramesWithinBudget, WithinRadius

(* Only neighbours hear a transmission. *)
LEMMA HearersAreNeighbours ==
    ASSUME NEW n \in Nodes, NEW R \in Hearers(n), NEW m \in R
    PROVE  m \in Links[n] /\ m \in Nodes
BY ConfigAssumption DEF Hearers

(* A route is in order when its origin transmits it. *)
LEMMA NewRouteOK ==
    ASSUME NEW n \in Nodes, NEW t \in Traffic, NEW s \in Seqs, NEW m \in Links[n]
    PROVE  FrameOK(m, NewRoute(n, t, s))
<1> DEFINE r == NewRoute(n, t, s)
<1>1. m \in Nodes /\ Dist[n][m] \in Nat /\ Dist[n][m] <= 1 /\ Ttl[n] \in Nat
  <2>1. m \in Nodes /\ Ttl[n] \in Nat
    BY ConfigAssumption
  <2>2. Dist[n][m] <= Dist[n][n] + 1 /\ Dist[n][n] = 0 /\ Dist[n][m] \in Nat
    BY <2>1, DistAssumption
  <2> QED BY <2>1, <2>2
<1>2. r.origin = n /\ r.ttl = Ttl[n] /\ r.kind = t.kind /\ r.trail = {n}
  BY DEF NewRoute
<1>3. Dist[r.origin][m] + r.ttl <= Ttl[r.origin] + 1
  BY <1>1, <1>2
<1>4. ASSUME r.kind = "data", r.seal.key # NoKey
      PROVE  r.seal = [key |-> MeshKey[n], aadTtl |-> Ttl[n]]
  BY <1>4, <1>2 DEF NewRoute, SealMesh, NoSeal
<1> QED BY <1>1, <1>2, <1>3, <1>4 DEF FrameOK

(* It stays in order over one more hop. *)
LEMMA ForwardedOK ==
    ASSUME NEW n \in Nodes, NEW r \in Routes, MayForward(r), FrameOK(n, r),
           Attempts(n, r) => Opens(n, r), NEW m \in Links[n]
    PROVE  FrameOK(m, Forwarded(n, r))
<1> DEFINE f == Forwarded(n, r)
<1>1. /\ f.origin = r.origin /\ f.kind = r.kind /\ f.ttl = r.ttl - 1
      /\ f.trail = r.trail \union {n}
      /\ f.seal = IF r.kind = "data" /\ MeshKey[n] # NoKey
                  THEN SealMesh(n, r.kind, r.ttl - 1) ELSE r.seal
  BY DEF Forwarded, Routes
<1>2. /\ r.origin \in Nodes /\ r.ttl \in Nat /\ r.ttl > 0 /\ r.trail \in SUBSET Nodes
      /\ r.seal.aadTtl \in Nat
  BY DEF MayForward, Routes, Seals
<1>3. Dist[f.origin][m] + f.ttl <= Ttl[f.origin] + 1
  <2>1. m \in Nodes /\ Ttl[r.origin] \in Nat
    BY <1>2, ConfigAssumption
  <2>2. /\ Dist[r.origin][m] <= Dist[r.origin][n] + 1
        /\ Dist[r.origin][m] \in Nat /\ Dist[r.origin][n] \in Nat
    BY <1>2, <2>1, DistAssumption
  <2>3. Dist[r.origin][n] + r.ttl <= Ttl[r.origin] + 1
    BY DEF FrameOK
  <2> QED BY <1>1, <1>2, <2>1, <2>2, <2>3
<1>4. ASSUME f.kind = "data", f.seal.key # NoKey
      PROVE  /\ f.ttl <= f.seal.aadTtl
             /\ f.ttl = f.seal.aadTtl => \A x \in f.trail : MeshKey[x] = f.seal.key
  <2>1. CASE MeshKey[n] = NoKey
    <3>1. f.seal = r.seal /\ r.kind = "data" /\ r.seal.key # NoKey
      BY <1>1, <1>4, <2>1
    <3>2. r.ttl <= r.seal.aadTtl
      BY <3>1 DEF FrameOK
    <3>3. f.ttl < f.seal.aadTtl
      BY <1>1, <1>2, <3>1, <3>2
    <3> QED BY <1>1, <1>2, <3>1, <3>3
  <2>2. CASE MeshKey[n] # NoKey
    <3>1. r.kind = "data" /\ f.seal = [key |-> MeshKey[n], aadTtl |-> r.ttl - 1]
      BY <1>1, <1>4, <2>2 DEF SealMesh
    <3>2. r.seal = [key |-> MeshKey[n], aadTtl |-> r.ttl]
      BY <3>1, <2>2 DEF Attempts, Opens
    <3>3. \A x \in r.trail : MeshKey[x] = MeshKey[n]
      BY <3>1, <3>2, <2>2 DEF FrameOK
    <3> QED BY <1>1, <1>2, <3>1, <3>3
  <2> QED BY <2>1, <2>2
<1> QED BY <1>3, <1>4 DEF FrameOK

(* What a transmission adds to the queues is in order. *)
LEMMA AirOK ==
    ASSUME NEW n \in Nodes, NEW q \in [Nodes -> Seq(Routes)], NEW R \in Hearers(n),
           NEW r \in Routes, rxq' = Air(q, R, r),
           \A m \in Nodes : \A i \in 1..Len(q[m]) : FrameOK(m, q[m][i]),
           \A m \in Links[n] : FrameOK(m, r)
    PROVE  FramesOK'
<1> SUFFICES ASSUME NEW m \in Nodes, NEW i \in 1..Len(rxq'[m])
             PROVE  FrameOK(m, rxq'[m][i])
  BY DEF FramesOK, FrameOK
<1>1. \/ i \in 1..Len(q[m]) /\ rxq'[m][i] = q[m][i]
      \/ m \in R /\ rxq'[m][i] = r
  BY AirElements
<1> QED BY <1>1, HearersAreNeighbours

(* Frames left after taking one are still in order. *)
LEMMA TakenOK ==
    ASSUME TypeOK, FramesOK, NEW n \in Nodes, rxq[n] # <<>>
    PROVE  /\ \A m \in Nodes : \A i \in 1..Len(Taken(n)[m]) : FrameOK(m, Taken(n)[m][i])
           /\ FrameOK(n, Head(rxq[n]))
<1>1. rxq \in [Nodes -> Seq(Routes)]
  BY DEF TypeOK
<1>2. \A m \in Nodes : \A i \in 1..Len(Taken(n)[m]) :
         \E j \in 1..Len(rxq[m]) : Taken(n)[m][i] = rxq[m][j]
  BY <1>1, TakenElements
<1>3. Head(rxq[n]) = rxq[n][1] /\ 1 \in 1..Len(rxq[n])
  BY <1>1, TakenElements
<1> QED BY <1>2, <1>3 DEF FramesOK

(* A new entry of the history is in order if the route it records is. *)
LEMMA RememberedOK ==
    ASSUME TypeOK, EntriesOK, NEW n \in Nodes, NEW r \in Routes,
           NEW why \in {"sent", "echo", "accepted"}, RememberSeen(n, r, why),
           EntryOK(n, LogEntry(n, r, why))
    PROVE  EntriesOK'
<1> SUFFICES ASSUME NEW m \in Nodes, NEW i \in 1..Len(log'[m])
             PROVE  EntryOK(m, log'[m][i])
  BY DEF EntriesOK, EntryOK
<1>1. \/ i \in 1..Len(log[m]) /\ log'[m][i] = log[m][i]
      \/ m = n /\ log'[m][i] = LogEntry(n, r, why)
  <2>1. log[n] \in Seq(LogEntries)
    BY DEF TypeOK
  <2> QED BY <2>1 DEF RememberSeen, TypeOK
<1> QED BY <1>1 DEF EntriesOK

(* Entries for a route of one's own. *)
LEMMA OwnEntryOK ==
    ASSUME NEW n \in Nodes, NEW r, r.origin = n, NEW why \in {"sent", "echo"}
    PROVE  EntryOK(n, LogEntry(n, r, why))
<1>1. Dist[n][n] = 0 /\ Ttl[n] \in Nat
  BY ConfigAssumption, DistAssumption
<1> QED BY <1>1 DEF EntryOK, LogEntry, Key

(* Entries for a route that came over the air in order. *)
LEMMA AcceptedEntryOK ==
    ASSUME NEW n \in Nodes, NEW r \in Routes, FrameOK(n, r),
           Attempts(n, r) => Opens(n, r)
    PROVE  EntryOK(n, LogEntry(n, r, "accepted"))
<1> DEFINE e == LogEntry(n, r, "accepted")
<1>1. e.key[2] = r.origin /\ e.kind = r.kind /\ e.trail = r.trail
  BY DEF LogEntry, Key
<1>2. Dist[r.origin][n] <= Ttl[r.origin] + 1
  <2>1. r.origin \in Nodes /\ r.ttl \in Nat
    BY DEF Routes
  <2>2. Dist[r.origin][n] \in Nat /\ Ttl[r.origin] \in Nat
    BY <2>1, ConfigAssumption, DistAssumption
  <2> QED BY <2>1, <2>2 DEF FrameOK
<1>3. ASSUME e.kind = "data", e.by # NoKey
      PROVE  \A x \in e.trail : MeshKey[x] = e.by
  <2>1. Attempts(n, r) /\ e.by = r.seal.key
    BY <1>3 DEF LogEntry
  <2>2. r.seal = [key |-> MeshKey[n], aadTtl |-> r.ttl]
    BY <1>1, <1>3, <2>1 DEF Opens
  <2> QED BY <1>1, <1>3, <2>1, <2>2 DEF FrameOK
<1> QED BY <1>1, <1>2, <1>3 DEF EntryOK

LEMMA FloodInit == Init => FramesOK /\ EntriesOK
BY DEF Init, FramesOK, EntriesOK

LEMMA FloodStep ==
    ASSUME TypeOK, FramesOK, EntriesOK, [Next]_vars
    PROVE  FramesOK' /\ EntriesOK'
<1>1. ASSUME NEW n \in Nodes, Originate(n)
      PROVE  FramesOK' /\ EntriesOK'
  <2>1. PICK t \in Traffic, R \in Hearers(n) :
           /\ rxq' = Air(rxq, R, NewRoute(n, t, nextSeq[n]))
           /\ RememberSeen(n, NewRoute(n, t, nextSeq[n]), "sent")
    BY <1>1 DEF Originate
  <2>2. nextSeq[n] \in Seqs /\ rxq \in [Nodes -> Seq(Routes)]
    BY DEF TypeOK
  <2>3. NewRoute(n, t, nextSeq[n]) \in Routes /\ NewRoute(n, t, nextSeq[n]).origin = n
    BY <2>2, NewRouteType DEF NewRoute
  <2>4. FramesOK'
    BY <2>1, <2>2, <2>3, NewRouteOK, AirOK DEF FramesOK
  <2>5. EntriesOK'
    BY <2>1, <2>3, OwnEntryOK, RememberedOK
  <2> QED BY <2>4, <2>5
<1>2. ASSUME NEW n \in Nodes, DropOwn(n)
      PROVE  FramesOK' /\ EntriesOK'
  <2>1. /\ rxq[n] # <<>> /\ rxq' = Taken(n) /\ Head(rxq[n]).origin = n
        /\ RememberSeen(n, Head(rxq[n]), "echo")
    BY <1>2 DEF DropOwn, IsOwn
  <2>2. Head(rxq[n]) \in Routes
    BY <2>1, TakenElements DEF TypeOK
  <2>3. FramesOK'
    BY <2>1, TakenOK DEF FramesOK
  <2>4. EntriesOK'
    BY <2>1, <2>2, OwnEntryOK, RememberedOK
  <2> QED BY <2>3, <2>4
<1>3. ASSUME NEW n \in Nodes, DropDuplicate(n) \/ DropUnopened(n) \/ DropReplayed(n)
      PROVE  FramesOK' /\ EntriesOK'
  <2>1. rxq[n] # <<>> /\ rxq' = Taken(n) /\ log' = log
    BY <1>3 DEF DropDuplicate, DropUnopened, DropReplayed
  <2>2. FramesOK'
    BY <2>1, TakenOK DEF FramesOK
  <2> QED BY <2>1, <2>2 DEF EntriesOK
<1>4. ASSUME NEW n \in Nodes, Accept(n)
      PROVE  FramesOK' /\ EntriesOK'
  <2> DEFINE r == Head(rxq[n])
  <2>1. /\ rxq[n] # <<>>
        /\ Attempts(n, r) => Opens(n, r)
        /\ RememberSeen(n, r, "accepted")
    BY <1>4 DEF Accept
  <2>2. r \in Routes /\ Taken(n) \in [Nodes -> Seq(Routes)]
    BY <2>1, TakenElements DEF TypeOK
  <2>3. /\ FrameOK(n, r)
        /\ \A m \in Nodes : \A i \in 1..Len(Taken(n)[m]) : FrameOK(m, Taken(n)[m][i])
    BY <2>1, TakenOK
  <2>4. EntriesOK'
    BY <2>1, <2>2, <2>3, AcceptedEntryOK, RememberedOK
  <2>5. CASE MayForward(r)
    <3>1. PICK R \in Hearers(n) : rxq' = Air(Taken(n), R, Forwarded(n, r))
      BY <1>4, <2>5 DEF Accept
    <3>2. Forwarded(n, r) \in Routes
      BY <2>2, <2>5, ForwardedType
    <3>3. \A m \in Links[n] : FrameOK(m, Forwarded(n, r))
      BY <2>1, <2>2, <2>3, <2>5, ForwardedOK
    <3>4. FramesOK'
      BY <3>1, <3>2, <3>3, <2>2, <2>3, AirOK
    <3> QED BY <3>4, <2>4
  <2>6. CASE ~MayForward(r)
    <3>1. rxq' = Taken(n)
      BY <1>4, <2>6 DEF Accept
    <3> QED BY <3>1, <2>3, <2>4 DEF FramesOK
  <2> QED BY <2>5, <2>6
<1>5. ASSUME NEW n \in Nodes, Restart(n)
      PROVE  FramesOK' /\ EntriesOK'
  <2>1. \A m \in Nodes : /\ rxq'[m] = IF m = n THEN <<>> ELSE rxq[m]
                       /\ log'[m] = IF m = n THEN <<>> ELSE log[m]
    BY <1>5 DEF Restart, TypeOK
  <2> QED BY <2>1 DEF FramesOK, EntriesOK
<1>6. CASE UNCHANGED vars
  BY <1>6 DEF vars, FramesOK, EntriesOK
<1> QED BY <1>1, <1>2, <1>3, <1>4, <1>5, <1>6 DEF Next, Receive

(* The inductive invariant holds of every mesh. *)
THEOREM Invariance == Spec => []IndInv
<1>1. Init => TypeOK /\ DedupeInv /\ FramesOK /\ EntriesOK
  BY TypeInit, DedupeInit, FloodInit
<1>2. TypeOK /\ DedupeInv /\ FramesOK /\ EntriesOK /\ [Next]_vars
      => TypeOK' /\ DedupeInv' /\ FramesOK' /\ EntriesOK'
  BY TypeStep, DedupeStep, FloodStep
<1>3. TypeOK /\ DedupeInv /\ FramesOK /\ EntriesOK => IndInv
  BY Recombined DEF DedupeInv, IndInv
<1> QED BY <1>1, <1>2, <1>3, PTL DEF Spec

(***************************************************************************)
(* A v1 data route is opened only if all who transmitted it have the key.  *)
(***************************************************************************)
THEOREM SealedHopByHop == Spec => []OpenedOnlyAlongKeyHolders
<1>1. IndInv => OpenedOnlyAlongKeyHolders
  BY DEF IndInv
<1> QED BY <1>1, Invariance, PTL

(***************************************************************************)
(* No route is handled more than ttl + 1 links from its origin.            *)
(***************************************************************************)
THEOREM RadiusBounded == Spec => []WithinRadius
<1>1. IndInv => WithinRadius
  BY DEF IndInv
<1> QED BY <1>1, Invariance, PTL
=============================================================================
