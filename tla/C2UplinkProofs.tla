--------------------------- MODULE C2UplinkProofs ---------------------------
(***************************************************************************)
(* What the C2 event store guarantees, for every number of threads, nodes  *)
(* and keys and every size of the history; then gateways and C2 server     *)
(* together: the gateways are ordinary clients of the store, and lose      *)
(* nothing in silence.                                                     *)
(***************************************************************************)
EXTENDS C2Uplink, FifoCacheProofs

(***************************************************************************)
(* The event store.                                                        *)
(***************************************************************************)

LEMMA KeyType ==
    ASSUME NEW u \in Uploads
    PROVE  DedupeKey(u) \in DedupeKeys
BY DEF DedupeKey, DedupeKeys, Uploads

LEMMA StoreTypeInit == Init => TypeOK
BY StoreAssumption DEF Init, TypeOK, NoAnswer, Answers

(* A thread that answers is free again. *)
LEMMA ReplyType ==
    ASSUME TypeOK, NEW h \in Handlers, stage[h] # "idle",
           NEW code \in {"bad_request", "stored", "duplicate"}, Reply(h, code)
    PROVE  /\ request' \in [Handlers -> Uploads \union {Nobody}]
           /\ stage' \in [Handlers -> {"idle", "validating", "entering"}]
           /\ \A i \in Handlers : stage'[i] # "idle" => request'[i] \in Uploads
           /\ answer' \in [Handlers -> Answers]
<1>1. [code |-> code, key |-> DedupeKey(request[h])] \in Answers
  BY KeyType DEF Answers, TypeOK
<1>2. /\ answer' = [answer EXCEPT ![h] = [code |-> code, key |-> DedupeKey(request[h])]]
      /\ stage' = [stage EXCEPT ![h] = "idle"]
      /\ request' = [request EXCEPT ![h] = Nobody]
  BY DEF Reply
<1>3. answer' \in [Handlers -> Answers]
  BY <1>1, <1>2 DEF TypeOK
<1> QED BY <1>2, <1>3 DEF TypeOK

LEMMA EnterType ==
    ASSUME TypeOK, NEW u \in Uploads, Enter(u)
    PROVE  /\ seen' \subseteq DedupeKeys
           /\ events' \in Seq(Uploads)
           /\ latest' \in [Origins -> Uploads \union {Nobody}]
           /\ stored' \in Seq(Uploads)
<1>1. Append(events, u) \in Seq(Uploads)
  BY DEF TypeOK
<1>2. MaxEvents \in Nat
  BY StoreAssumption
<1>3. events' \in Seq(Uploads)
  BY <1>1, <1>2, NewestElements DEF Enter
<1>4. u.origin \in Origins
  BY DEF Uploads
<1>5. seen' \subseteq DedupeKeys
  BY KeyType DEF Enter, TypeOK
<1> QED BY <1>3, <1>4, <1>5 DEF Enter, TypeOK

LEMMA StoreTypeStep == TypeOK /\ [Next]_vars => TypeOK'
<1> SUFFICES ASSUME TypeOK, [Next]_vars PROVE TypeOK'
  OBVIOUS
<1>1. ASSUME NEW h \in Handlers, NEW u \in Uploads, Receive(h, u)
      PROVE  TypeOK'
  BY <1>1 DEF Receive, TypeOK, store
<1>2. ASSUME NEW h \in Handlers, Validate(h)
      PROVE  TypeOK'
  <2>1. UNCHANGED <<seen, events, latest, stored, requests, restarts>>
    BY <1>2 DEF Validate, store
  <2>2. CASE Valid(request[h])
    BY <1>2, <2>1, <2>2 DEF Validate, TypeOK
  <2>3. CASE ~Valid(request[h])
    <3>1. Reply(h, "bad_request") /\ stage[h] # "idle"
      BY <1>2, <2>3 DEF Validate
    <3> QED BY <3>1, <2>1, ReplyType DEF TypeOK
  <2> QED BY <2>2, <2>3
<1>3. ASSUME NEW h \in Handlers, Ingest(h)
      PROVE  TypeOK'
  <2>1. stage[h] # "idle" /\ request[h] \in Uploads /\ UNCHANGED <<requests, restarts>>
    BY <1>3 DEF Ingest, TypeOK
  <2>2. CASE DedupeKey(request[h]) \in seen
    <3>1. Reply(h, "duplicate") /\ UNCHANGED <<seen, events, latest, stored>>
      BY <1>3, <2>2 DEF Ingest, store
    <3> QED BY <2>1, <3>1, ReplyType DEF TypeOK
  <2>3. CASE DedupeKey(request[h]) \notin seen
    <3>1. Reply(h, "stored") /\ Enter(request[h])
      BY <1>3, <2>3 DEF Ingest
    <3> QED BY <2>1, <3>1, ReplyType, EnterType DEF TypeOK
  <2> QED BY <2>2, <2>3
<1>4. CASE Restart
  BY <1>4 DEF Restart, TypeOK, NoAnswer, Answers
<1>5. CASE UNCHANGED vars
  BY <1>5 DEF vars, store, TypeOK
<1> QED BY <1>1, <1>2, <1>3, <1>4, <1>5 DEF Next

(***************************************************************************)
(* Type correctness of the store and its threads.                          *)
(***************************************************************************)
THEOREM StoreTypeCorrect == Spec => []TypeOK
BY StoreTypeInit, StoreTypeStep, PTL DEF Spec

-----------------------------------------------------------------------------
(* The history and the deduplication keys. *)

HistoryInv == HistoryIsRecent /\ SeenMatchesEvents /\ StoredOncePerHistory

LEMMA StoredKeysType == TypeOK => StoredKeys \in Seq(DedupeKeys) /\ Len(StoredKeys) = Len(stored)
BY KeyType DEF TypeOK, StoredKeys

(***************************************************************************)
(* An upload whose key is not in `seen` is not among the recent ones.      *)
(***************************************************************************)
LEMMA UnseenIsUnknown ==
    ASSUME TypeOK, HistoryInv, NEW k \in DedupeKeys, k \notin seen
    PROVE  ~Known(Newest(StoredKeys, MaxEvents), k)
<1> DEFINE n == Newest(StoredKeys, MaxEvents)
<1>1. /\ StoredKeys \in Seq(DedupeKeys) /\ Len(StoredKeys) = Len(stored)
      /\ stored \in Seq(Uploads) /\ Len(stored) \in Nat /\ MaxEvents \in Nat
  BY StoredKeysType, StoreAssumption DEF TypeOK
<1>2. /\ Len(n) = IF Len(stored) <= MaxEvents THEN Len(stored) ELSE MaxEvents
      /\ \A d \in Nat : d < Len(n) => n[Len(n) - d] = StoredKeys[Len(stored) - d]
  BY <1>1, NewestElements
<1>3. /\ Len(events) = IF Len(stored) <= MaxEvents THEN Len(stored) ELSE MaxEvents
      /\ \A d \in Nat : d < Len(events) => events[Len(events) - d] = stored[Len(stored) - d]
  BY <1>1, NewestElements DEF HistoryInv, HistoryIsRecent
<1> HIDE DEF n
<1>4. SUFFICES ASSUME NEW i \in 1..Len(n), n[i] = k PROVE FALSE
  BY DEF Known, n
<1>5. /\ Len(n) - i \in Nat /\ Len(n) - i < Len(n) /\ Len(n) - (Len(n) - i) = i
      /\ Len(n) = Len(events) /\ Len(stored) - (Len(n) - i) \in 1..Len(stored)
  BY <1>1, <1>2, <1>3
<1>6. n[i] = StoredKeys[Len(stored) - (Len(n) - i)]
  BY <1>2, <1>5
<1>7. events[i] = stored[Len(stored) - (Len(n) - i)]
  BY <1>3, <1>5
<1>8. StoredKeys[Len(stored) - (Len(n) - i)] = DedupeKey(stored[Len(stored) - (Len(n) - i)])
  BY <1>5 DEF StoredKeys
<1>9. k = DedupeKey(events[i]) /\ i \in 1..Len(events)
  BY <1>4, <1>5, <1>6, <1>7, <1>8
<1> QED BY <1>9 DEF HistoryInv, SeenMatchesEvents

(* No two events in the history have the same key. *)
LEMMA EventKeysDiffer ==
    ASSUME TypeOK, HistoryInv, NEW i \in 1..Len(events), NEW j \in 1..Len(events), i < j
    PROVE  DedupeKey(events[i]) # DedupeKey(events[j])
<1>1. stored \in Seq(Uploads) /\ Len(stored) \in Nat /\ MaxEvents \in Nat
  BY StoreAssumption DEF TypeOK
<1>2. /\ Len(events) = IF Len(stored) <= MaxEvents THEN Len(stored) ELSE MaxEvents
      /\ \A d \in Nat : d < Len(events) => events[Len(events) - d] = stored[Len(stored) - d]
  BY <1>1, NewestElements DEF HistoryInv, HistoryIsRecent
<1> DEFINE a == Len(stored) - (Len(events) - i)
           b == Len(stored) - (Len(events) - j)
<1>3. Len(events) \in Nat /\ Len(events) <= Len(stored) /\ Len(events) <= MaxEvents
  BY <1>1, <1>2
<1>4. /\ Len(events) - i \in Nat /\ Len(events) - i < Len(events)
      /\ Len(events) - j \in Nat /\ Len(events) - j < Len(events)
      /\ Len(events) - (Len(events) - i) = i /\ Len(events) - (Len(events) - j) = j
  BY <1>3
<1>5. events[i] = stored[a] /\ events[j] = stored[b]
  BY <1>2, <1>4
<1>6. a \in 1..Len(stored) /\ b \in 1..Len(stored) /\ a < b /\ b - a = j - i
  BY <1>1, <1>3
<1>7. b - a <= MaxEvents
  <2>1. j - i <= Len(events)
    BY <1>3
  <2> HIDE DEF a, b
  <2> QED BY <2>1, <1>1, <1>3, <1>6
<1> HIDE DEF a, b
<1>8. Len(StoredKeys) = Len(stored)
      /\ StoredKeys[a] = DedupeKey(stored[a]) /\ StoredKeys[b] = DedupeKey(stored[b])
  BY <1>6, StoredKeysType DEF StoredKeys
<1>9. SUFFICES ASSUME StoredKeys[a] = StoredKeys[b] PROVE FALSE
  BY <1>5, <1>8
<1>10. b - a > MaxEvents
  BY <1>6, <1>8, <1>9 DEF HistoryInv, StoredOncePerHistory, MinGap
<1> QED BY <1>1, <1>6, <1>7, <1>10

(***************************************************************************)
(* Eviction forgets exactly the keys of the events it drops: the new list  *)
(* is one longer, or has lost its first event.                             *)
(***************************************************************************)
LEMMA EnterSeen ==
    ASSUME TypeOK, HistoryInv, NEW u \in Uploads, DedupeKey(u) \notin seen, Enter(u)
    PROVE  SeenMatchesEvents'
<1> DEFINE es == Append(events, u)
           n == Len(events)
<1>1. /\ events \in Seq(Uploads) /\ n \in Nat /\ MaxEvents \in Nat \ {0}
      /\ Len(es) = n + 1 /\ es[n + 1] = u /\ \A i \in 1..n : es[i] = events[i]
  BY StoreAssumption DEF TypeOK
<1>2. n <= MaxEvents
  <2>1. /\ stored \in Seq(Uploads)
        /\ n = IF Len(stored) <= MaxEvents THEN Len(stored) ELSE MaxEvents
    BY StoreAssumption, NewestElements DEF TypeOK, HistoryInv, HistoryIsRecent
  <2> QED BY <2>1, <1>1
<1>3. /\ seen' = (seen \union {DedupeKey(u)}) \ {DedupeKey(old) : old \in Evicted(es)}
      /\ events' = Newest(es, MaxEvents)
  BY DEF Enter
<1>4. seen = {DedupeKey(events[i]) : i \in 1..n}
  BY DEF HistoryInv, SeenMatchesEvents
<1>5. CASE n < MaxEvents
  <2>1. Len(es) <= MaxEvents /\ 1..(Len(es) - MaxEvents) = {}
    BY <1>1, <1>5
  <2>2. events' = es /\ Evicted(es) = {}
    BY <1>3, <2>1 DEF Newest, Evicted
  <2>3. seen' = seen \union {DedupeKey(u)}
    BY <1>3, <2>2
  <2>4. {DedupeKey(es[i]) : i \in 1..(n + 1)} = seen \union {DedupeKey(u)}
    <3>1. 1..(n + 1) = (1..n) \union {n + 1}
      BY <1>1
    <3>2. {DedupeKey(es[i]) : i \in 1..n} = seen
      BY <1>1, <1>4
    <3> HIDE DEF es, n
    <3> QED BY <3>1, <3>2, <1>1
  <2> QED BY <2>2, <2>3, <2>4, <1>1 DEF SeenMatchesEvents
<1>6. CASE n = MaxEvents
  <2>1. Len(es) - MaxEvents = 1 /\ ~(Len(es) <= MaxEvents) /\ n >= 1
    BY <1>1, <1>6
  <2>2. 1..(Len(es) - MaxEvents) = {1}
    BY <2>1
  <2>3. Evicted(es) = {es[1]}
    BY <2>2 DEF Evicted
  <2>4. events' = SubSeq(es, 2, n + 1)
    <3>1. Len(es) - MaxEvents + 1 = 2 /\ Len(es) = n + 1
      BY <1>1, <1>6
    <3>2. events' = SubSeq(es, Len(es) - MaxEvents + 1, Len(es))
      BY <1>3, <2>1 DEF Newest
    <3> QED BY <3>1, <3>2
  <2>5. Len(events') = n /\ \A i \in 1..n : events'[i] = es[i + 1]
    BY <1>1, <2>4
  <2>6. seen' = (seen \union {DedupeKey(u)}) \ {DedupeKey(es[1])}
    BY <1>3, <2>3
  <2>7. \A i \in 2..(n + 1) : DedupeKey(es[i]) # DedupeKey(es[1])
    <3> SUFFICES ASSUME NEW i \in 2..(n + 1) PROVE DedupeKey(es[i]) # DedupeKey(es[1])
      OBVIOUS
    <3>1. es[1] = events[1] /\ 1 \in 1..n
      BY <1>1, <2>1
    <3>2. CASE i = n + 1
      <4>1. es[i] = u
        BY <1>1, <3>2
      <4>2. DedupeKey(events[1]) \in seen
        BY <1>4, <3>1
      <4> QED BY <3>1, <4>1, <4>2
    <3>3. CASE i # n + 1
      <4>1. i \in 1..n /\ 1 < i
        BY <3>3, <1>1
      <4>2. es[i] = events[i]
        BY <4>1, <1>1
      <4> QED BY <3>1, <4>1, <4>2, EventKeysDiffer
    <3> QED BY <3>2, <3>3
  <2>8. seen \union {DedupeKey(u)} = {DedupeKey(es[i]) : i \in 1..(n + 1)}
    <3>1. 1..(n + 1) = (1..n) \union {n + 1}
      BY <1>1
    <3>2. {DedupeKey(es[i]) : i \in 1..n} = seen
      BY <1>1, <1>4
    <3> HIDE DEF es, n
    <3> QED BY <3>1, <3>2, <1>1
  <2>9. seen' = {DedupeKey(es[i]) : i \in 2..(n + 1)}
    <3>1. 1..(n + 1) = {1} \union 2..(n + 1)
      BY <1>1
    <3> HIDE DEF es, n
    <3> QED BY <2>6, <2>7, <2>8, <3>1
  <2>10. {DedupeKey(events'[i]) : i \in 1..n} = {DedupeKey(es[i]) : i \in 2..(n + 1)}
    <3>1. \A i \in 1..n : i + 1 \in 2..(n + 1)
      BY <1>1
    <3>2. \A i \in 2..(n + 1) : i - 1 \in 1..n /\ (i - 1) + 1 = i
      BY <1>1
    <3> HIDE DEF es, n
    <3>3. \A i \in 1..n : DedupeKey(events'[i]) = DedupeKey(es[i + 1])
      BY <2>5
    <3>4. ASSUME NEW x \in {DedupeKey(events'[i]) : i \in 1..n}
          PROVE  x \in {DedupeKey(es[i]) : i \in 2..(n + 1)}
      BY <3>1, <3>3
    <3>5. ASSUME NEW x \in {DedupeKey(es[i]) : i \in 2..(n + 1)}
          PROVE  x \in {DedupeKey(events'[i]) : i \in 1..n}
      <4>1. PICK i \in 2..(n + 1) : x = DedupeKey(es[i])
        OBVIOUS
      <4>2. DedupeKey(events'[i - 1]) = x
        BY <4>1, <3>2, <3>3
      <4> QED BY <3>2, <4>2
    <3> QED BY <3>4, <3>5
  <2> QED BY <2>5, <2>9, <2>10 DEF SeenMatchesEvents
<1> QED BY <1>1, <1>2, <1>5, <1>6

LEMMA EnterHistory ==
    ASSUME TypeOK, HistoryInv, NEW u \in Uploads, DedupeKey(u) \notin seen, Enter(u)
    PROVE  HistoryInv'
<1>1. stored \in Seq(Uploads) /\ MaxEvents \in Nat \ {0} /\ stored' = Append(stored, u)
  BY StoreAssumption DEF TypeOK, Enter
<1>2. events' = Newest(stored', MaxEvents)
  BY <1>1, NewestAppend DEF Enter, HistoryInv, HistoryIsRecent
<1>3. DedupeKey(u) \in DedupeKeys /\ StoredKeys \in Seq(DedupeKeys)
  BY KeyType, StoredKeysType
<1>4. ~Known(Newest(StoredKeys, MaxEvents), DedupeKey(u))
  BY <1>3, UnseenIsUnknown
<1>5. MinGap(Append(StoredKeys, DedupeKey(u)), MaxEvents)
  BY <1>1, <1>3, <1>4, MinGapAppend DEF HistoryInv, StoredOncePerHistory
<1>6. StoredKeys' = Append(StoredKeys, DedupeKey(u))
  <2>1. /\ Len(stored') = Len(stored) + 1 /\ Len(stored) \in Nat /\ stored' \in Seq(Uploads)
        /\ \A i \in 1..Len(stored) : stored'[i] = stored[i]
        /\ stored'[Len(stored) + 1] = u
    BY <1>1
  <2>2. /\ \A i \in 1..Len(stored') : StoredKeys'[i] = DedupeKey(stored'[i])
        /\ \A i \in 1..Len(stored) : StoredKeys[i] = DedupeKey(stored[i])
    BY DEF StoredKeys
  <2>3. Len(StoredKeys) = Len(stored)
    BY StoredKeysType
  <2>4. StoredKeys' \in Seq(DedupeKeys) /\ Len(StoredKeys') = Len(stored) + 1
    <3>1. \A i \in 1..Len(stored') : DedupeKey(stored'[i]) \in DedupeKeys
      BY <2>1, KeyType
    <3> QED BY <2>1, <3>1 DEF StoredKeys
  <2>5. /\ Append(StoredKeys, DedupeKey(u)) \in Seq(DedupeKeys)
        /\ Len(Append(StoredKeys, DedupeKey(u))) = Len(stored) + 1
    BY <1>3, <2>3
  <2>6. ASSUME NEW i \in 1..Len(stored) + 1
        PROVE  StoredKeys'[i] = Append(StoredKeys, DedupeKey(u))[i]
    <3>1. CASE i \in 1..Len(stored)
      <4>1. Append(StoredKeys, DedupeKey(u))[i] = StoredKeys[i]
        BY <1>3, <2>3, <3>1
      <4>2. StoredKeys'[i] = DedupeKey(stored'[i])
        BY <2>1, <2>2
      <4>3. StoredKeys[i] = DedupeKey(stored[i]) /\ stored'[i] = stored[i]
        BY <2>1, <2>2, <3>1
      <4> QED BY <4>1, <4>2, <4>3
    <3>2. CASE i = Len(stored) + 1
      <4>1. Append(StoredKeys, DedupeKey(u))[i] = DedupeKey(u)
        BY <1>3, <2>3, <3>2
      <4>2. StoredKeys'[i] = DedupeKey(stored'[i])
        BY <2>1, <2>2
      <4> QED BY <2>1, <3>2, <4>1, <4>2
    <3>3. Len(stored) \in Nat
      BY <2>1
    <3>4. i \in 1..Len(stored) \/ i = Len(stored) + 1
      BY <3>3
    <3> QED BY <3>1, <3>2, <3>4
  <2> QED BY <2>4, <2>5, <2>6
<1> QED BY <1>2, <1>5, <1>6, EnterSeen DEF HistoryInv, HistoryIsRecent, StoredOncePerHistory

-----------------------------------------------------------------------------
(* Rows and answers. *)

LEMMA EnterRow ==
    ASSUME TypeOK, RowIsLastEntered, NEW u \in Uploads, Enter(u)
    PROVE  RowIsLastEntered'
<1>1. /\ stored \in Seq(Uploads) /\ Len(stored) \in Nat /\ Len(stored') = Len(stored) + 1
      /\ \A i \in 1..Len(stored) : stored'[i] = stored[i]
      /\ stored'[Len(stored) + 1] = u
  BY DEF TypeOK, Enter
<1>2. u.origin \in Origins /\ u # Nobody
  BY StoreAssumption DEF Uploads
<1>3. \A o \in Origins : latest'[o] = IF o = u.origin THEN u ELSE latest[o]
  BY <1>2 DEF Enter, TypeOK
<1> SUFFICES ASSUME NEW o \in Origins
             PROVE  /\ latest'[o] = Nobody => \A i \in 1..Len(stored') : stored'[i].origin # o
                    /\ latest'[o] # Nobody =>
                          \E i \in 1..Len(stored') : IsLastOf(i, o)' /\ latest'[o] = stored'[i]
  BY DEF RowIsLastEntered
<1>4. CASE o = u.origin
  <2>1. PICK last \in Nat : last = Len(stored) + 1
    BY <1>1
  <2>2. IsLastOf(last, o)'
    BY <1>1, <1>4, <2>1 DEF IsLastOf
  <2>3. last \in 1..Len(stored') /\ stored'[last] = u /\ latest'[o] = u
    BY <1>1, <1>3, <1>4, <2>1
  <2> QED BY <1>2, <2>2, <2>3
<1>5. CASE o # u.origin
  <2>1. latest'[o] = latest[o]
    BY <1>3, <1>5
  <2>2. \A i \in 1..Len(stored') : stored'[i].origin = o => i \in 1..Len(stored)
    BY <1>1, <1>5
  <2>3. ASSUME latest[o] = Nobody
        PROVE  \A i \in 1..Len(stored') : stored'[i].origin # o
    BY <2>2, <2>3, <1>1 DEF RowIsLastEntered
  <2>4. ASSUME latest[o] # Nobody
        PROVE  \E i \in 1..Len(stored') : IsLastOf(i, o)' /\ latest'[o] = stored'[i]
    <3>1. PICK i \in 1..Len(stored) : IsLastOf(i, o) /\ latest[o] = stored[i]
      BY <2>4 DEF RowIsLastEntered
    <3>2. IsLastOf(i, o)'
      BY <1>1, <2>2, <3>1 DEF IsLastOf
    <3> QED BY <1>1, <2>1, <3>1, <3>2
  <2> QED BY <2>1, <2>3, <2>4
<1> QED BY <1>4, <1>5

AnswerInv == OnlyValidEnter /\ AcknowledgedIsStored

(* Some entry of a history has this key, and is genuine. *)
BackedBy(k, s) == \E i \in 1..Len(s) : Valid(s[i]) /\ DedupeKey(s[i]) = k

(* What the store calls a duplicate has been entered. *)
LEMMA SeenIsBacked ==
    ASSUME TypeOK, HistoryInv, OnlyValidEnter, NEW k \in seen
    PROVE  BackedBy(k, stored)
<1>1. stored \in Seq(Uploads) /\ Len(stored) \in Nat /\ MaxEvents \in Nat
  BY StoreAssumption DEF TypeOK
<1>2. /\ Len(events) = IF Len(stored) <= MaxEvents THEN Len(stored) ELSE MaxEvents
      /\ \A d \in Nat : d < Len(events) => events[Len(events) - d] = stored[Len(stored) - d]
  BY <1>1, NewestElements DEF HistoryInv, HistoryIsRecent
<1>3. PICK i \in 1..Len(events) : k = DedupeKey(events[i])
  BY DEF HistoryInv, SeenMatchesEvents
<1> DEFINE a == Len(stored) - (Len(events) - i)
<1>4. /\ Len(events) - i \in Nat /\ Len(events) - i < Len(events)
      /\ Len(events) - (Len(events) - i) = i /\ a \in 1..Len(stored)
  BY <1>1, <1>2
<1>5. events[i] = stored[a]
  BY <1>2, <1>4
<1> HIDE DEF a
<1> QED BY <1>3, <1>4, <1>5 DEF BackedBy, OnlyValidEnter

(* An answer keeps its backing while the history grows. *)
LEMMA ReplyBacked ==
    ASSUME TypeOK, AcknowledgedIsStored, NEW h \in Handlers, NEW code, Reply(h, code),
           code \in {"stored", "duplicate"} => BackedBy(DedupeKey(request[h]), stored'),
           \A k : BackedBy(k, stored) => BackedBy(k, stored')
    PROVE  AcknowledgedIsStored'
<1>1. ASSUME NEW i \in Handlers, answer'[i].code \in {"stored", "duplicate"}
      PROVE  BackedBy(answer'[i].key, stored')
  <2>1. CASE i = h
    <3>1. answer'[i] = [code |-> code, key |-> DedupeKey(request[h])]
      BY <2>1 DEF Reply, TypeOK
    <3> QED BY <1>1, <3>1
  <2>2. CASE i # h
    <3>1. answer'[i] = answer[i]
      BY <2>2 DEF Reply, TypeOK
    <3>2. BackedBy(answer[i].key, stored)
      BY <1>1, <3>1 DEF AcknowledgedIsStored, BackedBy
    <3> QED BY <3>1, <3>2
  <2> QED BY <2>1, <2>2
<1> QED BY <1>1 DEF AcknowledgedIsStored, BackedBy

LEMMA StoreStep ==
    ASSUME TypeOK, HistoryInv, RowIsLastEntered, AnswerInv, [Next]_vars
    PROVE  HistoryInv' /\ RowIsLastEntered' /\ AnswerInv'
<1> DEFINE Unchanged == UNCHANGED <<seen, events, latest, stored>>
<1>0. ASSUME Unchanged
      PROVE  /\ HistoryInv' /\ RowIsLastEntered'
             /\ \A k : BackedBy(k, stored) => BackedBy(k, stored')
  BY <1>0 DEF HistoryInv, HistoryIsRecent, SeenMatchesEvents, StoredOncePerHistory,
              StoredKeys, RowIsLastEntered, IsLastOf
<1>1. ASSUME NEW h \in Handlers, NEW u \in Uploads, Receive(h, u)
      PROVE  HistoryInv' /\ RowIsLastEntered' /\ AnswerInv'
  <2>1. Unchanged /\ answer' = answer
    BY <1>1 DEF Receive, store
  <2>2. OnlyValidEnter'
    BY <1>1, <2>1 DEF Receive, AnswerInv, OnlyValidEnter, TypeOK
  <2>3. AcknowledgedIsStored'
    BY <2>1 DEF AnswerInv, AcknowledgedIsStored
  <2> QED BY <1>0, <2>1, <2>2, <2>3 DEF AnswerInv
<1>2. ASSUME NEW h \in Handlers, Validate(h)
      PROVE  HistoryInv' /\ RowIsLastEntered' /\ AnswerInv'
  <2>1. Unchanged
    BY <1>2 DEF Validate, store
  <2>2. CASE Valid(request[h])
    <3>1. /\ stage' = [stage EXCEPT ![h] = "entering"]
          /\ UNCHANGED <<request, answer>>
      BY <1>2, <2>2 DEF Validate
    <3>2. OnlyValidEnter'
      BY <2>1, <2>2, <3>1 DEF AnswerInv, OnlyValidEnter, TypeOK
    <3>3. AcknowledgedIsStored'
      BY <2>1, <3>1 DEF AnswerInv, AcknowledgedIsStored
    <3> QED BY <1>0, <2>1, <3>2, <3>3 DEF AnswerInv
  <2>3. CASE ~Valid(request[h])
    <3>1. Reply(h, "bad_request")
      BY <1>2, <2>3 DEF Validate
    <3>2. AcknowledgedIsStored'
      BY <1>0, <2>1, <3>1, ReplyBacked DEF AnswerInv
    <3>3. OnlyValidEnter'
      BY <2>1, <3>1 DEF AnswerInv, OnlyValidEnter, Reply, TypeOK
    <3> QED BY <1>0, <2>1, <3>2, <3>3 DEF AnswerInv
  <2> QED BY <2>2, <2>3
<1>3. ASSUME NEW h \in Handlers, Ingest(h)
      PROVE  HistoryInv' /\ RowIsLastEntered' /\ AnswerInv'
  <2>1. request[h] \in Uploads /\ Valid(request[h])
    BY <1>3 DEF Ingest, TypeOK, AnswerInv, OnlyValidEnter
  <2>2. CASE DedupeKey(request[h]) \in seen
    <3>1. Unchanged /\ Reply(h, "duplicate")
      BY <1>3, <2>2 DEF Ingest, store
    <3>2. BackedBy(DedupeKey(request[h]), stored')
      BY <2>2, <3>1, SeenIsBacked DEF AnswerInv
    <3>3. AcknowledgedIsStored'
      BY <1>0, <3>1, <3>2, ReplyBacked DEF AnswerInv
    <3>4. OnlyValidEnter'
      BY <3>1 DEF AnswerInv, OnlyValidEnter, Reply, TypeOK
    <3> QED BY <1>0, <3>1, <3>3, <3>4 DEF AnswerInv
  <2>3. CASE DedupeKey(request[h]) \notin seen
    <3>1. Enter(request[h]) /\ Reply(h, "stored")
      BY <1>3, <2>3 DEF Ingest
    <3>2. /\ stored \in Seq(Uploads) /\ Len(stored) \in Nat /\ Len(stored') = Len(stored) + 1
          /\ \A i \in 1..Len(stored) : stored'[i] = stored[i]
          /\ stored'[Len(stored) + 1] = request[h]
      BY <2>1, <3>1 DEF TypeOK, Enter
    <3>3. BackedBy(DedupeKey(request[h]), stored')
      BY <2>1, <3>2 DEF BackedBy
    <3>4. \A k : BackedBy(k, stored) => BackedBy(k, stored')
      BY <3>2 DEF BackedBy
    <3>5. AcknowledgedIsStored'
      BY <3>1, <3>3, <3>4, ReplyBacked DEF AnswerInv
    <3>6. \A i \in 1..Len(stored') : Valid(stored'[i])
      BY <2>1, <3>2 DEF AnswerInv, OnlyValidEnter
    <3>7. \A i \in Handlers : stage'[i] = "entering" => Valid(request'[i])
      BY <3>1 DEF AnswerInv, OnlyValidEnter, Reply, TypeOK
    <3>8. HistoryInv' /\ RowIsLastEntered'
      BY <2>1, <2>3, <3>1, EnterHistory, EnterRow
    <3> QED BY <3>5, <3>6, <3>7, <3>8 DEF AnswerInv, OnlyValidEnter
  <2> QED BY <2>2, <2>3
<1>4. CASE Restart
  <2>1. /\ stored' = <<>> /\ events' = <<>> /\ seen' = {}
        /\ latest' = [o \in Origins |-> Nobody]
        /\ stage' = [h \in Handlers |-> "idle"]
        /\ answer' = [h \in Handlers |-> NoAnswer]
    BY <1>4 DEF Restart
  <2>2. HistoryInv'
    BY <2>1, StoreAssumption
    DEF HistoryInv, HistoryIsRecent, SeenMatchesEvents, StoredOncePerHistory, StoredKeys,
        Newest, MinGap
  <2>3. RowIsLastEntered'
    BY <2>1 DEF RowIsLastEntered
  <2>4. AnswerInv'
    BY <2>1 DEF AnswerInv, OnlyValidEnter, AcknowledgedIsStored, NoAnswer
  <2> QED BY <2>2, <2>3, <2>4
<1>5. CASE UNCHANGED vars
  <2>1. Unchanged /\ UNCHANGED <<request, stage, answer>>
    BY <1>5 DEF vars, store
  <2> QED BY <1>0, <2>1 DEF AnswerInv, OnlyValidEnter, AcknowledgedIsStored
<1> QED BY <1>1, <1>2, <1>3, <1>4, <1>5 DEF Next

LEMMA StoreInit == Init => HistoryInv /\ RowIsLastEntered /\ AnswerInv
<1> SUFFICES ASSUME Init PROVE HistoryInv /\ RowIsLastEntered /\ AnswerInv
  OBVIOUS
<1>1. HistoryInv
  BY StoreAssumption
  DEF Init, HistoryInv, HistoryIsRecent, SeenMatchesEvents, StoredOncePerHistory, StoredKeys,
      Newest, MinGap
<1>2. RowIsLastEntered
  BY DEF Init, RowIsLastEntered
<1>3. AnswerInv
  BY DEF Init, AnswerInv, OnlyValidEnter, AcknowledgedIsStored, NoAnswer
<1> QED BY <1>1, <1>2, <1>3

(***************************************************************************)
(* The inductive invariant of the store: its views agree, rows are the     *)
(* last entries, and every acknowledgement is backed.                      *)
(***************************************************************************)
THEOREM StoreInvariance == Spec => []IndInv
<1>1. Init => IndInv
  BY StoreTypeInit, StoreInit DEF IndInv, HistoryInv, AnswerInv
<1>2. IndInv /\ [Next]_vars => IndInv'
  BY StoreTypeStep, StoreStep DEF IndInv, HistoryInv, AnswerInv
<1> QED BY <1>1, <1>2, PTL DEF Spec

(***************************************************************************)
(* An upload is entered again only after --max-events others, whatever     *)
(* gateways and threads do.                                                *)
(***************************************************************************)
THEOREM StoredOnce == Spec => []StoredOncePerHistory
<1>1. IndInv => StoredOncePerHistory
  BY DEF IndInv
<1> QED BY <1>1, StoreInvariance, PTL

(***************************************************************************)
(* A positive answer means that a genuine upload has been entered.         *)
(***************************************************************************)
THEOREM AcknowledgementsBacked == Spec => []AcknowledgedIsStored
<1>1. IndInv => AcknowledgedIsStored
  BY DEF IndInv
<1> QED BY <1>1, StoreInvariance, PTL

-----------------------------------------------------------------------------
(***************************************************************************)
(* The gateways.                                                           *)
(***************************************************************************)

LEMMA UplinkIsUpload == Uplinks \subseteq Uploads /\ Nobody \notin Uplinks
<1>1. ASSUME NEW o \in Origins, NEW s \in 1..MaxSeq
      PROVE  Uplink(o, s) \in Uploads
  <2>1. KeyOf[o] \in C2Keys
    BY GatewayAssumption
  <2> QED BY <2>1 DEF Uplink, Uploads
<1> QED BY <1>1, StoreAssumption DEF Uplinks

LEMMA GatewayKeyType ==
    ASSUME NEW u \in Uplinks
    PROVE  TapKey(u) \in GatewayKeys /\ RadioKey(u) \in GatewayKeys
BY DEF GatewayKeys

(* The key tells the uplink, whichever source it came from. *)
LEMMA KeyTellsUplink ==
    ASSUME NEW u \in Uplinks, NEW v \in Uplinks,
           TapKey(u) \in {TapKey(v), RadioKey(v)} \/ RadioKey(u) \in {TapKey(v), RadioKey(v)}
    PROVE  u = v
<1>1. PICK o \in Origins, s \in 1..MaxSeq : u = Uplink(o, s)
  BY DEF Uplinks
<1>2. PICK p \in Origins, t \in 1..MaxSeq : v = Uplink(p, t)
  BY DEF Uplinks
<1>3. /\ TapKey(u) = <<o, s>> /\ RadioKey(u) = <<"node", o, s>>
      /\ TapKey(v) = <<p, t>> /\ RadioKey(v) = <<"node", p, t>>
  BY <1>1, <1>2 DEF TapKey, RadioKey, Uplink
<1>4. <<o, s>> # <<"node", p, t>> /\ <<"node", o, s>> # <<p, t>>
  <2>1. /\ Len(<<o, s>>) = 2 /\ Len(<<p, t>>) = 2
        /\ Len(<<"node", p, t>>) = 3 /\ Len(<<"node", o, s>>) = 3
    OBVIOUS
  <2> QED BY <2>1
<1>5. o = p /\ s = t
  BY <1>3, <1>4
<1> QED BY <1>1, <1>2, <1>5

LEMMA UplinkTypeInit == UplinkInit => UplinkTypeOK /\ WaitsForItsOwn
<1> SUFFICES ASSUME UplinkInit PROVE UplinkTypeOK /\ WaitsForItsOwn
  OBVIOUS
<1>1. TypeOK
  BY StoreTypeInit DEF UplinkInit
<1>2. UplinkTypeOK
  BY <1>1, StoreAssumption DEF UplinkInit, UplinkTypeOK
<1>3. WaitsForItsOwn
  BY DEF UplinkInit, WaitsForItsOwn
<1> QED BY <1>2, <1>3

(***************************************************************************)
(* Taken together: a step of the gateways is a request to the store, or    *)
(* nothing to it.                                                          *)
(***************************************************************************)
LEMMA StoreMoves ==
    ASSUME UplinkTypeOK, WaitsForItsOwn, [UplinkNext]_allvars
    PROVE  [Next]_vars
<1>1. ASSUME NEW g \in Gateways, NEW h \in Handlers, Post(g, h)
      PROVE  [Next]_vars
  <2>1. current[g] \in Uploads
    BY <1>1, UplinkIsUpload DEF Post, UplinkTypeOK, WaitsForItsOwn
  <2> QED BY <1>1, <2>1 DEF Post, Next
<1>2. ASSUME NEW g \in Gateways,
             Reach(g) \/ TakeTap(g) \/ TapDrained(g) \/ TakeRadio(g) \/ RadioTimesOut(g)
               \/ Answered(g) \/ TapFails(g) \/ PostFails(g) \/ GiveUp(g)
      PROVE  UNCHANGED vars
  BY <1>2 DEF Reach, TakeTap, TapDrained, TakeRadio, RadioTimesOut, Answered, TapFails,
              PostFails, GiveUp, Consider, TurnTo
<1>3. ASSUME NEW o \in Origins, Send(o)
      PROVE  UNCHANGED vars
  BY <1>3 DEF Send
<1>4. ASSUME NEW h \in Handlers, Serve(h)
      PROVE  [Next]_vars
  BY <1>4 DEF Serve, Next
<1>5. CASE UNCHANGED allvars
  BY <1>5 DEF allvars
<1> QED BY <1>1, <1>2, <1>3, <1>4, <1>5 DEF UplinkNext, Loop

(* Taking the next frame of a queue. *)
LEMMA QueueTaken ==
    ASSUME NEW S, NEW q \in Seq(S), q # <<>>
    PROVE  Head(q) \in S /\ Tail(q) \in Seq(S)
OBVIOUS

LEMMA ConsiderType ==
    ASSUME UplinkTypeOK, NEW g \in Gateways, NEW u \in Uplinks, NEW key \in GatewayKeys,
           Consider(g, u, key)
    PROVE  /\ gseen' \in [Gateways -> Seq(GatewayKeys)]
           /\ pc' \in [Gateways -> {"tap", "radio", "post", "wait"}]
           /\ current' \in [Gateways -> Uplinks \union {Nobody}]
           /\ marked' \in [Gateways -> Seq(GatewayKeys)]
           /\ taken' \in [Gateways -> SUBSET Uplinks]
           /\ UNCHANGED <<vars, waiting, failed, sent, copies>>
<1>1. gseen[g] \in Seq(GatewayKeys) /\ SeenLimit \in Nat
  BY GatewayAssumption DEF UplinkTypeOK
<1>2. Remember(gseen[g], key, SeenLimit) \in Seq(GatewayKeys)
  BY <1>1, RememberType
<1>3. gseen' \in [Gateways -> Seq(GatewayKeys)]
  BY <1>2 DEF Consider, UplinkTypeOK
<1>4. taken' \in [Gateways -> SUBSET Uplinks]
  BY DEF Consider, UplinkTypeOK
<1>5. UNCHANGED <<vars, waiting, failed, sent, copies>>
  BY DEF Consider
<1>6. CASE Known(gseen[g], key)
  <2>1. pc' = [pc EXCEPT ![g] = "tap"] /\ UNCHANGED <<current, marked>>
    BY <1>6 DEF Consider
  <2> QED BY <1>3, <1>4, <1>5, <2>1 DEF UplinkTypeOK
<1>7. CASE ~Known(gseen[g], key)
  <2>1. /\ pc' = [pc EXCEPT ![g] = "post"]
        /\ current' = [current EXCEPT ![g] = u]
        /\ marked' = [marked EXCEPT ![g] = Append(@, key)]
    BY <1>7 DEF Consider
  <2>2. Append(marked[g], key) \in Seq(GatewayKeys)
    BY DEF UplinkTypeOK
  <2>3. marked' \in [Gateways -> Seq(GatewayKeys)]
    BY <2>1, <2>2 DEF UplinkTypeOK
  <2>4. /\ pc' \in [Gateways -> {"tap", "radio", "post", "wait"}]
        /\ current' \in [Gateways -> Uplinks \union {Nobody}]
    BY <2>1 DEF UplinkTypeOK
  <2> QED BY <1>3, <1>4, <1>5, <2>3, <2>4
<1> QED BY <1>6, <1>7

LEMMA EndPostType ==
    ASSUME UplinkTypeOK, NEW g \in Gateways, EndPost(g), UNCHANGED vars,
           failed' = failed \/ failed' = [failed EXCEPT ![g] = @ \union {current[g]}],
           current[g] \in Uplinks
    PROVE  UplinkTypeOK'
<1>1. TypeOK'
  BY DEF vars, store, TypeOK, UplinkTypeOK
<1>2. failed' \in [Gateways -> SUBSET Uplinks]
  <2>1. failed \in [Gateways -> SUBSET Uplinks] /\ failed[g] \union {current[g]} \in SUBSET Uplinks
    BY DEF UplinkTypeOK
  <2> QED BY <2>1
<1>3. /\ pc' \in [Gateways -> {"tap", "radio", "post", "wait"}]
      /\ current' \in [Gateways -> Uplinks \union {Nobody}]
      /\ waiting' \in [Gateways -> Handlers \union {NoHandler}]
  BY DEF EndPost, UplinkTypeOK
<1>4. UNCHANGED <<tapq, rfq, gseen, marked, taken, sent, copies>>
  BY DEF EndPost
<1> QED BY <1>1, <1>2, <1>3, <1>4 DEF UplinkTypeOK

LEMMA UplinkTypeStep ==
    ASSUME UplinkTypeOK, WaitsForItsOwn, [UplinkNext]_allvars
    PROVE  UplinkTypeOK'
<1>0. TypeOK'
  BY StoreMoves, StoreTypeStep DEF UplinkTypeOK
<1>1. ASSUME NEW o \in Origins, Send(o)
      PROVE  UplinkTypeOK'
  <2>1. sent' \in [Origins -> 0..MaxSeq]
    <3>1. sent[o] \in 0..MaxSeq /\ sent[o] < MaxSeq /\ MaxSeq \in Nat
      BY <1>1, StoreAssumption DEF Send, UplinkTypeOK
    <3>2. sent[o] + 1 \in 0..MaxSeq
      BY <3>1
    <3> QED BY <1>1, <3>2 DEF Send, UplinkTypeOK
  <2>2. UNCHANGED <<tapq, rfq, gseen, pc, current, waiting, marked, taken, failed, copies>>
    BY <1>1 DEF Send, gateway
  <2> QED BY <1>0, <2>1, <2>2 DEF UplinkTypeOK
<1>2. ASSUME NEW g \in Gateways, Reach(g)
      PROVE  UplinkTypeOK'
  <2>1. PICK u \in Uplinks :
           \/ tapq' = [tapq EXCEPT ![g] = Append(@, u)] /\ UNCHANGED rfq
           \/ rfq' = [rfq EXCEPT ![g] = Append(@, u)] /\ UNCHANGED tapq
    BY <1>2 DEF Reach
  <2>2. /\ tapq \in [Gateways -> Seq(Uplinks)] /\ rfq \in [Gateways -> Seq(Uplinks)]
        /\ Append(tapq[g], u) \in Seq(Uplinks) /\ Append(rfq[g], u) \in Seq(Uplinks)
    BY DEF UplinkTypeOK
  <2>3. tapq' \in [Gateways -> Seq(Uplinks)] /\ rfq' \in [Gateways -> Seq(Uplinks)]
    BY <2>1, <2>2
  <2>4. /\ UNCHANGED <<gseen, pc, current, waiting, marked, taken, failed, sent>>
        /\ copies' = copies + 1
    BY <1>2 DEF Reach
  <2> QED BY <1>0, <2>3, <2>4 DEF UplinkTypeOK
<1>3. ASSUME NEW g \in Gateways, TakeTap(g)
      PROVE  UplinkTypeOK'
  <2>1. Head(tapq[g]) \in Uplinks /\ tapq' \in [Gateways -> Seq(Uplinks)]
    BY <1>3, QueueTaken DEF TakeTap, UplinkTypeOK
  <2>2. Consider(g, Head(tapq[g]), TapKey(Head(tapq[g]))) /\ UNCHANGED rfq
    BY <1>3 DEF TakeTap
  <2> QED BY <1>0, <2>1, <2>2, GatewayKeyType, ConsiderType DEF UplinkTypeOK
<1>4. ASSUME NEW g \in Gateways, TakeRadio(g)
      PROVE  UplinkTypeOK'
  <2>1. Head(rfq[g]) \in Uplinks /\ rfq' \in [Gateways -> Seq(Uplinks)]
    BY <1>4, QueueTaken DEF TakeRadio, UplinkTypeOK
  <2>2. Consider(g, Head(rfq[g]), RadioKey(Head(rfq[g]))) /\ UNCHANGED tapq
    BY <1>4 DEF TakeRadio
  <2> QED BY <1>0, <2>1, <2>2, GatewayKeyType, ConsiderType DEF UplinkTypeOK
<1>5. ASSUME NEW g \in Gateways, TapDrained(g) \/ TapFails(g) \/ RadioTimesOut(g)
      PROVE  UplinkTypeOK'
  BY <1>0, <1>5 DEF TapDrained, TapFails, RadioTimesOut, TurnTo, UplinkTypeOK
<1>6. ASSUME NEW g \in Gateways, NEW h \in Handlers, Post(g, h)
      PROVE  UplinkTypeOK'
  BY <1>0, <1>6 DEF Post, UplinkTypeOK
<1>7. ASSUME NEW g \in Gateways, PostFails(g) \/ Answered(g) \/ GiveUp(g)
      PROVE  UplinkTypeOK'
  <2>1. current[g] \in Uplinks
    BY <1>7 DEF PostFails, Answered, GiveUp, WaitsForItsOwn, UplinkTypeOK
  <2>2. /\ EndPost(g) /\ UNCHANGED vars
        /\ failed' = failed \/ failed' = [failed EXCEPT ![g] = @ \union {current[g]}]
    BY <1>7 DEF PostFails, Answered, GiveUp
  <2> QED BY <2>1, <2>2, EndPostType
<1>8. ASSUME NEW h \in Handlers, Serve(h)
      PROVE  UplinkTypeOK'
  BY <1>0, <1>8 DEF Serve, gateway, UplinkTypeOK
<1>9. CASE UNCHANGED allvars
  BY <1>0, <1>9 DEF allvars, gateway, UplinkTypeOK
<1> QED BY <1>1, <1>2, <1>3, <1>4, <1>5, <1>6, <1>7, <1>8, <1>9 DEF UplinkNext, Loop
-----------------------------------------------------------------------------
(* A gateway waits for its own uplink. *)

(* The part of WaitsForItsOwn that is about one gateway. *)
Own(g) ==
    /\ pc[g] = "wait" <=> waiting[g] # NoHandler
    /\ pc[g] \in {"post", "wait"} <=> current[g] # Nobody
    /\ pc[g] = "wait" =>
          IF stage[waiting[g]] = "idle"
          THEN answer[waiting[g]].key = DedupeKey(current[g])
          ELSE request[waiting[g]] = current[g]

LEMMA ConsiderOwn ==
    ASSUME UplinkTypeOK, WaitsForItsOwn, NEW g \in Gateways, NEW u \in Uplinks, NEW key,
           pc[g] \in {"tap", "radio"}, Consider(g, u, key)
    PROVE  WaitsForItsOwn'
<1>1. /\ UNCHANGED <<request, stage, answer, waiting>>
      /\ \A i \in Gateways : i # g => pc'[i] = pc[i] /\ current'[i] = current[i]
      /\ \/ pc'[g] = "tap" /\ current'[g] = current[g]
         \/ pc'[g] = "post" /\ current'[g] = u
  <2>1. UNCHANGED <<request, stage, answer, waiting>>
    BY DEF Consider, vars
  <2>2. \/ pc' = [pc EXCEPT ![g] = "tap"] /\ current' = current
        \/ pc' = [pc EXCEPT ![g] = "post"] /\ current' = [current EXCEPT ![g] = u]
    BY DEF Consider
  <2> QED BY <2>1, <2>2 DEF UplinkTypeOK
<1>2. u # Nobody
  BY UplinkIsUpload
<1> QED BY <1>1, <1>2 DEF WaitsForItsOwn

LEMMA PostOwn ==
    ASSUME UplinkTypeOK, WaitsForItsOwn, NEW g \in Gateways, NEW h \in Handlers, Post(g, h)
    PROVE  WaitsForItsOwn'
<1>1. /\ pc[g] = "post" /\ UNCHANGED <<answer, current>>
      /\ pc'[g] = "wait" /\ waiting'[g] = h
      /\ \A i \in Gateways : i # g => pc'[i] = pc[i] /\ waiting'[i] = waiting[i]
      /\ \A i \in Gateways : waiting[i] # h
  BY DEF Post, Receive, UplinkTypeOK
<1>2. /\ stage'[h] = "validating" /\ request'[h] = current[g]
      /\ \A i \in Handlers : i # h => stage'[i] = stage[i] /\ request'[i] = request[i]
  BY DEF Post, Receive, UplinkTypeOK, TypeOK
<1>3. h # NoHandler
  BY GatewayAssumption
<1>4. Own(g)'
  <2>1. current[g] # Nobody /\ current'[g] = current[g]
    BY <1>1 DEF WaitsForItsOwn
  <2> QED BY <1>1, <1>2, <1>3, <2>1 DEF Own
<1>5. ASSUME NEW i \in Gateways, i # g
      PROVE  Own(i)'
  <2>1. pc[i] = "wait" => waiting[i] \in Handlers /\ waiting[i] # h
    BY <1>1 DEF WaitsForItsOwn, UplinkTypeOK
  <2> QED BY <1>1, <1>2, <1>5, <2>1 DEF Own, WaitsForItsOwn
<1>6. ASSUME NEW i \in Gateways, NEW j \in Gateways \ {i}, pc'[i] = "wait"
      PROVE  waiting'[j] # waiting'[i]
  BY <1>1, <1>6 DEF WaitsForItsOwn
<1> QED BY <1>4, <1>5, <1>6 DEF Own, WaitsForItsOwn

LEMMA EndPostOwn ==
    ASSUME UplinkTypeOK, WaitsForItsOwn, NEW g \in Gateways, EndPost(g), UNCHANGED vars
    PROVE  WaitsForItsOwn'
<1>1. /\ UNCHANGED <<request, stage, answer>>
      /\ pc'[g] = "tap" /\ current'[g] = Nobody /\ waiting'[g] = NoHandler
      /\ \A i \in Gateways : i # g => /\ pc'[i] = pc[i] /\ current'[i] = current[i]
                                      /\ waiting'[i] = waiting[i]
  BY DEF EndPost, vars, UplinkTypeOK
<1> QED BY <1>1 DEF WaitsForItsOwn

(* A thread keeps the request it was given, and its answer is to that one. *)
LEMMA ServeOwn ==
    ASSUME UplinkTypeOK, WaitsForItsOwn, NEW h \in Handlers, Serve(h)
    PROVE  WaitsForItsOwn'
<1>1. /\ UNCHANGED <<pc, current, waiting>>
      /\ stage[h] # "idle"
      /\ \/ stage'[h] # "idle" /\ request'[h] = request[h]
         \/ stage'[h] = "idle" /\ answer'[h].key = DedupeKey(request[h])
      /\ \A i \in Handlers : i # h => /\ stage'[i] = stage[i] /\ request'[i] = request[i]
                                      /\ answer'[i] = answer[i]
  <2>1. UNCHANGED <<pc, current, waiting>>
    BY DEF Serve, gateway
  <2>2. CASE \E code : stage[h] # "idle" /\ Reply(h, code)
    BY <2>1, <2>2 DEF Reply, UplinkTypeOK, TypeOK
  <2>3. CASE /\ stage[h] # "idle" /\ stage' = [stage EXCEPT ![h] = "entering"]
             /\ UNCHANGED <<request, answer>>
    BY <2>1, <2>3 DEF UplinkTypeOK, TypeOK
  <2> QED BY <2>2, <2>3 DEF Serve, Validate, Ingest
<1>2. ASSUME NEW g \in Gateways
      PROVE  Own(g)'
  <2>1. CASE pc[g] = "wait" /\ waiting[g] = h
    BY <1>1, <2>1 DEF Own, WaitsForItsOwn
  <2>2. CASE pc[g] = "wait" /\ waiting[g] # h
    <3>1. waiting[g] \in Handlers
      BY <2>2 DEF WaitsForItsOwn, UplinkTypeOK
    <3> QED BY <1>1, <2>2, <3>1 DEF Own, WaitsForItsOwn
  <2>3. CASE pc[g] # "wait"
    BY <1>1, <2>3 DEF Own, WaitsForItsOwn
  <2> QED BY <2>1, <2>2, <2>3
<1>3. ASSUME NEW i \in Gateways, NEW j \in Gateways \ {i}, pc'[i] = "wait"
      PROVE  waiting'[j] # waiting'[i]
  BY <1>1, <1>3 DEF WaitsForItsOwn
<1> QED BY <1>2, <1>3 DEF Own, WaitsForItsOwn

LEMMA OwnStep ==
    ASSUME UplinkTypeOK, WaitsForItsOwn, [UplinkNext]_allvars
    PROVE  WaitsForItsOwn'
<1>1. ASSUME UNCHANGED <<request, stage, answer, pc, current, waiting>>
      PROVE  WaitsForItsOwn'
  BY <1>1 DEF WaitsForItsOwn
<1>2. ASSUME NEW o \in Origins, Send(o)
      PROVE  WaitsForItsOwn'
  BY <1>1, <1>2 DEF Send, vars, gateway
<1>3. ASSUME NEW g \in Gateways, Reach(g)
      PROVE  WaitsForItsOwn'
  BY <1>1, <1>3 DEF Reach, vars
<1>4. ASSUME NEW g \in Gateways, TakeTap(g)
      PROVE  WaitsForItsOwn'
  <2>1. Head(tapq[g]) \in Uplinks
    BY <1>4, QueueTaken DEF TakeTap, UplinkTypeOK
  <2>2. pc[g] = "tap" /\ Consider(g, Head(tapq[g]), TapKey(Head(tapq[g])))
    BY <1>4 DEF TakeTap
  <2> QED BY <2>1, <2>2, ConsiderOwn
<1>5. ASSUME NEW g \in Gateways, TakeRadio(g)
      PROVE  WaitsForItsOwn'
  <2>1. Head(rfq[g]) \in Uplinks
    BY <1>5, QueueTaken DEF TakeRadio, UplinkTypeOK
  <2>2. pc[g] = "radio" /\ Consider(g, Head(rfq[g]), RadioKey(Head(rfq[g])))
    BY <1>5 DEF TakeRadio
  <2> QED BY <2>1, <2>2, ConsiderOwn
<1>6. ASSUME NEW g \in Gateways, TapDrained(g) \/ TapFails(g) \/ RadioTimesOut(g)
      PROVE  WaitsForItsOwn'
  <2>1. /\ pc[g] \in {"tap", "radio"} /\ pc'[g] \in {"tap", "radio"}
        /\ \A i \in Gateways : i # g => pc'[i] = pc[i]
        /\ UNCHANGED <<request, stage, answer, current, waiting>>
    BY <1>6 DEF TapDrained, TapFails, RadioTimesOut, TurnTo, vars, UplinkTypeOK
  <2> QED BY <2>1 DEF WaitsForItsOwn
<1>7. ASSUME NEW g \in Gateways, PostFails(g) \/ Answered(g) \/ GiveUp(g)
      PROVE  WaitsForItsOwn'
  BY <1>7, EndPostOwn DEF PostFails, Answered, GiveUp
<1>8. CASE UNCHANGED allvars
  BY <1>1, <1>8 DEF allvars, vars, gateway
<1> QED BY <1>2, <1>3, <1>4, <1>5, <1>6, <1>7, <1>8, PostOwn, ServeOwn DEF UplinkNext, Loop

(***************************************************************************)
(* What holds of the store whoever its clients are holds behind the        *)
(* gateways too, the acknowledgements they rely on first of all: to the    *)
(* store they are ordinary clients, however they race and give up.         *)
(***************************************************************************)
THEOREM StoreSoundBehindGateways == UplinkSpec => []IndInv
<1>1. UplinkInit => Init /\ UplinkTypeOK /\ WaitsForItsOwn
  BY UplinkTypeInit DEF UplinkInit
<1>2. UplinkTypeOK /\ WaitsForItsOwn /\ [UplinkNext]_allvars
        => [Next]_vars /\ UplinkTypeOK' /\ WaitsForItsOwn'
  BY StoreMoves, UplinkTypeStep, OwnStep
<1>3. Init /\ [][Next]_vars => []IndInv
  BY StoreInvariance DEF Spec
<1> QED BY <1>1, <1>2, <1>3, PTL DEF UplinkSpec
-----------------------------------------------------------------------------
(* The cache of a gateway, and what became of the uplinks it took. *)

CacheInv == MarkedWasTaken /\ PostedOncePerSource

LEMMA ConsiderCache ==
    ASSUME UplinkTypeOK, CacheInv, NEW g \in Gateways, NEW u \in Uplinks,
           NEW key \in {TapKey(u), RadioKey(u)}, Consider(g, u, key)
    PROVE  CacheInv'
<1>1. /\ key \in GatewayKeys /\ SeenLimit \in Nat \ {0}
      /\ marked[g] \in Seq(GatewayKeys) /\ Len(marked[g]) \in Nat
      /\ gseen[g] = Newest(marked[g], SeenLimit)
  BY GatewayKeyType, GatewayAssumption DEF UplinkTypeOK, CacheInv, MarkedWasTaken
<1>2. /\ gseen'[g] = Remember(gseen[g], key, SeenLimit)
      /\ taken'[g] = taken[g] \union {u}
      /\ \A i \in Gateways : i # g => gseen'[i] = gseen[i] /\ taken'[i] = taken[i]
  BY DEF Consider, UplinkTypeOK
<1>3. CASE Known(gseen[g], key)
  <2>1. marked' = marked /\ gseen'[g] = gseen[g]
    BY <1>2, <1>3 DEF Consider, Remember
  <2> QED BY <1>2, <2>1 DEF CacheInv, MarkedWasTaken, PostedOncePerSource
<1>4. CASE ~Known(gseen[g], key)
  <2>1. /\ marked'[g] = Append(marked[g], key)
        /\ \A i \in Gateways : i # g => marked'[i] = marked[i]
    BY <1>4 DEF Consider, UplinkTypeOK
  <2>2. gseen'[g] = Newest(marked'[g], SeenLimit)
    <3>1. gseen'[g] = Newest(Append(Newest(marked[g], SeenLimit), key), SeenLimit)
      BY <1>1, <1>2, <1>4 DEF Remember
    <3> QED BY <1>1, <2>1, <3>1, NewestAppend
  <2>3. MinGap(marked'[g], SeenLimit)
    <3>1. MinGap(marked[g], SeenLimit) /\ ~Known(Newest(marked[g], SeenLimit), key)
      BY <1>1, <1>4 DEF CacheInv, PostedOncePerSource
    <3>2. SeenLimit \in Nat
      BY <1>1
    <3> QED BY <1>1, <2>1, <3>1, <3>2, MinGapAppend
  <2>4. ASSUME NEW i \in 1..Len(marked'[g])
        PROVE  \E v \in taken'[g] : marked'[g][i] \in {TapKey(v), RadioKey(v)}
    <3>1. CASE i \in 1..Len(marked[g])
      <4>1. marked'[g][i] = marked[g][i]
        BY <1>1, <2>1, <3>1
      <4>2. PICK v \in taken[g] : marked[g][i] \in {TapKey(v), RadioKey(v)}
        BY <3>1 DEF CacheInv, MarkedWasTaken
      <4> QED BY <1>2, <4>1, <4>2
    <3>2. CASE i = Len(marked[g]) + 1
      <4>1. marked'[g][i] = key
        BY <1>1, <2>1, <3>2
      <4> QED BY <1>2, <4>1
    <3> QED BY <1>1, <2>1, <3>1, <3>2
  <2>5. MarkedWasTaken'
    BY <1>2, <2>1, <2>2, <2>4 DEF CacheInv, MarkedWasTaken
  <2>6. PostedOncePerSource'
    BY <2>1, <2>3 DEF CacheInv, PostedOncePerSource
  <2> QED BY <2>5, <2>6 DEF CacheInv
<1> QED BY <1>3, <1>4

(* What the cache knows, the gateway has taken before. *)
LEMMA KnownWasTaken ==
    ASSUME UplinkTypeOK, CacheInv, NEW g \in Gateways, NEW u \in Uplinks,
           NEW key \in {TapKey(u), RadioKey(u)}, Known(gseen[g], key)
    PROVE  u \in taken[g]
<1> DEFINE c == gseen[g]
           m == marked[g]
<1>1. /\ m \in Seq(GatewayKeys) /\ SeenLimit \in Nat /\ c = Newest(m, SeenLimit)
      /\ taken[g] \subseteq Uplinks
  BY GatewayAssumption DEF UplinkTypeOK, CacheInv, MarkedWasTaken
<1>2. PICK i \in 1..Len(c) : c[i] = key
  BY DEF Known
<1>3. /\ Len(m) \in Nat
      /\ Len(c) = IF Len(m) <= SeenLimit THEN Len(m) ELSE SeenLimit
      /\ \A d \in Nat : d < Len(c) => c[Len(c) - d] = m[Len(m) - d]
  BY <1>1, NewestElements
<1>4. /\ Len(c) - i \in Nat /\ Len(c) - i < Len(c) /\ Len(c) - (Len(c) - i) = i
      /\ Len(m) - (Len(c) - i) \in 1..Len(m)
  <2> HIDE DEF c, m
  <2>1. Len(c) \in Nat /\ Len(m) \in Nat /\ Len(c) <= Len(m)
    BY <1>1, <1>3
  <2> QED BY <2>1
<1>5. PICK k \in 1..Len(m) : m[k] = key
  BY <1>2, <1>3, <1>4
<1>6. PICK v \in taken[g] : m[k] \in {TapKey(v), RadioKey(v)}
  BY DEF CacheInv, MarkedWasTaken
<1>7. v = u
  BY <1>1, <1>5, <1>6, KeyTellsUplink
<1> QED BY <1>6, <1>7

LEMMA CacheStep ==
    ASSUME UplinkTypeOK, CacheInv, [UplinkNext]_allvars
    PROVE  CacheInv'
<1>1. ASSUME UNCHANGED <<gseen, marked, taken>>
      PROVE  CacheInv'
  BY <1>1 DEF CacheInv, MarkedWasTaken, PostedOncePerSource
<1>2. ASSUME NEW o \in Origins, Send(o)
      PROVE  CacheInv'
  BY <1>1, <1>2 DEF Send, gateway
<1>3. ASSUME NEW g \in Gateways, NEW h \in Handlers, Post(g, h)
      PROVE  CacheInv'
  BY <1>1, <1>3 DEF Post
<1>4. ASSUME NEW g \in Gateways, TakeTap(g)
      PROVE  CacheInv'
  <2>1. Head(tapq[g]) \in Uplinks
    BY <1>4, QueueTaken DEF TakeTap, UplinkTypeOK
  <2>2. Consider(g, Head(tapq[g]), TapKey(Head(tapq[g])))
    BY <1>4 DEF TakeTap
  <2> QED BY <2>1, <2>2, ConsiderCache
<1>5. ASSUME NEW g \in Gateways, TakeRadio(g)
      PROVE  CacheInv'
  <2>1. Head(rfq[g]) \in Uplinks
    BY <1>5, QueueTaken DEF TakeRadio, UplinkTypeOK
  <2>2. Consider(g, Head(rfq[g]), RadioKey(Head(rfq[g])))
    BY <1>5 DEF TakeRadio
  <2> QED BY <2>1, <2>2, ConsiderCache
<1>6. ASSUME NEW h \in Handlers, Serve(h)
      PROVE  CacheInv'
  BY <1>1, <1>6 DEF Serve, gateway
<1>7. CASE UNCHANGED allvars
  BY <1>1, <1>7 DEF allvars, gateway
<1>8. ASSUME NEW g \in Gateways,
             TapDrained(g) \/ TapFails(g) \/ RadioTimesOut(g) \/ Reach(g)
               \/ PostFails(g) \/ Answered(g) \/ GiveUp(g)
      PROVE  CacheInv'
  BY <1>1, <1>8 DEF Reach, TapDrained, TapFails, RadioTimesOut, TurnTo, PostFails,
                    Answered, GiveUp, EndPost
<1> QED BY <1>2, <1>3, <1>4, <1>5, <1>6, <1>7, <1>8 DEF UplinkNext, Loop

(* What has been entered stays entered: the gateways restart no server. *)
LEMMA StoredStays ==
    ASSUME UplinkTypeOK, [UplinkNext]_allvars, NEW u, IsStored(u)
    PROVE  IsStored(u)'
<1>1. stored \in Seq(Uploads) /\ Len(stored) \in Nat
  BY DEF UplinkTypeOK, TypeOK
<1>2. stored' = stored \/ \E v \in Uploads : stored' = Append(stored, v)
  <2>1. ASSUME NEW h \in Handlers, Serve(h)
        PROVE  stored' = stored \/ \E v \in Uploads : stored' = Append(stored, v)
    <3>1. CASE Validate(h)
      BY <3>1 DEF Validate, store
    <3>2. CASE Ingest(h)
      <4>1. request[h] \in Uploads
        BY <3>2 DEF Ingest, UplinkTypeOK, TypeOK
      <4> QED BY <3>2, <4>1 DEF Ingest, Enter, store
    <3> QED BY <2>1, <3>1, <3>2 DEF Serve
  <2>2. ASSUME NEW g \in Gateways, NEW h \in Handlers, Post(g, h)
        PROVE  stored' = stored
    BY <2>2 DEF Post, Receive, store
  <2>3. ASSUME NEW o \in Origins, Send(o)
        PROVE  stored' = stored
    BY <2>3 DEF Send, vars, store
  <2>4. ASSUME NEW g \in Gateways,
               Reach(g) \/ TakeTap(g) \/ TakeRadio(g) \/ TapDrained(g) \/ TapFails(g)
                 \/ RadioTimesOut(g) \/ PostFails(g) \/ Answered(g) \/ GiveUp(g)
        PROVE  stored' = stored
    BY <2>4 DEF Reach, TakeTap, TakeRadio, Consider, TapDrained, TapFails, RadioTimesOut,
                TurnTo, PostFails, Answered, GiveUp, vars, store
  <2>5. CASE UNCHANGED allvars
    BY <2>5 DEF allvars, vars, store
  <2> QED BY <2>1, <2>2, <2>3, <2>4, <2>5 DEF UplinkNext, Loop
<1>3. PICK k \in 1..Len(stored) : DedupeKey(stored[k]) = DedupeKey(u)
  BY DEF IsStored
<1>4. CASE stored' = stored
  BY <1>4 DEF IsStored
<1>5. ASSUME NEW v \in Uploads, stored' = Append(stored, v)
      PROVE  IsStored(u)'
  <2>1. Len(stored') = Len(stored) + 1 /\ stored'[k] = stored[k] /\ k \in 1..Len(stored')
    BY <1>1, <1>3, <1>5
  <2> QED BY <1>3, <2>1 DEF IsStored
<1> QED BY <1>2, <1>4, <1>5

(* Where an uplink is that gateway g has taken. *)
Accounted(g, u) ==
    IsStored(u) \/ u \in failed[g] \/ (pc[g] \in {"post", "wait"} /\ current[g] = u)

LEMMA ConsiderAccounted ==
    ASSUME UplinkTypeOK, WaitsForItsOwn, CacheInv, NothingLostInSilence,
           NEW g \in Gateways, pc[g] \in {"tap", "radio"}, NEW u \in Uplinks,
           NEW key \in {TapKey(u), RadioKey(u)}, Consider(g, u, key)
    PROVE  NothingLostInSilence'
<1>1. /\ UNCHANGED <<failed, stored>>
      /\ taken'[g] = taken[g] \union {u}
      /\ \A i \in Gateways : i # g => /\ taken'[i] = taken[i] /\ pc'[i] = pc[i]
                                      /\ current'[i] = current[i]
  BY DEF Consider, vars, store, UplinkTypeOK
<1>2. ASSUME NEW i \in Gateways, NEW v \in taken[i]
      PROVE  Accounted(i, v)'
  <2>1. Accounted(i, v)
    BY DEF NothingLostInSilence, Accounted
  <2> QED BY <1>1, <2>1 DEF Accounted, IsStored
<1>3. Accounted(g, u)'
  <2>1. CASE Known(gseen[g], key)
    BY <1>2, <2>1, KnownWasTaken
  <2>2. CASE ~Known(gseen[g], key)
    BY <2>2 DEF Consider, Accounted, UplinkTypeOK
  <2> QED BY <2>1, <2>2
<1> QED BY <1>1, <1>2, <1>3 DEF NothingLostInSilence, Accounted

LEMMA EndPostAccounted ==
    ASSUME UplinkTypeOK, NothingLostInSilence, NEW g \in Gateways, EndPost(g), UNCHANGED vars,
           \/ failed' = failed /\ IsStored(current[g])
           \/ failed' = [failed EXCEPT ![g] = @ \union {current[g]}]
    PROVE  NothingLostInSilence'
<1>1. UNCHANGED <<taken, stored>>
  BY DEF EndPost, vars, store
<1>2. \A i \in Gateways : /\ failed[i] \subseteq failed'[i]
                          /\ i # g => pc'[i] = pc[i] /\ current'[i] = current[i]
  BY DEF EndPost, UplinkTypeOK
<1>3. IsStored(current[g]) \/ current[g] \in failed'[g]
  BY DEF UplinkTypeOK
<1> SUFFICES ASSUME NEW i \in Gateways, NEW v \in taken[i]
             PROVE  Accounted(i, v)'
  BY <1>1 DEF NothingLostInSilence, Accounted
<1>4. Accounted(i, v)
  BY DEF NothingLostInSilence, Accounted
<1>5. CASE i = g
  BY <1>1, <1>2, <1>3, <1>4, <1>5 DEF Accounted, IsStored
<1>6. CASE i # g
  BY <1>1, <1>2, <1>4, <1>6 DEF Accounted, IsStored
<1> QED BY <1>5, <1>6

LEMMA AccountedStep ==
    ASSUME UplinkTypeOK, IndInv, WaitsForItsOwn, CacheInv, NothingLostInSilence,
           [UplinkNext]_allvars
    PROVE  NothingLostInSilence'
<1>1. ASSUME UNCHANGED <<failed, taken, current>>,
             \A i \in Gateways : pc[i] \in {"post", "wait"} => pc'[i] \in {"post", "wait"}
      PROVE  NothingLostInSilence'
  BY <1>1, StoredStays DEF NothingLostInSilence
<1>2. ASSUME NEW o \in Origins, Send(o)
      PROVE  NothingLostInSilence'
  BY <1>1, <1>2 DEF Send, gateway
<1>3. ASSUME NEW g \in Gateways,
             Reach(g) \/ TapDrained(g) \/ TapFails(g) \/ RadioTimesOut(g)
      PROVE  NothingLostInSilence'
  BY <1>1, <1>3 DEF Reach, TapDrained, TapFails, RadioTimesOut, TurnTo, UplinkTypeOK
<1>4. ASSUME NEW g \in Gateways, NEW h \in Handlers, Post(g, h)
      PROVE  NothingLostInSilence'
  BY <1>1, <1>4 DEF Post, UplinkTypeOK
<1>5. ASSUME NEW g \in Gateways, TakeTap(g)
      PROVE  NothingLostInSilence'
  <2>1. Head(tapq[g]) \in Uplinks
    BY <1>5, QueueTaken DEF TakeTap, UplinkTypeOK
  <2>2. pc[g] = "tap" /\ Consider(g, Head(tapq[g]), TapKey(Head(tapq[g])))
    BY <1>5 DEF TakeTap
  <2> QED BY <2>1, <2>2, ConsiderAccounted
<1>6. ASSUME NEW g \in Gateways, TakeRadio(g)
      PROVE  NothingLostInSilence'
  <2>1. Head(rfq[g]) \in Uplinks
    BY <1>6, QueueTaken DEF TakeRadio, UplinkTypeOK
  <2>2. pc[g] = "radio" /\ Consider(g, Head(rfq[g]), RadioKey(Head(rfq[g])))
    BY <1>6 DEF TakeRadio
  <2> QED BY <2>1, <2>2, ConsiderAccounted
<1>7. ASSUME NEW g \in Gateways, PostFails(g) \/ GiveUp(g)
      PROVE  NothingLostInSilence'
  BY <1>7, EndPostAccounted DEF PostFails, GiveUp
<1>8. ASSUME NEW g \in Gateways, Answered(g)
      PROVE  NothingLostInSilence'
  <2>1. EndPost(g) /\ UNCHANGED vars
    BY <1>8 DEF Answered
  <2>2. CASE answer[waiting[g]].code \in {"stored", "duplicate"}
    <3>1. waiting[g] \in Handlers /\ answer[waiting[g]].key = DedupeKey(current[g])
      BY <1>8 DEF Answered, WaitsForItsOwn, UplinkTypeOK
    <3>2. IsStored(current[g])
      BY <2>2, <3>1 DEF IndInv, AcknowledgedIsStored, IsStored
    <3>3. failed' = failed
      BY <1>8, <2>2 DEF Answered
    <3> QED BY <2>1, <3>2, <3>3, EndPostAccounted
  <2>3. CASE answer[waiting[g]].code \notin {"stored", "duplicate"}
    <3>1. failed' = [failed EXCEPT ![g] = @ \union {current[g]}]
      BY <1>8, <2>3 DEF Answered
    <3> QED BY <2>1, <3>1, EndPostAccounted
  <2> QED BY <2>2, <2>3
<1>9. ASSUME NEW h \in Handlers, Serve(h)
      PROVE  NothingLostInSilence'
  BY <1>1, <1>9 DEF Serve, gateway
<1>10. CASE UNCHANGED allvars
  BY <1>1, <1>10 DEF allvars, gateway
<1> QED BY <1>2, <1>3, <1>4, <1>5, <1>6, <1>7, <1>8, <1>9, <1>10 DEF UplinkNext, Loop

LEMMA AccountedInit == UplinkInit => CacheInv /\ NothingLostInSilence
BY GatewayAssumption
DEF UplinkInit, CacheInv, MarkedWasTaken, PostedOncePerSource, NothingLostInSilence, Newest,
    MinGap

(***************************************************************************)
(* The inductive invariant of gateways and server: with a store whose      *)
(* acknowledgements are backed, no gateway loses an uplink in silence or   *)
(* posts one twice for one source within --seen-limit.                     *)
(***************************************************************************)
THEOREM UplinkInvariance == UplinkSpec => []UplinkIndInv
<1> DEFINE Inv == UplinkTypeOK /\ WaitsForItsOwn /\ CacheInv /\ NothingLostInSilence
<1>1. UplinkInit => Inv
  BY UplinkTypeInit, AccountedInit
<1>2. Inv /\ IndInv /\ [UplinkNext]_allvars => Inv'
  BY UplinkTypeStep, OwnStep, CacheStep, AccountedStep
<1>3. Inv => UplinkIndInv
  BY DEF UplinkIndInv, CacheInv
<1> HIDE DEF Inv
<1> QED BY <1>1, <1>2, <1>3, StoreSoundBehindGateways, PTL DEF UplinkSpec

(***************************************************************************)
(* Marking an uplink as seen before posting it, and dropping its later     *)
(* copies, loses none that the gateway does not know to have failed.       *)
(***************************************************************************)
THEOREM NothingLost == UplinkSpec => []NothingLostInSilence
<1>1. UplinkIndInv => NothingLostInSilence
  BY DEF UplinkIndInv
<1> QED BY <1>1, UplinkInvariance, PTL

(***************************************************************************)
(* The server sees an uplink from a gateway once for the tap and once for  *)
(* the radio within --seen-limit others.                                   *)
(***************************************************************************)
THEOREM PostedOnce == UplinkSpec => []PostedOncePerSource
<1>1. UplinkIndInv => PostedOncePerSource
  BY DEF UplinkIndInv
<1> QED BY <1>1, UplinkInvariance, PTL
=============================================================================
