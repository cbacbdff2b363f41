---------------------------- MODULE C2EventStore ----------------------------
(***************************************************************************)
(* The C2 HTTP server (c2_http_server.py): one thread per request.  A      *)
(* thread decodes and decrypts the upload and stamps the event before it   *)
(* takes the store's lock; under the lock it drops what the store already  *)
(* has, or enters it, makes it the latest event of its node and evicts the *)
(* oldest event together with its deduplication key.                       *)
(***************************************************************************)
EXTENDS FifoCache

CONSTANTS
    Origins,      \* node ids
    MaxSeq,       \* largest origin_seq in an upload
    C2Keys,       \* key ids in use at the nodes
    Keyring,      \* the key ids the server has
    Handlers,     \* the server's request threads
    Nobody,       \* a thread that serves no request
    MaxEvents,    \* --max-events
    MaxRequests,  \* bound: requests in a behaviour
    MaxRestarts   \* bound: restarts in a behaviour

(***************************************************************************)
(* `intact` says that the upload is well formed, addressed to C2, and its  *)
(* envelope sealed for the route fields it comes with; `text` tells apart  *)
(* the contents of two uploads of one number, as from a node that          *)
(* restarted.                                                              *)
(***************************************************************************)
Uploads == [origin : Origins, seq : 1..MaxSeq, key : C2Keys, intact : BOOLEAN, text : {0, 1}]

ASSUME StoreAssumption ==
    /\ MaxEvents \in Nat \ {0}
    /\ MaxSeq \in Nat
    /\ MaxRequests \in Nat
    /\ MaxRestarts \in Nat
    /\ Keyring \subseteq C2Keys
    /\ Nobody \notin Uploads

VARIABLES
    request,   \* request[h]: the upload that thread h serves
    stage,     \* stage[h]: how far thread h is
    answer,    \* answer[h]: what h last told its client, with the upload's key
    seen,      \* _seen
    events,    \* _events, oldest first: the deque read from its right end
    latest,    \* _latest_by_node
    stored,    \* history: the uploads entered since the server started
    requests,  \* counts against MaxRequests
    restarts   \* counts against MaxRestarts

store == <<seen, events, latest, stored>>
vars == <<request, stage, answer, store, requests, restarts>>

(* The deduplication key of an upload and of the event made from it. *)
DedupeKey(u) == <<u.origin, u.seq, u.key>>
DedupeKeys == Origins \X (1..MaxSeq) \X C2Keys

Answers == [code : {"none", "bad_request", "stored", "duplicate"},
            key : DedupeKeys \union {<<>>}]
NoAnswer == [code |-> "none", key |-> <<>>]

Init ==
    /\ request = [h \in Handlers |-> Nobody]
    /\ stage = [h \in Handlers |-> "idle"]
    /\ answer = [h \in Handlers |-> NoAnswer]
    /\ seen = {}
    /\ events = <<>>
    /\ latest = [o \in Origins |-> Nobody]
    /\ stored = <<>>
    /\ requests = 0
    /\ restarts = 0

(* do_POST: a client's upload reaches a thread. *)
Receive(h, u) ==
    /\ stage[h] = "idle"
    /\ requests < MaxRequests
    /\ requests' = requests + 1
    /\ request' = [request EXCEPT ![h] = u]
    /\ stage' = [stage EXCEPT ![h] = "validating"]
    /\ UNCHANGED <<answer, store, restarts>>

Reply(h, code) ==
    /\ answer' = [answer EXCEPT ![h] = [code |-> code, key |-> DedupeKey(request[h])]]
    /\ stage' = [stage EXCEPT ![h] = "idle"]
    /\ request' = [request EXCEPT ![h] = Nobody]

(* The first half of ingest(): a key for it, and a tag that matches. *)
Valid(u) == u.key \in Keyring /\ u.intact

(* A server that notes the number before it knows the upload is genuine. *)
ValidateRemembering(h) ==
    /\ stage[h] = "validating"
    /\ seen' = seen \union {DedupeKey(request[h])}
    /\ IF Valid(request[h])
       THEN stage' = [stage EXCEPT ![h] = "entering"] /\ UNCHANGED <<request, answer>>
       ELSE Reply(h, "bad_request")
    /\ UNCHANGED <<events, latest, stored, requests, restarts>>

Validate(h) ==
    /\ stage[h] = "validating"
    /\ IF Valid(request[h])
       THEN stage' = [stage EXCEPT ![h] = "entering"] /\ UNCHANGED <<request, answer>>
       ELSE Reply(h, "bad_request")
    /\ UNCHANGED <<store, requests, restarts>>

(* An eviction that goes one event too far. *)
EvictedEarly(es) == {es[i] : i \in 1..(Len(es) - MaxEvents + 1)}

(* The events that eviction removes from a list grown too long. *)
Evicted(es) == {es[i] : i \in 1..(Len(es) - MaxEvents)}

(* The second half of ingest() for an upload that is new. *)
Enter(u) ==
    /\ seen' = (seen \union {DedupeKey(u)})
                 \ {DedupeKey(old) : old \in Evicted(Append(events, u))}
    /\ events' = Newest(Append(events, u), MaxEvents)
    /\ latest' = [latest EXCEPT ![u.origin] = u]
    /\ stored' = Append(stored, u)

(* A duplicate that still replaces the row of its node. *)
IngestRefreshing(h) ==
    /\ stage[h] = "entering"
    /\ IF DedupeKey(request[h]) \in seen
       THEN /\ latest' = [latest EXCEPT ![request[h].origin] = request[h]]
            /\ UNCHANGED <<seen, events, stored>>
            /\ Reply(h, "duplicate")
       ELSE Enter(request[h]) /\ Reply(h, "stored")
    /\ UNCHANGED <<requests, restarts>>

Ingest(h) ==
    /\ stage[h] = "entering"
    /\ IF DedupeKey(request[h]) \in seen
       THEN UNCHANGED store /\ Reply(h, "duplicate")
       ELSE Enter(request[h]) /\ Reply(h, "stored")
    /\ UNCHANGED <<requests, restarts>>

(* The server dies with all its threads and comes back empty. *)
Restart ==
    /\ restarts < MaxRestarts
    /\ restarts' = restarts + 1
    /\ request' = [h \in Handlers |-> Nobody]
    /\ stage' = [h \in Handlers |-> "idle"]
    /\ answer' = [h \in Handlers |-> NoAnswer]
    /\ seen' = {}
    /\ events' = <<>>
    /\ latest' = [o \in Origins |-> Nobody]
    /\ stored' = <<>>
    /\ UNCHANGED requests

Next ==
    \/ \E h \in Handlers : (\E u \in Uploads : Receive(h, u)) \/ Validate(h) \/ Ingest(h)
    \/ Restart

Spec == Init /\ [][Next]_vars
-----------------------------------------------------------------------------
(* The type invariant. *)
TypeOK ==
    /\ request \in [Handlers -> Uploads \union {Nobody}]
    /\ stage \in [Handlers -> {"idle", "validating", "entering"}]
    /\ \A h \in Handlers : stage[h] # "idle" => request[h] \in Uploads
    /\ answer \in [Handlers -> Answers]
    /\ seen \subseteq DedupeKeys
    /\ events \in Seq(Uploads)
    /\ latest \in [Origins -> Uploads \union {Nobody}]
    /\ stored \in Seq(Uploads)
    /\ requests \in Nat
    /\ restarts \in Nat

(***************************************************************************)
(* The three views of the store agree: the history is the recent past, and *)
(* the deduplication keys are exactly those of the history, so neither a   *)
(* forgotten event blocks an upload nor a remembered one is entered twice. *)
(***************************************************************************)
HistoryIsRecent == events = Newest(stored, MaxEvents)
SeenMatchesEvents == seen = {DedupeKey(events[i]) : i \in 1..Len(events)}

StoredKeys == [i \in 1..Len(stored) |-> DedupeKey(stored[i])]

(***************************************************************************)
(* However many gateways and threads bring an upload, and however often,   *)
(* it is entered again only after --max-events others.                     *)
(***************************************************************************)
StoredOncePerHistory == MinGap(StoredKeys, MaxEvents)

(***************************************************************************)
(* The row of a node is its last upload to be entered, also when the       *)
(* history has forgotten that one; duplicates and rejected uploads leave   *)
(* it alone.                                                               *)
(***************************************************************************)
IsLastOf(i, o) ==
    /\ stored[i].origin = o
    /\ \A j \in 1..Len(stored) : stored[j].origin = o => j <= i

RowIsLastEntered ==
    \A o \in Origins :
        /\ latest[o] = Nobody => \A i \in 1..Len(stored) : stored[i].origin # o
        /\ latest[o] # Nobody =>
              \E i \in 1..Len(stored) : IsLastOf(i, o) /\ latest[o] = stored[i]

(***************************************************************************)
(* A client that is told "stored" or "duplicate" can rely on it: a genuine *)
(* upload with that key has been entered.  An upload that fails to         *)
(* authenticate cannot make the genuine one a duplicate.                   *)
(***************************************************************************)
AcknowledgedIsStored ==
    \A h \in Handlers :
        answer[h].code \in {"stored", "duplicate"} =>
            \E i \in 1..Len(stored) :
                Valid(stored[i]) /\ DedupeKey(stored[i]) = answer[h].key

(* What the threads have validated is valid, and so is all that is stored. *)
OnlyValidEnter ==
    /\ \A h \in Handlers : stage[h] = "entering" => Valid(request[h])
    /\ \A i \in 1..Len(stored) : Valid(stored[i])

IndInv ==
    /\ TypeOK
    /\ OnlyValidEnter
    /\ HistoryIsRecent
    /\ SeenMatchesEvents
    /\ StoredOncePerHistory
    /\ RowIsLastEntered
    /\ AcknowledgedIsStored
=============================================================================
