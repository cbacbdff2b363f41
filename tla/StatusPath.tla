----------------------------- MODULE StatusPath -----------------------------
(***************************************************************************)
(* Status heartbeats on their way to the dashboard: the status transmitter *)
(* (node_status_tx.py) advertises its logical nodes, mesh nodes            *)
(* (mesh_txrx.py) relay what it wraps in route_data, and the base's        *)
(* process_radio_payload (dashboard_server.py) reads what it hears.  The   *)
(* three programs share no code but the codec (AppProto), and any frame    *)
(* may be on the air besides theirs.                                       *)
(*                                                                         *)
(* The transmitter may be restarted: it forgets its sequence numbers,      *)
(* while the relays keep the keys they have seen.  What the transmitter    *)
(* sends is not lost on its way to the relays near it: loss, restarts of   *)
(* the relays and the ttl's radius are MeshFlood's.                        *)
(***************************************************************************)
EXTENDS AppProto, FifoCache, Sequences, FiniteSets

CONSTANTS
    Transmitter,    \* the process that sends heartbeats, and
    Sender,         \* its --sender-id
    Logical,        \* its logical nodes in order: Sender, then --sim-node
    Mesh,           \* --mesh
    Ttl,            \* --ttl
    Relays,         \* the mesh nodes, by sender id
    Base,           \* the dashboard's receiver
    Key,            \* Key[r]: the mesh-group key of relay r, or NoKey
    NoKey,
    Hears,          \* Hears[x]: who hears x, for transmitter, relays, Stranger
    Stranger,       \* any other station on the stream
    ForeignFrames,  \* what it may send
    SeenLimit,      \* --seen-limit
    ReplayLimit,    \* replay_window
    BeatSize,       \* bytes of a heartbeat's JSON text
    MaxPayload,     \* wfb_rs_max_payload()
    RxLimit,        \* bound: frames that wait at a relay
    MaxForeign,     \* bound: foreign frames in a behaviour
    MaxRestarts     \* bound: restarts of the transmitter

Stations == Relays \union {Transmitter, Stranger}
Ids == {Logical[i] : i \in DOMAIN Logical}
NoOne == [origin |-> 0, via |-> 0, run |-> 0]

ASSUME ConfigAssumption ==
    /\ Logical \in Seq(1 .. MaxU8) /\ Logical # <<>> /\ Logical[1] = Sender
    /\ \A i, j \in DOMAIN Logical : Logical[i] = Logical[j] => i = j
    /\ Ids \union Relays \subseteq 1 .. MaxU8
    /\ Ttl \in 0 .. MaxU8
    /\ Hears \in [Stations -> SUBSET (Relays \union {Base})]
    /\ SeenLimit \in Nat \ {0}
    /\ {RxLimit, MaxForeign, MaxRestarts} \subseteq Nat

(* The radio's limit is far below a u16 (compute_max_payload), and a status  *)
(* text fits: a dozen short fields.                                         *)
ASSUME SizeAssumption ==
    /\ MaxU32 \in Nat \ {0}
    /\ MaxPayload \in 0 .. MaxU16
    /\ BeatSize \in Nat \ {0}
    /\ HeaderSize + RouteDataSize + BeatSize <= MaxPayload

VARIABLES
    seq,       \* StatusNode.seq
    turn,      \* the logical node whose heartbeat is next in the cycle
    run,       \* which run of the transmitter this is
    rxq,       \* rxq[r]: frames relay r has heard and not yet taken
    seen,      \* seen[r]: its SeenRoutes cache
    replay,    \* replay[r]: its ReplayWindow cache
    crashed,   \* relays ended by an exception
    told,      \* what the last step told the base
    foreign,   \* counts against MaxForeign
    accepted,  \* history: accepted[r]: keys r accepted from this run
    refused,   \* history: refused[r]: keys of this run r dropped for old ones
    underway   \* history: older keys on the air when this run began

mesh    == <<seen, replay, crashed>>
history == <<accepted, refused, underway>>
vars    == <<seq, turn, run, rxq, mesh, told, foreign, history>>

Init ==
    /\ seq = [n \in Ids |-> 1]
    /\ turn = 1
    /\ run = 1
    /\ rxq = [r \in Relays |-> <<>>]
    /\ seen = [r \in Relays |-> <<>>]
    /\ replay = [r \in Relays |-> <<>>]
    /\ crashed = {}
    /\ told = NoOne
    /\ foreign = 0
    /\ accepted = [r \in Relays |-> {}]
    /\ refused = [r \in Relays |-> {}]
    /\ underway = {}

-----------------------------------------------------------------------------
(* The base. *)

(* The run a payload speaks of, 0 when it is no heartbeat. *)
RunOf(p) == IF "run" \in DOMAIN p THEN p.run ELSE 0

(* What process_radio_payload makes of a frame: the origin and the relay it  *)
(* notes, or nobody for a malformed one.                                    *)
Observation(f) ==
    IF ~FrameDecodes(f) THEN NoOne
    ELSE IF f.type = Types.route_data
    THEN IF RouteDecodes(f.payload)
            /\ (f.payload.inner = Types.sync => SyncDecodes(f.payload.body))
         THEN [origin |-> f.payload.origin, via |-> f.sender, run |-> RunOf(f.payload.body)]
         ELSE NoOne
    ELSE IF f.type = Types.sync /\ ~SyncDecodes(f.payload) THEN NoOne
    ELSE [origin |-> f.sender, via |-> f.sender, run |-> RunOf(f.payload)]

(* x transmits f: relays with room queue it, the base reads it at once. *)
Air(queues, x, f) ==
    /\ rxq' = [r \in Relays |-> IF r \in Hears[x] /\ Len(queues[r]) < RxLimit
                                THEN Append(queues[r], f) ELSE queues[r]]
    /\ told' = IF Base \in Hears[x] THEN Observation(f) ELSE NoOne

-----------------------------------------------------------------------------
(* The status transmitter. *)

NextSeq(s) == IF s = MaxU32 THEN 1 ELSE s + 1

(* The JSON status of the current run; its time stamp tells runs apart.     *)
(* Its first byte is a brace, where an envelope has its version.            *)
Beat == [size |-> BeatSize, form |-> "json", version |-> 123, run |-> run]

BeatFrame(n) ==
    IF Mesh
    THEN Frame(Sender, Types.route_data, 0,
               RoutePayload([origin |-> n, dest |-> 0, ttl |-> Ttl, seq |-> seq[n],
                             inner |-> Types.status, body |-> Beat]))
    ELSE Frame(n, Types.status, seq[n], Beat)

ForeignWaits ==
    \E r \in Relays : \E i \in DOMAIN rxq[r] : rxq[r][i].sender \notin Relays \union {Sender}

(* One heartbeat of the `for node in nodes` loop. *)
Heartbeat ==
    /\ ~ForeignWaits
    /\ \A r \in Hears[Transmitter] \ {Base} : Len(rxq[r]) < RxLimit
    /\ Air(rxq, Transmitter, BeatFrame(Logical[turn]))
    /\ seq' = [seq EXCEPT ![Logical[turn]] = NextSeq(@)]
    /\ turn' = IF turn = Len(Logical) THEN 1 ELSE turn + 1
    /\ UNCHANGED <<run, mesh, foreign, history>>

(* The frames that wait anywhere. *)
OnAir == UNION {{rxq[r][i] : i \in DOMAIN rxq[r]} : r \in Relays}

KeysOnAir == {<<f.payload.origin, f.payload.seq>> :
                 f \in {g \in OnAir : /\ g.type = Types.route_data
                                     /\ g.size > HeaderSize + RouteDataSize}}

(* The process ends anywhere in a cycle and is started again: every number  *)
(* begins at 1.                                                             *)
Restart ==
    /\ run <= MaxRestarts
    /\ run' = run + 1
    /\ seq' = [n \in Ids |-> 1]
    /\ turn' = 1
    /\ accepted' = [r \in Relays |-> {}]
    /\ refused' = [r \in Relays |-> {}]
    /\ underway' = KeysOnAir
    /\ told' = NoOne
    /\ UNCHANGED <<rxq, mesh, foreign>>

(* Bound: foreign frames come when nothing else is on the air, and are      *)
(* taken before the next heartbeat.                                         *)
StrangerSends ==
    /\ foreign < MaxForeign
    /\ \A r \in Relays : rxq[r] = <<>>
    /\ \E f \in ForeignFrames : Air(rxq, Stranger, f)
    /\ foreign' = foreign + 1
    /\ UNCHANGED <<seq, turn, run, mesh, history>>

-----------------------------------------------------------------------------
(* A relay's receive handler. *)

(* The frame a running relay takes next, if there is one. *)
Waiting(r) ==
    IF r \in crashed \/ rxq[r] = <<>> THEN {} ELSE {Head(rxq[r])}

Taken(r) == [rxq EXCEPT ![r] = Tail(@)]

(* The frame is used up, and nothing is sent. *)
Consume(r) == rxq' = Taken(r) /\ told' = NoOne

(* The route a frame carries, where both decoders take it. *)
CarriesV1(f) == FrameDecodes(f) /\ f.type = Types.route_data /\ RouteDecodes(f.payload)
CarriesV2(f) == FrameDecodes(f) /\ f.type = Types.route_v2 /\ RouteV2Decodes(f.payload)

DedupeKey(f) == IF f.type = Types.route_v2
                THEN <<f.payload.originType, f.payload.origin, f.payload.seq>>
                ELSE <<f.payload.origin, f.payload.seq>>

(* A v2 origin is the node itself only if it is a node (origin_type).       *)
IsOwn(r, f) ==
    f.payload.origin = r /\ (f.type = Types.route_v2 => f.payload.originType = Addr.node)

IsBeat(f) == f.type = Types.route_data /\ f.payload.body.form = "json"
OfThisRun(f) == IsBeat(f) /\ f.payload.body.run = run

(* A cache that never forgets. *)
RememberAll(r, f) ==
    seen' = [seen EXCEPT ![r] = IF Known(@, DedupeKey(f)) THEN @ ELSE Append(@, DedupeKey(f))]

RememberSeen(r, f) == seen' = [seen EXCEPT ![r] = Remember(@, DedupeKey(f), SeenLimit)]

(* decrypt_mesh_payload is asked for more than the payload as it is. *)
Sealed(r, f) == f.type = Types.route_data /\ Key[r] # NoKey /\ f.payload.inner # Types.sync

Authentic(r, f) ==
    /\ SecureDecodes(f.payload.body)
    /\ LET b == f.payload.body
       IN  SecureOpens(b, Key[r], RouteAad(f.payload, b.plain))

(***************************************************************************)
(* What every frame has that the radio hands over, whatever its bytes: no  *)
(* more of them than the radio takes (rx.rs:430), header fields of the     *)
(* width they are unpacked with, a payload that is the rest of the frame,  *)
(* and an envelope made with a relay's key as long as what is in it.       *)
(***************************************************************************)
RouteFields == {"origin", "dest", "ttl", "seq", "inner", "body"}
RouteV2Fields == RouteFields \union {"originType", "destType", "class"}

WellFormed(f) ==
    /\ f.size \in 0 .. MaxPayload
    /\ f.type = Types.route_data /\ f.size > HeaderSize + RouteDataSize =>
          IsU8(f.payload.origin) /\ IsU32(f.payload.seq)
    /\ CarriesV1(f) =>
          /\ RouteFields \subseteq DOMAIN f.payload
          /\ IsU8(f.payload.origin) /\ IsU8(f.payload.dest) /\ IsU8(f.payload.ttl)
          /\ IsU32(f.payload.seq)
          /\ f.payload.size = f.size - HeaderSize
          /\ f.payload.body.size = f.payload.size - RouteDataSize
          /\ \A r \in Relays :
                LET b == f.payload.body
                IN  SecureDecodes(b) /\ b.key = Key[r] =>
                        b.plain.size \in Nat /\ b.size = SecureSize + b.plain.size + TagSize
    /\ CarriesV2(f) =>
          /\ RouteV2Fields \subseteq DOMAIN f.payload
          /\ IsU8(f.payload.ttl) /\ IsU32(f.payload.seq)
          /\ f.payload.size = f.size - HeaderSize
          /\ f.payload.body.size = f.payload.size - RouteV2Size

ASSUME WireAssumption == \A f \in ForeignFrames : WellFormed(f)

(* Stations go by ids of their own, and send no status of the transmitter's. *)
ASSUME StrangerAssumption ==
    \A f \in ForeignFrames :
        /\ f.sender \notin Relays \union {Sender}
        /\ CarriesV1(f) => f.payload.origin \notin Ids /\ f.payload.body.form # "json"

ReplayKey(f) == <<f.payload.body.key, f.payload.origin, f.payload.seq>>

(* Frames of other types, and frames a decoder refuses. *)
Ignore(r, f) ==
    /\ ~CarriesV1(f) /\ ~CarriesV2(f)
    /\ Consume(r)
    /\ UNCHANGED <<seq, turn, run, mesh, foreign, history>>

DropOwn(r, f) ==
    /\ CarriesV1(f) \/ CarriesV2(f)
    /\ IsOwn(r, f)
    /\ RememberSeen(r, f)
    /\ Consume(r)
    /\ UNCHANGED <<seq, turn, run, replay, crashed, foreign, history>>

(* A route of somebody else that the relay may know or not. *)
IsOthers(r, f) == (CarriesV1(f) \/ CarriesV2(f)) /\ ~IsOwn(r, f)

DropDuplicate(r, f) ==
    /\ IsOthers(r, f)
    /\ Known(seen[r], DedupeKey(f))
    /\ refused' = IF OfThisRun(f) /\ DedupeKey(f) \notin accepted[r]
                  THEN [refused EXCEPT ![r] = @ \union {DedupeKey(f)}] ELSE refused
    /\ Consume(r)
    /\ UNCHANGED <<seq, turn, run, mesh, foreign, accepted, underway>>

IsNew(r, f) == IsOthers(r, f) /\ ~Known(seen[r], DedupeKey(f))

(* auth_fail and invalid_e2e. *)
Refuses(r, f) ==
    IF f.type = Types.route_v2 THEN ~SecureDecodes(f.payload.body)
    ELSE Sealed(r, f) /\ (~Authentic(r, f) \/ Known(replay[r], ReplayKey(f)))

(* Dropped, and not remembered. *)
DropRefused(r, f) ==
    /\ IsNew(r, f)
    /\ Refuses(r, f)
    /\ Consume(r)
    /\ UNCHANGED <<seq, turn, run, mesh, foreign, history>>

(* A relay that passes on the envelope it received. *)
ForwardBodyUnsealed(r, f) == f.payload.body

(* encrypt_mesh_payload for the next hop, or the payload as it came. *)
ForwardBody(r, f) ==
    IF Sealed(r, f)
    THEN LET plain == f.payload.body.plain
         IN  Secure(Key[r], plain, RouteAad(Decremented(f.payload), plain))
    ELSE f.payload.body

ForwardRoute(r, f) == [Decremented(f.payload) EXCEPT !.body = ForwardBody(r, f)]

ForwardFrame(r, type, route) ==
    Frame(r, type, 0, IF type = Types.route_v2 THEN RouteV2Payload(route)
                      ELSE RoutePayload(route))

(* The encoders of the forward path, and tx.send, raise nothing: no         *)
(* exception of theirs is caught before it ends the loop.                   *)
ForwardSucceeds(r, type, route, frame) ==
    /\ IF type = Types.route_v2 THEN RouteV2Encodes(route) ELSE RouteEncodes(route)
    /\ FrameEncodes(r, type, 0, frame.payload)
    /\ frame.size <= MaxPayload

(* What accepting a frame enters into the caches. *)
Accept(r, f) ==
    /\ IsNew(r, f)
    /\ ~Refuses(r, f)
    /\ RememberSeen(r, f)
    /\ replay' = IF Sealed(r, f)
                 THEN [replay EXCEPT ![r] = Remember(@, ReplayKey(f), ReplayLimit)]
                 ELSE replay
    /\ accepted' = IF OfThisRun(f)
                   THEN [accepted EXCEPT ![r] = @ \union {DedupeKey(f)}] ELSE accepted
    /\ UNCHANGED <<seq, turn, run, foreign, refused, underway>>

(* Delivered or in transit, a route with no ttl left goes no further. *)
AcceptLast(r, f) ==
    /\ Accept(r, f)
    /\ f.payload.ttl = 0
    /\ Consume(r)
    /\ UNCHANGED crashed

AcceptAndForward(r, f) ==
    /\ Accept(r, f)
    /\ f.payload.ttl > 0
    /\ \E route \in {ForwardRoute(r, f)}, type \in {f.type} :
       \E frame \in {ForwardFrame(r, type, route)} :
          IF ForwardSucceeds(r, type, route, frame)
          THEN Air(Taken(r), r, frame) /\ UNCHANGED crashed
          ELSE Consume(r) /\ crashed' = crashed \union {r}

Receive(r) ==
    \E f \in Waiting(r) : \/ Ignore(r, f) \/ DropOwn(r, f) \/ DropDuplicate(r, f)
                          \/ DropRefused(r, f) \/ AcceptLast(r, f) \/ AcceptAndForward(r, f)

Next == Heartbeat \/ Restart \/ StrangerSends \/ \E r \in Relays : Receive(r)

(* The transmitter's timer and the relays' loops never stop. *)
Spec == Init /\ [][Next]_vars /\ WF_vars(Heartbeat) /\ \A r \in Relays : WF_vars(Receive(r))

-----------------------------------------------------------------------------

(* Whatever comes in, a relay that accepted it can pass it on: nothing the  *)
(* decoders let through makes the encoders or the radio raise, which would  *)
(* end the relay's loop (mesh_txrx.py:2398-2415 and 2568-2590).             *)
(* "Do not crash the receiver on malformed frames", says PLAN.md.           *)
RelaysSurvive == crashed = {}

(* What the mesh's nodes make of the frames it sends: they fit the radio and *)
(* decode, a relayed heartbeat is the one that was sent but for its ttl, and *)
(* what else a relay with a key sends opens for those that share its key.    *)
(* A heartbeat in the clear may bear the id of a relay with a key: that of   *)
(* the mesh node on the transmitter's host.                                 *)
MeshRoutesCarried ==
    \A f \in OnAir : f.sender \in Relays \union {Sender} /\ f.type \in NestedRoutes =>
        /\ f.size <= MaxPayload
        /\ CarriesV1(f) \/ CarriesV2(f)
        /\ IsBeat(f) => /\ f.payload.ttl <= Ttl
                        /\ f.payload.body.size = BeatSize
                        /\ f.size = HeaderSize + RouteDataSize + BeatSize
        /\ f.sender \in Relays /\ Sealed(f.sender, f) => IsBeat(f) \/ Authentic(f.sender, f)

(* What the base makes of them: of a heartbeat it notes the origin, the     *)
(* relay and what its text says; of any other frame it notes at least who   *)
(* sent it, unless it is a relayed sync that is malformed inside.           *)
BaseNotes(f) ==
    /\ IsBeat(f) =>
          Observation(f) = [origin |-> f.payload.origin, via |-> f.sender,
                            run |-> RunOf(f.payload.body)]
    /\ Observation(f) = NoOne =>
          /\ f.type = Types.route_data /\ f.payload.inner = Types.sync
          /\ ~SyncDecodes(f.payload.body) /\ f.payload.origin \notin Ids

(* Three programs build and read these bytes (app_proto.py:398-489,         *)
(* mesh_txrx.py:1616, dashboard_server.py:657-713): every route the mesh    *)
(* sends decodes at the mesh, and heartbeats arrive at the base as they     *)
(* were sent, however often they were relayed.  A relay does pass on one     *)
(* thing that is refused behind it: a sync of a stranger's whose body has   *)
(* not the length of one.                                                   *)
MeshFramesUnderstood ==
    /\ MeshRoutesCarried
    /\ \A f \in OnAir :
          f.sender \in Relays \union {Sender} /\ f.type \in NestedRoutes => BaseNotes(f)

(* A restart silences the mesh, because its numbers begin at 1 again         *)
(* (node_status_tx.py:36) while every relay keeps the keys it has seen       *)
(* (mesh_txrx.py:2448): but no relay takes more heartbeats of the new run   *)
(* for old ones than its cache holds and were still on the air.             *)
OutageBounded ==
    \A r \in Relays : Cardinality(refused[r]) <= SeenLimit + Cardinality(underway)

-----------------------------------------------------------------------------
(* The inductive invariant of the proofs, in parts. *)

RouteKeys == ((0 .. MaxU8) \X (0 .. MaxU32))
             \union ((0 .. MaxU8) \X (0 .. MaxU8) \X (0 .. MaxU32))

TypeOK ==
    /\ seq \in [Ids -> 1 .. MaxU32]
    /\ turn \in 1 .. Len(Logical)
    /\ run \in Nat \ {0}
    /\ rxq \in [Relays -> Seq(OnAir)]
    /\ seen \in [Relays -> Seq(RouteKeys)]
    /\ \A r \in Relays : Len(seen[r]) <= SeenLimit
    /\ accepted \in [Relays -> SUBSET RouteKeys]
    /\ refused \in [Relays -> SUBSET RouteKeys]
    /\ underway \subseteq RouteKeys

(* A route_data frame with an origin among the logical nodes is a heartbeat *)
(* and nothing else is; one of an earlier run was on the air at the restart. *)
HeartbeatsKnown ==
    \A f \in OnAir : CarriesV1(f) =>
        /\ IsBeat(f) <=> f.payload.origin \in Ids
        /\ IsBeat(f) =>
              /\ f.payload.inner = Types.status
              /\ f.payload.body.version = 123
              /\ f.payload.body.size = BeatSize
              /\ f.payload.ttl <= Ttl
              /\ f.payload.body.run \in 1 .. run
              /\ f.payload.body.run # run => DedupeKey(f) \in underway

(* The keys by which r takes, or has taken, a heartbeat for one it has had, *)
(* though it accepted none with this key from this run.                     *)
Shadowed(r) ==
    {k \in (Ids \ {r}) \X (0 .. MaxU32) :
        k \in refused[r] \/ (Known(seen[r], k) /\ k \notin accepted[r])}

(* They were in its cache, or on the air, when the run began. *)
ShadowBounded ==
    \A r \in Relays :
        /\ refused[r] \subseteq Shadowed(r)
        /\ Cardinality(Shadowed(r) \ underway) <= SeenLimit

IndInv ==
    /\ TypeOK
    /\ \A f \in OnAir : WellFormed(f)
    /\ RelaysSurvive
    /\ MeshRoutesCarried
    /\ HeartbeatsKnown
    /\ ShadowBounded

(* The base goes on hearing of every logical node by way of the mesh,        *)
(* restarts or not.                                                         *)
HeardAgain ==
    \A n \in Ids : []<>(told.origin = n /\ told.run = run)
=============================================================================
