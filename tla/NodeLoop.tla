------------------------------ MODULE NodeLoop ------------------------------
(***************************************************************************)
(* One turn after the other of a mesh node's single thread                  *)
(* (python/examples/mesh_txrx.py): take what local programs submitted,      *)
(* then send at most one C2 image, one local message, one payload of its    *)
(* own and one sync heartbeat - each when it is due and the guard after the *)
(* last channel switch is over - and wait for a frame.                      *)
(*                                                                          *)
(* Time is counted in ticks.  A turn, from one reading of the clock to the  *)
(* next, takes at most TurnMs (uploads and the receiver's time-out          *)
(* included); ChannelHop says what that bound is made of.  Deadlines are    *)
(* kept as the time left, so that the model runs for ever in a finite set   *)
(* of states.  Successive slots have different channels.                    *)
(***************************************************************************)
EXTENDS Naturals, Sequences, FiniteSets, SequencesExt

CONSTANTS
    MaxSubmitted,    \* bound: datagrams local programs submit
    SocketLimit,     \* bound: datagrams the socket's buffer takes
    Count,           \* --count, here not 0
    TxInterval,      \* --tx-interval-ms
    C2Interval,      \* --c2-uplink-interval-ms
    SyncInterval,    \* --sync-interval-ms
    SlotMs,          \* --hop-slot-ms
    SettleMs,        \* --channel-settle-ms
    GuardMs,         \* --channel-tx-guard-ms
    TurnMs           \* the longest turn

(***************************************************************************)
(* What a datagram turns out to be: a request; one that decoding rejects;   *)
(* one with a number that is no number (int(None) raises a TypeError, which *)
(* nobody catches); one that decoding takes and encoding refuses with an    *)
(* AppFrameError, for its message type is none the protocol knows or its    *)
(* envelope makes it longer than a length field can say; one that can be    *)
(* encoded, and is longer than the 4013 bytes the transmitter takes.        *)
(***************************************************************************)
Kinds == {"request", "rejected", "mistyped", "unsendable", "oversize"}

ASSUME LoopAssumption ==
    /\ {SocketLimit, Count, C2Interval, SyncInterval, SlotMs, TurnMs}
           \subseteq Nat \ {0}
    /\ {TxInterval, SettleMs, GuardMs, MaxSubmitted} \subseteq Nat

(* Datagrams are numbered as they are submitted. *)
Datagrams == [no : 1 .. MaxSubmitted, kind : Kinds]

(* Those that are messages to be sent: decoding takes them. *)
Queueable(d) == d.kind \in {"request", "unsendable", "oversize"}

VARIABLES
    step,        \* where the thread is
    age,         \* time since the turn, or the switch, began
    phase,       \* time since the slot began
    tuned,       \* current_channel is the slot's
    guardLeft,   \* time until tx_guard_until
    allowed,     \* tx_allowed
    due,         \* which deadlines the turn found passed
    left,        \* time until next_c2_uplink_at, next_tx_at, next_sync_at
    payloadRead, \* origin_payload is not None
    originated,  \* originated_count
    count,       \* datagrams submitted so far
    socket,      \* the local-control socket's buffer
    pending,     \* pending_local_c2
    accepted,    \* history: the messages the socket took
    sent,        \* history: local messages transmitted, in order
    refused      \* history: those dropped because they could not be encoded

time  == <<age, phase, guardLeft, left>>
local == <<count, socket, pending, accepted, sent, refused>>
own   == <<payloadRead, originated>>
vars  == <<step, time, tuned, allowed, due, own, local>>

Timers   == {"c2", "tx", "sync"}
Interval == [c2 |-> C2Interval, tx |-> TxInterval, sync |-> SyncInterval]
Steps    == {"top", "settling", "drain", "c2", "local", "origin", "sync", "wait", "ended"}

Less(a, b) == IF a > b THEN a - b ELSE 0

-----------------------------------------------------------------------------

Init ==
    /\ step = "settling" /\ age = 0 /\ phase \in 0 .. SlotMs - 1
    /\ tuned = TRUE /\ guardLeft = 0 /\ allowed = FALSE
    /\ due = {} /\ left = [t \in Timers |-> 0]
    /\ payloadRead = FALSE
    /\ originated = 0
    /\ count = 0 /\ socket = <<>> /\ pending = <<>>
    /\ accepted = {} /\ sent = <<>> /\ refused = {}

(* A datagram that finds the buffer full is lost, as datagrams are. *)
Submit(kind) ==
    /\ count < MaxSubmitted
    /\ step # "ended"
    /\ count' = count + 1
    /\ LET d == [no |-> count', kind |-> kind] IN
       IF Len(socket) < SocketLimit
       THEN /\ socket' = Append(socket, d)
            /\ accepted' = IF Queueable(d) THEN accepted \union {d} ELSE accepted
       ELSE UNCHANGED <<socket, accepted>>
    /\ UNCHANGED <<step, time, tuned, allowed, due, own, pending, sent, refused>>

Tick ==
    /\ step # "ended"
    /\ age < (IF step = "settling" THEN SettleMs ELSE TurnMs)
    /\ age' = age + 1
    /\ phase' = (phase + 1) % SlotMs
    /\ tuned' = (tuned /\ phase' # 0)
    /\ guardLeft' = Less(guardLeft, 1)
    /\ left' = [t \in Timers |-> Less(left[t], 1)]
    /\ UNCHANGED <<step, allowed, due, own, local>>

(* Mutant: current_channel is not updated. *)
BeginSwitchForgetting ==
    /\ step = "top" /\ ~tuned
    /\ step' = "settling" /\ age' = 0
    /\ UNCHANGED <<phase, tuned, guardLeft, left, allowed, due, own, local>>

(* switch_channel: close, tune and settle; open and start the guard. *)
BeginSwitch ==
    /\ step = "top" /\ ~tuned
    /\ step' = "settling" /\ age' = 0 /\ tuned' = TRUE
    /\ UNCHANGED <<phase, guardLeft, left, allowed, due, own, local>>

FinishSwitch ==
    /\ step = "settling" /\ age = SettleMs
    /\ step' = "top" /\ age' = 0 /\ guardLeft' = GuardMs
    /\ UNCHANGED <<phase, left, tuned, allowed, due, own, local>>

(* On the right channel: the turn begins by draining the socket. *)
BeginDrain ==
    /\ step = "top" /\ tuned
    /\ step' = "drain"
    /\ UNCHANGED <<time, tuned, allowed, due, own, local>>

(* drain_local_control_socket takes one datagram after the other, while more
   may be submitted: a request joins the queue, a rejected one is dropped. *)
Drain ==
    /\ step = "drain" /\ socket # <<>>
    /\ Head(socket).kind # "mistyped"
    /\ pending' = IF Queueable(Head(socket)) THEN Append(pending, Head(socket)) ELSE pending
    /\ socket' = Tail(socket)
    /\ UNCHANGED <<step, time, tuned, allowed, due, own, count, accepted, sent, refused>>

DrainRaises ==
    /\ step = "drain" /\ socket # <<>>
    /\ Head(socket).kind = "mistyped"
    /\ socket' = Tail(socket)
    /\ step' = "ended"
    /\ UNCHANGED <<time, tuned, allowed, due, own, count, pending, accepted, sent, refused>>

(***************************************************************************)
(* The payload is read in every turn; when that fails the next own send is  *)
(* put off by a full interval, due or not.                                  *)
(***************************************************************************)
ReadPayload(readable) ==
    /\ payloadRead' = readable
    /\ left' = IF readable THEN left ELSE [left EXCEPT !["tx"] = TxInterval]

(* The socket is empty, or its error is logged and ends the draining.  The    *)
(* clock is read once for the guard and all deadlines.                      *)
BeginTurn(readable) ==
    /\ step = "drain"
    /\ step' = "c2" /\ age' = 0
    /\ allowed' = (guardLeft = 0)
    /\ due' = {t \in Timers : left[t] = 0}
    /\ ReadPayload(readable)
    /\ UNCHANGED <<phase, guardLeft, tuned, originated, local>>

(* next_..._at = now + interval, where now is when the turn began. *)
Rearmed(t) == [left EXCEPT ![t] = Less(Interval[t], age)]

(* An image that does not fit is an error that is logged, and tried again
   after the interval. *)
SendC2 ==
    /\ step = "c2"
    /\ left' = IF allowed /\ "c2" \in due THEN Rearmed("c2") ELSE left
    /\ step' = "local"
    /\ UNCHANGED <<age, phase, guardLeft, tuned, allowed, due, own, local>>

(* Mutant: a local message only when no image was due. *)
MaySendLocalElse == allowed /\ pending # <<>> /\ "c2" \notin due

MaySendLocal == allowed /\ pending # <<>>

(* Mutant: the queue is popped before the guard is asked. *)
SendLocalPopping ==
    /\ step = "local"
    /\ IF MaySendLocal
       THEN /\ Head(pending).kind = "request"
            /\ sent' = Append(sent, Head(pending))
       ELSE UNCHANGED sent
    /\ pending' = IF pending = <<>> THEN <<>> ELSE Tail(pending)
    /\ step' = "origin"
    /\ UNCHANGED <<time, tuned, allowed, due, own, count, socket, accepted, refused>>

SendLocal ==
    /\ step = "local"
    /\ IF MaySendLocal
       THEN /\ Head(pending).kind = "request"
            /\ sent' = Append(sent, Head(pending))
            /\ pending' = Tail(pending)
       ELSE UNCHANGED <<sent, pending>>
    /\ step' = "origin"
    /\ UNCHANGED <<time, tuned, allowed, due, own, count, socket, accepted, refused>>

(* The message has left the queue when encoding refuses it: the error is
   logged, nothing is transmitted and the turn goes on. *)
SendLocalRefused ==
    /\ step = "local" /\ MaySendLocal
    /\ Head(pending).kind = "unsendable"
    /\ pending' = Tail(pending)
    /\ refused' = refused \union {Head(pending)}
    /\ step' = "origin"
    /\ UNCHANGED <<time, tuned, allowed, due, own, count, socket, accepted, sent>>

(* The transmitter's ValueError is not the AppFrameError the loop expects of
   a local message: it leaves the loop, and the queue is gone. *)
SendLocalRaises ==
    /\ step = "local" /\ MaySendLocal
    /\ Head(pending).kind = "oversize"
    /\ step' = "ended"
    /\ pending' = Tail(pending)
    /\ UNCHANGED <<time, tuned, allowed, due, own, count, socket, accepted, sent, refused>>

MayOriginate ==
    payloadRead /\ originated < Count /\ "tx" \in due /\ allowed

SendOwn ==
    /\ step = "origin"
    /\ IF MayOriginate
       THEN originated' = originated + 1 /\ left' = Rearmed("tx")
       ELSE UNCHANGED <<originated, left>>
    /\ step' = "sync"
    /\ UNCHANGED <<age, phase, guardLeft, tuned, allowed, due, payloadRead, local>>

MaySync == allowed /\ "sync" \in due

SendSync ==
    /\ step = "sync"
    /\ left' = IF MaySync THEN Rearmed("sync") ELSE left
    /\ step' = "wait"
    /\ UNCHANGED <<age, phase, guardLeft, tuned, allowed, due, own, local>>

(* recv_optional returns, with a frame or without; the turn's locals are
   done with. *)
Return ==
    /\ step = "wait"
    /\ step' = "top"
    /\ allowed' = FALSE /\ due' = {} /\ payloadRead' = FALSE
    /\ UNCHANGED <<time, tuned, originated, local>>

(* A radio that fails in any send, or in a switch, ends the node. *)
RadioFails ==
    /\ \/ step = "settling"
       \/ step = "c2" /\ allowed /\ "c2" \in due
       \/ step = "local" /\ MaySendLocal /\ Head(pending).kind = "request"
       \/ step = "origin" /\ MayOriginate
       \/ step = "sync" /\ MaySync
    /\ step' = "ended"
    /\ UNCHANGED <<time, tuned, allowed, due, own, local>>

Thread ==
    \/ BeginSwitch \/ FinishSwitch
    \/ BeginDrain \/ Drain \/ DrainRaises \/ \E readable \in BOOLEAN : BeginTurn(readable)
    \/ SendC2 \/ SendLocal \/ SendLocalRefused \/ SendLocalRaises \/ SendOwn \/ SendSync
    \/ Return

Next == Tick \/ Thread \/ RadioFails \/ \E kind \in Kinds : Submit(kind)

(* The thread is never blocked for ever, and time passes. *)
Fairness == WF_vars(Tick) /\ WF_vars(Thread)

Spec == Init /\ [][Next]_vars /\ Fairness

-----------------------------------------------------------------------------

TypeOK ==
    /\ step \in Steps
    /\ age \in 0 .. TurnMs \cup 0 .. SettleMs
    /\ phase \in 0 .. SlotMs - 1
    /\ guardLeft \in 0 .. GuardMs
    /\ tuned \in BOOLEAN /\ allowed \in BOOLEAN
    /\ payloadRead \in BOOLEAN
    /\ due \subseteq Timers
    /\ \A t \in Timers : left[t] \in 0 .. Interval[t]
    /\ originated \in 0 .. Count
    /\ count \in 0 .. MaxSubmitted
    /\ {socket, pending, sent} \subseteq Seq(Datagrams)
    /\ accepted \union refused \subseteq Datagrams
    /\ Len(socket) <= SocketLimit

(* Datagrams in the order of their submission, none of them twice; and two  *)
(* groups of that order, one after the other.                               *)
InOrder(ds)    == \A i, j \in DOMAIN ds : i < j => ds[i].no < ds[j].no
Before(ds, es) == \A d \in ds, e \in es : d.no < e.no

(* The messages whose turn has come: transmitted, or refused by encoding. *)
Handled == ToSet(sent) \union refused

(* While the node runs, every local message the socket took is transmitted,
   refused, queued or still in the socket; messages are dealt with in the
   order of submission, each once, and none is refused that can be encoded: no
   send of the loop's other kinds, no switch, no rejected datagram and no
   refused message in between loses or reorders one (mesh_txrx.py:1482-1508
   and 2136-2151).  A node that ended has passed over none before one that it
   dealt with. *)
LocalAccounted ==
    /\ TypeOK
    /\ InOrder(sent) /\ InOrder(pending) /\ InOrder(socket)
    /\ Before(Handled, ToSet(pending)) /\ Before(Handled, ToSet(socket))
    /\ Before(ToSet(pending), ToSet(socket))
    /\ \A d \in ToSet(sent) : d.kind = "request"
    /\ \A d \in refused : d.kind = "unsendable"
    /\ Handled \union ToSet(pending) \subseteq accepted
    /\ step # "ended" => accepted \subseteq Handled \union ToSet(pending) \union ToSet(socket)
    /\ \A d \in accepted, e \in Handled : d.no < e.no => d \in Handled

(* What is queued is dealt with, one message per turn whenever the guard
   allows, although other sends come first and the channel keeps changing: no
   queued message starves, and one that can be encoded is transmitted
   (mesh_txrx.py:2136; that it is not refused says LocalAccounted). *)
LocalSettled ==
    \A no \in 1 .. MaxSubmitted :
        (\E d \in ToSet(pending) : d.no = no)
            ~> (step = "ended" \/ \E d \in Handled : d.no = no)

(* A running node never ceases to send heartbeats: in every slot some turn
   finds the guard over, whatever the sends before it took
   (mesh_txrx.py:2077 and 2252). *)
SyncGoesOn == []<>(step = "ended" \/ (step = "sync" /\ MaySync))

=============================================================================
