----------------------------- MODULE ChannelHop -----------------------------
(***************************************************************************)
(* Channel hopping of mesh nodes (python/examples/mesh_txrx.py with         *)
(* --channel-agility).  Every node computes the channel of the hour from    *)
(* its own UTC clock at the top of its loop, retunes when it differs from   *)
(* the channel it is on, and originates nothing until the guard after the   *)
(* retuning is over.  Between two looks at the clock the single thread may  *)
(* be held up by HTTP uploads and by the receiver's time-out.               *)
(*                                                                          *)
(* Time is counted in ticks and real: clock is the common true time, which  *)
(* every node's monotonic clock follows; node n's UTC clock is Skew[n]      *)
(* ahead of it.  A computing stretch of the loop takes at most WorkMs, so   *)
(* the clocks may advance between any two statements.                       *)
(***************************************************************************)
EXTENDS Integers, Sequences

CONSTANTS
    Nodes,          \* the nodes of the mesh
    Gateways,       \* those with --c2-http-forward-url
    Skew,           \* Skew[n]: by how much n's UTC clock is ahead
    HopChannels,    \* --hop-channels
    SlotMs,         \* --hop-slot-ms
    EpochMs,        \* --hop-epoch-ms
    SettleMs,       \* --channel-settle-ms
    GuardMs,        \* --channel-tx-guard-ms
    RxTimeoutMs,    \* --rx-timeout-ms
    PostMs,         \* the time-out of one upload
    WorkMs,         \* the longest computation between two blocking calls
    MaxClock        \* bound: when the model stops the clock

VARIABLES
    clock,          \* true time
    step,           \* where each node is in its loop
    until,          \* when it must have left that step
    stage,          \* how many of the turn's sends it has considered
    channel,        \* current_channel; while settling, the one being tuned
    guard,          \* tx_guard_until
    txAllowed       \* tx_allowed, read once per turn

vars == <<clock, step, until, stage, channel, guard, txAllowed>>

(***************************************************************************)
(* The longest time from one look at the schedule to the next.  In a turn:  *)
(* computing before and after the wait for a frame and once more at the     *)
(* top, and for a gateway up to three uploads of its own and one of a frame *)
(* it heard.  Around a switch: the switch.                                  *)
(***************************************************************************)
TurnMs(n) == 3 * WorkMs + RxTimeoutMs
             + (IF n \in Gateways THEN 4 * (PostMs + WorkMs) ELSE 0)

LookMs(n) == IF TurnMs(n) > SettleMs + 2 * WorkMs
             THEN TurnMs(n) ELSE SettleMs + 2 * WorkMs

(* How long after the start of a slot a node may still be off its channel. *)
LagMs(n) == LookMs(n) + SettleMs + WorkMs

(* The argument parser asks for no more than this. *)
ArgumentsOk ==
    /\ Gateways \subseteq Nodes
    /\ Skew \in [Nodes -> Int]
    /\ HopChannels \in Seq(Nat \ {0}) /\ HopChannels # <<>>
    /\ SlotMs \in Nat \ {0}
    /\ EpochMs \in Int
    /\ {SettleMs, GuardMs, PostMs, WorkMs, MaxClock} \subseteq Nat
    /\ RxTimeoutMs \in Nat \ {0}

ASSUME ArgumentsChecked == ArgumentsOk

(***************************************************************************)
(* What the parser does not ask for and the nodes need to meet: a slot long *)
(* enough to arrive in, and a guard that outlasts the slowest turn of any   *)
(* other node and the difference of the clocks.                             *)
(***************************************************************************)
SlotsLongEnough == \A n \in Nodes : LagMs(n) + GuardMs < SlotMs

GuardLongEnough ==
    \A m, n \in Nodes : LookMs(m) + WorkMs + (Skew[n] - Skew[m]) <= GuardMs

-----------------------------------------------------------------------------

(* _schedule_state at any time t: before the epoch slot 0 goes on. *)
ElapsedAt(n, t) == LET e == t + Skew[n] - EpochMs IN IF e < 0 THEN 0 ELSE e
SlotAt(n, t)    == ElapsedAt(n, t) \div SlotMs
InSlotAt(n, t)  == ElapsedAt(n, t) % SlotMs
SlotChannel(s)  == HopChannels[1 + (s % Len(HopChannels))]

(* And as the node reads it now. *)
Slot(n)      == SlotAt(n, clock)
InSlot(n)    == InSlotAt(n, clock)
Scheduled(n) == SlotChannel(Slot(n))

Steps == {"top", "settling", "send", "posting", "wait", "handle",
          "uploading", "handled", "ended"}

Enter(n, s, limit) ==
    /\ step'  = [step EXCEPT ![n] = s]
    /\ until' = [until EXCEPT ![n] = clock + limit]

(* main() begins by switching to the channel of the moment. *)
Init ==
    /\ clock = 0
    /\ step  = [n \in Nodes |-> "settling"]
    /\ until = [n \in Nodes |-> SettleMs + WorkMs]
    /\ stage = [n \in Nodes |-> 0]
    /\ channel = [n \in Nodes |-> Scheduled(n)]
    /\ guard = [n \in Nodes |-> 0]
    /\ txAllowed = [n \in Nodes |-> FALSE]

(* switch_channel up to the sleep in _set_channel: the radio is closed, and
   the channel of the state read just before is tuned. *)
BeginSwitch(n) ==
    /\ step[n] = "top"
    /\ Scheduled(n) # channel[n]
    /\ Enter(n, "settling", SettleMs + WorkMs)
    /\ channel' = [channel EXCEPT ![n] = Scheduled(n)]
    /\ UNCHANGED <<clock, stage, guard, txAllowed>>

(* Mutant: the guard counts from the closing of the radio. *)
FinishSwitchGuardFromClose(n) ==
    /\ step[n] = "settling"
    /\ clock >= until[n] - WorkMs
    /\ Enter(n, "top", WorkMs)
    /\ guard' = [guard EXCEPT ![n] = until[n] - WorkMs - SettleMs + GuardMs]
    /\ UNCHANGED <<clock, stage, channel, txAllowed>>

(* The rest of it: the radio opens, the guard counts from now, and `continue`
   leads to a new look at the schedule. *)
FinishSwitch(n) ==
    /\ step[n] = "settling"
    /\ clock >= until[n] - WorkMs
    /\ Enter(n, "top", WorkMs)
    /\ guard' = [guard EXCEPT ![n] = clock + GuardMs]
    /\ UNCHANGED <<clock, stage, channel, txAllowed>>

(* A failing ip or iw command, or a radio that does not open, ends the node. *)
SwitchFails(n) ==
    /\ step[n] = "settling"
    /\ step' = [step EXCEPT ![n] = "ended"]
    /\ UNCHANGED <<clock, until, stage, channel, guard, txAllowed>>

(* Mutant: the turn begins whatever the schedule says. *)
BeginTurnUnchecked(n) ==
    /\ step[n] = "top"
    /\ step' = [step EXCEPT ![n] = "send"]
    /\ stage' = [stage EXCEPT ![n] = 0]
    /\ txAllowed' = [txAllowed EXCEPT ![n] = clock >= guard[n]]
    /\ UNCHANGED <<clock, until, channel, guard>>

(* On the right channel: the turn begins. *)
BeginTurn(n) ==
    /\ step[n] = "top"
    /\ Scheduled(n) = channel[n]
    /\ step' = [step EXCEPT ![n] = "send"]
    /\ stage' = [stage EXCEPT ![n] = 0]
    /\ txAllowed' = [txAllowed EXCEPT ![n] = clock >= guard[n]]
    /\ UNCHANGED <<clock, until, channel, guard>>

(***************************************************************************)
(* The turn's sends, in this order: the periodic C2 image, one message from *)
(* the local-control queue, the node's own payload, the sync heartbeat.     *)
(* The first three are uploaded when the node is a gateway.                 *)
(***************************************************************************)
Uploads == 3
Sends   == 4

Send(n) ==
    /\ step[n] = "send"
    /\ stage[n] < Uploads
    /\ txAllowed[n]
    /\ stage' = [stage EXCEPT ![n] = @ + 1]
    /\ IF n \in Gateways
       THEN Enter(n, "posting", PostMs)
       ELSE UNCHANGED <<step, until>>
    /\ UNCHANGED <<clock, channel, guard, txAllowed>>

Uploaded(n) ==
    /\ step[n] = "posting"
    /\ Enter(n, "send", WorkMs)
    /\ UNCHANGED <<clock, stage, channel, guard, txAllowed>>

(* build_sync_payload asks the clock again: the heartbeat tells the channel
   of the schedule and travels on the channel the radio is tuned to. *)
SyncTold(n) == Scheduled(n)

SendSync(n) ==
    /\ step[n] = "send"
    /\ txAllowed[n]
    /\ stage[n] < Sends
    /\ stage' = [stage EXCEPT ![n] = Sends]
    /\ UNCHANGED <<clock, step, until, channel, guard, txAllowed>>

(* Whatever was not due is passed over; recv_optional waits for a frame. *)
Listen(n) ==
    /\ step[n] = "send"
    /\ Enter(n, "wait", RxTimeoutMs)
    /\ UNCHANGED <<clock, stage, channel, guard, txAllowed>>

(* Mutant: the wait is repeated until a frame comes. *)
NothingHeardWaitingOn(n) ==
    /\ step[n] = "wait"
    /\ clock = until[n]
    /\ Enter(n, "wait", RxTimeoutMs)
    /\ UNCHANGED <<clock, stage, channel, guard, txAllowed>>

NothingHeard(n) ==
    /\ step[n] = "wait"
    /\ clock = until[n]
    /\ Enter(n, "top", WorkMs)
    /\ UNCHANGED <<clock, stage, channel, guard, txAllowed>>

FrameHeard(n) ==
    /\ step[n] = "wait"
    /\ Enter(n, "handle", WorkMs)
    /\ UNCHANGED <<clock, stage, channel, guard, txAllowed>>

(* A gateway uploads an end-to-end route before it forwards it. *)
UploadHeard(n) ==
    /\ step[n] = "handle"
    /\ n \in Gateways
    /\ Enter(n, "uploading", PostMs)
    /\ UNCHANGED <<clock, stage, channel, guard, txAllowed>>

HeardUploaded(n) ==
    /\ step[n] = "uploading"
    /\ Enter(n, "handled", WorkMs)
    /\ UNCHANGED <<clock, stage, channel, guard, txAllowed>>

(* The frame is dropped or forwarded.  A forward looks neither at the guard
   nor at the schedule. *)
FrameDone(n) ==
    /\ step[n] \in {"handle", "handled"}
    /\ Enter(n, "top", WorkMs)
    /\ UNCHANGED <<clock, stage, channel, guard, txAllowed>>

Tick ==
    /\ clock < MaxClock
    /\ \A n \in Nodes : step[n] = "ended" \/ clock < until[n]
    /\ clock' = clock + 1
    /\ UNCHANGED <<step, until, stage, channel, guard, txAllowed>>

Loop(n) ==
    \/ BeginSwitch(n) \/ FinishSwitch(n) \/ SwitchFails(n)
    \/ BeginTurn(n) \/ Send(n) \/ Uploaded(n) \/ SendSync(n) \/ Listen(n)
    \/ NothingHeard(n) \/ FrameHeard(n) \/ UploadHeard(n) \/ HeardUploaded(n)
    \/ FrameDone(n)

Next == Tick \/ \E n \in Nodes : Loop(n)

Spec == Init /\ [][Next]_vars

-----------------------------------------------------------------------------

TypeOK ==
    /\ clock \in 0 .. MaxClock
    /\ step \in [Nodes -> Steps]
    /\ until \in [Nodes -> Nat]
    /\ stage \in [Nodes -> 0 .. Sends]
    /\ channel \in [Nodes -> Nat \ {0}]
    /\ guard \in [Nodes -> Nat]
    /\ txAllowed \in [Nodes -> BOOLEAN]

RadioOpen(n) == step[n] \notin {"settling", "ended"}

(* However long a turn is held up, LagMs after a slot has begun (and after
   the node has) the node listens on that slot's channel: the loop of
   mesh_txrx.py:2058-2280 looks at the schedule often enough. *)
OnScheduleInTime ==
    /\ TypeOK
    /\ \A n \in Nodes :
          /\ step[n] # "ended"
          /\ InSlot(n) >= LagMs(n)
          /\ clock >= LagMs(n)
          => RadioOpen(n) /\ channel[n] = Scheduled(n)

(* What a node originates on its scheduled channel finds every other running
   node that counts the same slot with its radio open on that channel: the
   guard, measured from the opening of the own radio by the monotonic clock,
   covers the others' slower switches, their uploads and their UTC clocks
   (mesh_txrx.py:2003 and 2077). *)
Rendezvous ==
    [][\A n \in Nodes :
          (Send(n) \/ SendSync(n)) /\ channel[n] = Scheduled(n)
          => \A m \in Nodes \ {n} :
                step[m] # "ended" /\ Slot(m) = Slot(n)
                => RadioOpen(m) /\ channel[m] = channel[n]]_vars

(* A heartbeat that tells another channel than the one it travels on was
   sent in the turn during which the slot ended: not later than that turn's
   uploads explain (build_sync_payload, mesh_txrx.py:1968). *)
SyncSoonTrue ==
    [][\A n \in Nodes :
          SendSync(n) /\ SyncTold(n) # channel[n]
          => InSlot(n) < WorkMs
                + (IF n \in Gateways THEN Uploads * (PostMs + WorkMs) ELSE 0)]_vars

-----------------------------------------------------------------------------
(* The inductive invariant of the proofs. *)

(* What k uploads of node n take, and how many it has behind it this turn. *)
UploadsMs(n, k) == IF n \in Gateways THEN k * (PostMs + WorkMs) ELSE 0
Sent(n) == IF stage[n] < Uploads THEN stage[n] ELSE Uploads

(* The time from a node's last look at the schedule to the end of its step. *)
Budget(n) ==
    CASE step[n] = "settling"  -> SettleMs + WorkMs
      [] step[n] = "send"      -> WorkMs + UploadsMs(n, Sent(n))
      [] step[n] = "posting"   -> UploadsMs(n, Sent(n))
      [] step[n] = "wait"      -> WorkMs + UploadsMs(n, Uploads) + RxTimeoutMs
      [] step[n] = "handle"    -> 2 * WorkMs + UploadsMs(n, Uploads) + RxTimeoutMs
      [] step[n] = "uploading" -> 2 * WorkMs + UploadsMs(n, Uploads) + RxTimeoutMs + PostMs
      [] step[n] = "handled"   -> 2 * WorkMs + UploadsMs(n, Uploads + 1) + RxTimeoutMs
      [] OTHER                 -> LookMs(n)

(* At t the slot of n had just begun, on a channel other than the one before. *)
JustChanged(n, t) ==
    /\ SlotAt(n, t) > 0
    /\ InSlotAt(n, t) < LookMs(n)
    /\ SlotsLongEnough => SlotChannel(SlotAt(n, t) - 1) # SlotChannel(SlotAt(n, t))

(* Node n tuned its channel when it looked at the schedule at `began`, and   *)
(* looked last at `looked`; from the one to the other the schedule named    *)
(* this channel at all times, and the guard counts from after the first.    *)
Tuned(n, began, looked) ==
    /\ began <= looked
    /\ began = 0 \/ JustChanged(n, began)
    /\ channel[n] = SlotChannel(SlotAt(n, looked))
    /\ SlotsLongEnough => \A t \in began .. looked : SlotChannel(SlotAt(n, t)) = channel[n]
    /\ until[n] <= looked + Budget(n)
    /\ IF step[n] = "settling"
       THEN began = looked /\ until[n] = looked + Budget(n)
       ELSE began + SettleMs + GuardMs <= guard[n]

OnTime(n) ==
    /\ clock <= until[n]
    /\ step[n] = "top" => until[n] <= clock + WorkMs
    /\ step[n] \in {"posting", "uploading", "handled"} => n \in Gateways
    /\ step[n] \in {"send", "posting"} /\ txAllowed[n] => guard[n] <= clock
    /\ \E began, looked \in 0 .. clock : Tuned(n, began, looked)

IndInv == TypeOK /\ \A n \in Nodes : step[n] # "ended" => OnTime(n)
=============================================================================
