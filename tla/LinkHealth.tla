----------------------------- MODULE LinkHealth -----------------------------
(***************************************************************************)
(* The link-health tracker of one mesh_txrx.py node (LinkHealthTracker):   *)
(* every well-formed frame of another sender counts as a sign of life, and *)
(* once per turn of the main loop the tracker judges how long the node has *)
(* been alone.                                                             *)
(*                                                                         *)
(* The code keeps time stamps and compares differences with thresholds;    *)
(* the model keeps the differences, as ages that grow with the clock and   *)
(* stop at Horizon, an age beyond every threshold.  Time passes between    *)
(* any two steps: the loop may be held up by a blocking receive, an HTTP   *)
(* upload or a channel switch.                                             *)
(***************************************************************************)
EXTENDS Naturals

CONSTANTS
    Senders,        \* sender ids that occur in frames
    SenderId,       \* the id of this node
    PeerTimeout,    \* --peer-timeout-ms
    DegradedAfter,  \* --link-degraded-after-ms
    IsolatedAfter,  \* --link-isolated-after-ms
    MoveAfter,      \* --link-move-after-ms
    RtbAfter,       \* --link-rtb-after-ms
    RecoveryHold,   \* --link-recovery-hold-ms
    Horizon         \* bound: ages are not told apart beyond it

(* The argument checks of _main; they do not relate PeerTimeout. *)
ASSUME ThresholdAssumption ==
    /\ PeerTimeout \in Nat /\ 0 < PeerTimeout
    /\ DegradedAfter \in Nat /\ 0 < DegradedAfter
    /\ IsolatedAfter \in Nat /\ DegradedAfter < IsolatedAfter
    /\ MoveAfter \in Nat /\ IsolatedAfter < MoveAfter
    /\ RtbAfter \in Nat /\ MoveAfter < RtbAfter
    /\ RecoveryHold \in Nat

ASSUME HorizonAssumption ==
    Horizon \in Nat /\ PeerTimeout < Horizon /\ RtbAfter <= Horizon /\ RecoveryHold <= Horizon

Alarms == {"DEGRADED", "ISOLATED", "MOVING", "RTB"}
States == Alarms \union {"NOMINAL", "RECOVERY"}

Ages == 0..Horizon
Never == Horizon + 1   \* "no time stamp": None, or no entry in the dictionary

VARIABLES
    state,        \* _state
    linkAge,      \* now - _last_link_seen_at
    recoveryAge,  \* now - _recovery_started_at, or Never
    peerAge,      \* peerAge[p]: now - _peers_last_seen[p], or Never
    stateAge      \* history: time since the state last changed

linkVars == <<state, linkAge, recoveryAge, peerAge, stateAge>>

LinkInit ==
    /\ state = "NOMINAL"
    /\ linkAge = 0
    /\ recoveryAge = Never
    /\ peerAge = [p \in Senders |-> Never]
    /\ stateAge = 0

-----------------------------------------------------------------------------
(* A dictionary that is only ever added to. *)
PrunedNever(ages) == ages

(* _prune_stale_peers *)
Pruned(ages) == [p \in Senders |-> IF ages[p] > PeerTimeout THEN Never ELSE ages[p]]

(* active_peer_count(now) > 0 *)
SomeActive == \E p \in Senders : Pruned(peerAge)[p] # Never

(* note_peer: a frame's sender, unless it is the node itself. *)
NotePeer(p) ==
    /\ p # SenderId
    /\ peerAge' = Pruned([peerAge EXCEPT ![p] = 0])
    /\ linkAge' = 0
    /\ UNCHANGED <<state, recoveryAge, stateAge>>

(* The automatic status payload counts the peers, and so prunes them. *)
CountPeers ==
    /\ peerAge' = Pruned(peerAge)
    /\ UNCHANGED <<state, linkAge, recoveryAge, stateAge>>

(* The state of a node that hears nobody. *)
AloneState ==
    CASE linkAge >= RtbAfter -> "RTB"
      [] linkAge >= MoveAfter /\ linkAge < RtbAfter -> "MOVING"
      [] linkAge >= IsolatedAfter /\ linkAge < MoveAfter -> "ISOLATED"
      [] linkAge >= DegradedAfter /\ linkAge < IsolatedAfter -> "DEGRADED"
      [] linkAge < DegradedAfter -> "NOMINAL"

SwitchTo(s) ==
    /\ state' = s
    /\ stateAge' = IF s = state THEN stateAge ELSE 0

(* An alarm that forgets to stop the recovery clock. *)
EvaluateAloneKeepingClock == SwitchTo(AloneState) /\ UNCHANGED recoveryAge

(* The branches of evaluate(). *)
EvaluateAlone == SwitchTo(AloneState) /\ recoveryAge' = Never

(* A RECOVERY whose clock is never started. *)
EvaluateReestablishedUnclocked ==
    /\ state \in Alarms
    /\ UNCHANGED recoveryAge
    /\ SwitchTo("RECOVERY")

(* A sign of life after an alarm. *)
EvaluateReestablished ==
    /\ state \in Alarms
    /\ recoveryAge' = IF recoveryAge = Never THEN 0 ELSE recoveryAge
    /\ SwitchTo("RECOVERY")

(* The time in RECOVERY as the code measures it. *)
RecoveringFor == IF recoveryAge = Never THEN 0 ELSE recoveryAge

(* A recovery clock that starts again whenever it is read. *)
EvaluateRecoveringAfresh ==
    /\ state = "RECOVERY"
    /\ IF RecoveringFor >= RecoveryHold
       THEN recoveryAge' = Never /\ SwitchTo("NOMINAL")
       ELSE recoveryAge' = 0 /\ SwitchTo("RECOVERY")

EvaluateRecovering ==
    /\ state = "RECOVERY"
    /\ IF RecoveringFor >= RecoveryHold
       THEN recoveryAge' = Never /\ SwitchTo("NOMINAL")
       ELSE recoveryAge' = RecoveringFor /\ SwitchTo("RECOVERY")

EvaluateHealthy ==
    /\ state = "NOMINAL"
    /\ recoveryAge' = Never
    /\ SwitchTo("NOMINAL")

Evaluate ==
    /\ peerAge' = Pruned(peerAge)
    /\ UNCHANGED linkAge
    /\ \/ ~SomeActive /\ EvaluateAlone
       \/ SomeActive /\ EvaluateReestablished
       \/ SomeActive /\ EvaluateRecovering
       \/ SomeActive /\ EvaluateHealthy

Older(a) == IF a < Horizon THEN a + 1 ELSE a

(* The monotonic clock advances by one unit. *)
LinkTick ==
    /\ linkAge' = Older(linkAge)
    /\ stateAge' = Older(stateAge)
    /\ recoveryAge' = Older(recoveryAge)
    /\ peerAge' = [p \in Senders |-> Older(peerAge[p])]
    /\ UNCHANGED state

LinkNext == (\E p \in Senders : NotePeer(p)) \/ CountPeers \/ Evaluate \/ LinkTick

LinkSpec == LinkInit /\ [][LinkNext]_linkVars

(* Time goes on, and the main loop comes round to evaluate(). *)
LinkFairSpec == LinkSpec /\ WF_linkVars(LinkTick) /\ WF_linkVars(Evaluate)
-----------------------------------------------------------------------------
(* The type invariant. *)
LinkTypeOK ==
    /\ state \in States
    /\ linkAge \in Ages
    /\ recoveryAge \in Ages \union {Never}
    /\ peerAge \in [Senders -> Ages \union {Never}]
    /\ stateAge \in Ages

(***************************************************************************)
(* A node that has raised an alarm returns to NOMINAL only after having    *)
(* been in RECOVERY, without interruption, for the hold time: a link that  *)
(* flaps never looks healthy.  The code guarantees it only when peers stay *)
(* active at least until the DEGRADED threshold: otherwise the last peer   *)
(* can expire while its frame still counts as "recent_link".               *)
(***************************************************************************)
RecoveryHeld ==
    [][state # "NOMINAL" /\ state' = "NOMINAL"
         => state = "RECOVERY" /\ stateAge >= RecoveryHold]_linkVars

(* The recovery clock runs in RECOVERY and nowhere else, since it began. *)
RecoveryClockRuns ==
    recoveryAge = IF state = "RECOVERY" THEN stateAge ELSE Never

(* While an alarm stands, either the silence is long or its end is known. *)
AlarmExplained ==
    state # "NOMINAL" =>
        linkAge >= DegradedAfter \/ \E p \in Senders : peerAge[p] = linkAge

LinkIndInv == LinkTypeOK /\ RecoveryClockRuns /\ AlarmExplained

(***************************************************************************)
(* A node that hears nobody any more ends up, and stays, in RTB, from any  *)
(* state: expired peers, or a recovery under way, do not hold it back.     *)
(***************************************************************************)
SilenceEndsInRtb == <>[](linkAge > 0) => <>[](state = "RTB")

(***************************************************************************)
(* A node that from some time on always has an active peer ends up, and    *)
(* stays, in NOMINAL, although every frame and status report prunes and    *)
(* every turn of the loop evaluates again.                                 *)
(***************************************************************************)
SteadyLinkEndsNominal == <>[]SomeActive => <>[](state = "NOMINAL")
=============================================================================
