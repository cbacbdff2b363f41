----------------------------- MODULE FrameQueue -----------------------------
(***************************************************************************)
(* What WfbRx promises its caller, as the comment on its fields has it: a  *)
(* bounded FIFO that drops new frames when it is full.  Frames are         *)
(* numbered in the order the receiver gets to see them.                    *)
(***************************************************************************)
EXTENDS Naturals, Sequences

CONSTANT Capacity

VARIABLES
    queue,    \* frames that wait for the caller
    newest,   \* the last frame that was offered, 0 if none
    handed    \* the last frame the caller got, 0 if none

Init ==
    /\ queue = <<>>
    /\ newest = 0
    /\ handed = 0

(* A later frame comes in: kept if there is room. *)
Offer ==
    /\ newest' \in Nat /\ newest' > newest
    /\ queue' = IF Len(queue) < Capacity THEN Append(queue, newest') ELSE queue
    /\ UNCHANGED handed

(* The caller gets the oldest frame. *)
Get ==
    /\ queue # <<>>
    /\ handed' = Head(queue)
    /\ queue' = Tail(queue)
    /\ UNCHANGED newest

(* The receiver is closed and opened again. *)
Clear ==
    /\ queue' = <<>>
    /\ UNCHANGED <<newest, handed>>

Next == Offer \/ Get \/ Clear

Spec == Init /\ [][Next]_<<queue, newest, handed>>
-----------------------------------------------------------------------------
(* Frames wait in order, behind the one handed out and up to the newest. *)
Ordered ==
    /\ handed \in Nat /\ newest \in Nat /\ handed <= newest
    /\ queue \in Seq(Nat) /\ Len(queue) <= Capacity
    /\ \A i \in 1..Len(queue) : handed < queue[i] /\ queue[i] <= newest
    /\ \A i, j \in 1..Len(queue) : i < j => queue[i] < queue[j]

(***************************************************************************)
(* The caller never gets a frame twice, nor an older one after a newer     *)
(* one, however often the queue overflows or the receiver is reopened.     *)
(***************************************************************************)
InOrder == [][handed' # handed => handed' > handed]_<<queue, newest, handed>>
=============================================================================
