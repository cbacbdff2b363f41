------------------------------- MODULE RxRing -------------------------------
(***************************************************************************)
(* The receive path of WfbRx (rx.rs) as the Python node drives it: frames  *)
(* pile up in the kernel's capture buffer, recv() moves all of them into a *)
(* ring of fixed size when the ring has run empty, and hands them out one  *)
(* per call.  Frames keep coming while recv() runs.                        *)
(*                                                                         *)
(* A frame is its number in the order of arrival, and whether the parser   *)
(* accepts it.                                                             *)
(***************************************************************************)
EXTENDS Naturals, Sequences

CONSTANTS
    RingSize,    \* ring_size, after the default and the clamp
    KernelLimit, \* bound: frames in the capture buffer (more are lost)
    MaxArrivals  \* bound: frames in a behaviour

ASSUME RingAssumption ==
    /\ RingSize \in 2..128
    /\ KernelLimit \in Nat
    /\ MaxArrivals \in Nat

VARIABLES
    kernel,    \* the capture buffer: frames not yet seen by the receiver
    arrivals,  \* number of the frame that arrived last
    store,     \* ring_payload_store, ring_payload_len, ring_meta: per slot
    head,      \* ring_head
    tail,      \* ring_tail
    count,     \* ring_count
    pc,        \* where recv() is: "idle" between calls, "waiting", "draining"
    offered,   \* history: the last frame given to enqueue_decoded
    handed     \* history: the last frame recv() returned

ring == <<store, head, tail, count>>
vars == <<kernel, arrivals, store, head, tail, count, pc, offered, handed>>

Slots == 0..(RingSize - 1)
KernelFrames == [id : Nat, parses : BOOLEAN]

Init ==
    /\ kernel = <<>>
    /\ arrivals = 0
    /\ store = [i \in Slots |-> 0]
    /\ head = 0
    /\ tail = 0
    /\ count = 0
    /\ pc = "idle"
    /\ offered = 0
    /\ handed = 0

(* The capture buffer takes a frame, or is full. *)
Arrive ==
    /\ arrivals < MaxArrivals
    /\ arrivals' = arrivals + 1
    /\ \E ok \in BOOLEAN :
          kernel' = IF Len(kernel) < KernelLimit
                    THEN Append(kernel, [id |-> arrivals', parses |-> ok]) ELSE kernel
    /\ UNCHANGED <<store, head, tail, count, pc, offered, handed>>

(* A ring that overwrites its oldest frame when it is full. *)
EnqueueDecodedOverwriting(f) ==
    /\ store' = [store EXCEPT ![tail] = f]
    /\ tail' = (tail + 1) % RingSize
    /\ head' = IF count < RingSize THEN head ELSE (head + 1) % RingSize
    /\ count' = IF count < RingSize THEN count + 1 ELSE count

(* A ring that is taken to be full one frame too late. *)
EnqueueDecodedLate(f) ==
    IF count > RingSize
    THEN UNCHANGED ring
    ELSE /\ store' = [store EXCEPT ![tail] = f]
         /\ tail' = (tail + 1) % RingSize
         /\ count' = count + 1
         /\ UNCHANGED head

(* enqueue_decoded: "drop new frames when full". *)
EnqueueDecoded(f) ==
    IF count >= RingSize
    THEN UNCHANGED ring
    ELSE /\ store' = [store EXCEPT ![tail] = f]
         /\ tail' = (tail + 1) % RingSize
         /\ count' = count + 1
         /\ UNCHANGED head

(* pop_one, whose caller returns the frame. *)
PopOne ==
    /\ handed' = store[head]
    /\ head' = (head + 1) % RingSize
    /\ count' = count - 1
    /\ pc' = "idle"
    /\ UNCHANGED <<store, tail>>

(* A recv() that hands out buffered frames only when the poll reports new ones. *)
RecvBufferedWhenReady ==
    /\ pc = "idle" /\ count > 0
    /\ kernel # <<>>
    /\ PopOne
    /\ UNCHANGED <<kernel, arrivals, offered>>

(* recv() when the ring has frames: it does not look at the kernel. *)
RecvBuffered ==
    /\ pc = "idle" /\ count > 0
    /\ PopOne
    /\ UNCHANGED <<kernel, arrivals, offered>>

(* recv() with an empty ring starts its loop. *)
RecvEmpty ==
    /\ pc = "idle" /\ count = 0
    /\ pc' = "waiting"
    /\ UNCHANGED <<kernel, arrivals, store, head, tail, count, offered, handed>>

(***************************************************************************)
(* The time is up, with or without frames in the kernel: a timeout of 0 is *)
(* up before the first poll.  Or poll failed.                              *)
(***************************************************************************)
GiveUp ==
    /\ pc = "waiting"
    /\ pc' = "idle"
    /\ UNCHANGED <<kernel, arrivals, store, head, tail, count, offered, handed>>

PollReady ==
    /\ pc = "waiting"
    /\ kernel # <<>>
    /\ pc' = "draining"
    /\ UNCHANGED <<kernel, arrivals, store, head, tail, count, offered, handed>>

(* One turn of drain_pcap_nonblock. *)
DrainOne ==
    /\ pc = "draining"
    /\ kernel # <<>>
    /\ kernel' = Tail(kernel)
    /\ IF Head(kernel).parses
       THEN EnqueueDecoded(Head(kernel).id) /\ offered' = Head(kernel).id
       ELSE UNCHANGED <<store, head, tail, count, offered>>
    /\ UNCHANGED <<arrivals, pc, handed>>

(* Back to the loop of recv, which hands out a frame or goes on waiting. *)
DrainStop ==
    /\ pc = "draining"
    /\ IF count > 0
       THEN PopOne
       ELSE pc' = "waiting" /\ UNCHANGED <<store, head, tail, count, handed>>
    /\ UNCHANGED <<kernel, arrivals, offered>>

(* drain_pcap_nonblock takes any error for "nothing available". *)
DrainEmpty == kernel = <<>> /\ DrainStop
DrainFailed == kernel # <<>> /\ DrainStop

(* A channel switch: close_radio, then open_radio. *)
Reopen ==
    /\ pc = "idle"
    /\ kernel' = <<>>
    /\ store' = [i \in Slots |-> 0]
    /\ head' = 0
    /\ tail' = 0
    /\ count' = 0
    /\ UNCHANGED <<arrivals, pc, offered, handed>>

Recv == RecvBuffered \/ RecvEmpty \/ PollReady \/ DrainOne \/ DrainEmpty

Next == Arrive \/ Recv \/ GiveUp \/ DrainFailed \/ Reopen

Spec == Init /\ [][Next]_vars

(***************************************************************************)
(* The caller keeps calling recv, with a timeout that is not used up       *)
(* before the first poll every time, and the capture does not fail every   *)
(* time.                                                                   *)
(***************************************************************************)
FairSpec == Spec /\ WF_vars(Recv) /\ SF_vars(PollReady) /\ SF_vars(DrainOne)
-----------------------------------------------------------------------------
(* The type invariant. *)
TypeOK ==
    /\ kernel \in Seq(KernelFrames)
    /\ arrivals \in Nat
    /\ store \in [Slots -> Nat]
    /\ head \in Slots
    /\ tail \in Slots
    /\ count \in 0..RingSize
    /\ pc \in {"idle", "waiting", "draining"}
    /\ offered \in Nat
    /\ handed \in Nat

(* The slot of the i-th waiting frame. *)
SlotOf(i) == (head + i - 1) % RingSize

(* The frames that wait in the ring, oldest first. *)
Waiting == [i \in 1..count |-> store[SlotOf(i)]]

(* The next free slot is where the waiting frames end. *)
TailFollows == tail = (head + count) % RingSize

(* What is in the capture buffer came after what the ring has seen. *)
KernelLater ==
    /\ offered <= arrivals
    /\ \A i \in 1..Len(kernel) : offered < kernel[i].id /\ kernel[i].id <= arrivals
    /\ \A i, j \in 1..Len(kernel) : i < j => kernel[i].id < kernel[j].id

IndInv == TypeOK /\ TailFollows /\ KernelLater

(***************************************************************************)
(* Refinement: ring arithmetic, draining, timeouts and reopening amount to *)
(* a bounded FIFO that drops new frames when full.                         *)
(***************************************************************************)
Queue == INSTANCE FrameQueue WITH
            Capacity <- RingSize, queue <- Waiting, newest <- offered, handed <- handed

ImplementsQueue == Queue!Spec
FramesInOrder == Queue!InOrder

(***************************************************************************)
(* When the channel falls silent everything captured has been handed out   *)
(* or dropped: no frame is stranded in the kernel or in the ring.          *)
(***************************************************************************)
NothingStranded == <>[](kernel = <<>> /\ count = 0)
=============================================================================
