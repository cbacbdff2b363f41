------------------------------ MODULE C2Uplink ------------------------------
(***************************************************************************)
(* C2 uplinks from the mesh to the server: gateways (c2_gateway.py) take   *)
(* sealed uplinks from the local tap of a node on the same machine and     *)
(* from their own radio, drop what they have seen and post the rest to the *)
(* C2 server (C2EventStore).  A post is synchronous with a time-out, and a *)
(* request whose client gave up is still being served.                     *)
(*                                                                         *)
(* The gateway marks an uplink as seen before it posts it, and the two     *)
(* sources have keys of different shapes: (origin, seq) on the tap,        *)
(* (type, origin, seq) on the radio.                                       *)
(***************************************************************************)
EXTENDS C2EventStore

CONSTANTS
    Gateways,
    KeyOf,       \* KeyOf[o]: the key id that node o seals its uplinks with
    SeenLimit,   \* --seen-limit of the gateways
    Faulty,      \* TRUE: sockets fail, posts fail or time out
    NoHandler,   \* no request of the gateway is waited for
    MaxCopies    \* bound: copies of uplinks that reach the gateways

ASSUME GatewayAssumption ==
    /\ KeyOf \in [Origins -> C2Keys]
    /\ SeenLimit \in Nat \ {0}
    /\ Faulty \in BOOLEAN
    /\ NoHandler \notin Handlers
    /\ MaxCopies \in Nat

VARIABLES
    sent,      \* sent[o]: number of the last uplink of node o
    tapq,      \* tapq[g]: datagrams at the tap socket of gateway g
    rfq,       \* rfq[g]: uplinks at its radio
    gseen,     \* gseen[g]: its SeenRoutes cache
    pc,        \* pc[g]: "tap", "radio", "post" or "wait"
    current,   \* current[g]: the uplink it is posting
    waiting,   \* waiting[g]: the thread whose answer it waits for
    copies,    \* counts against MaxCopies
    marked,    \* history: the keys g entered into its cache
    taken,     \* history: the uplinks g took from the tap or the radio
    failed     \* history: the uplinks whose post failed, as far as g knows

gateway == <<tapq, rfq, gseen, pc, current, waiting, marked, taken, failed>>
allvars == <<vars, gateway, sent, copies>>

(* The s-th uplink of node o, the same from whichever source. *)
Uplink(o, s) == [origin |-> o, seq |-> s, key |-> KeyOf[o], intact |-> TRUE, text |-> 0]
Uplinks == {Uplink(o, s) : o \in Origins, s \in 1..MaxSeq}

(* A deduplication key that leaves out who the uplink comes from. *)
TapKeyWithoutOrigin(u) == <<u.seq>>

TapKey(u) == <<u.origin, u.seq>>
RadioKey(u) == <<"node", u.origin, u.seq>>
GatewayKeys == {TapKey(u) : u \in Uplinks} \union {RadioKey(u) : u \in Uplinks}

UplinkInit ==
    /\ Init
    /\ sent = [o \in Origins |-> 0]
    /\ tapq = [g \in Gateways |-> <<>>]
    /\ rfq = [g \in Gateways |-> <<>>]
    /\ gseen = [g \in Gateways |-> <<>>]
    /\ pc = [g \in Gateways |-> "tap"]
    /\ current = [g \in Gateways |-> Nobody]
    /\ waiting = [g \in Gateways |-> NoHandler]
    /\ copies = 0
    /\ marked = [g \in Gateways |-> <<>>]
    /\ taken = [g \in Gateways |-> {}]
    /\ failed = [g \in Gateways |-> {}]

-----------------------------------------------------------------------------
(* Nodes, mesh and taps: an uplink that was sent may reach a gateway any   *)
(* number of times, on either way, in any order, or never.                 *)

Send(o) ==
    /\ sent[o] < MaxSeq
    /\ sent' = [sent EXCEPT ![o] = @ + 1]
    /\ UNCHANGED <<vars, gateway, copies>>

Reach(g) ==
    /\ copies < MaxCopies
    /\ copies' = copies + 1
    /\ \E u \in Uplinks :
          /\ u.seq <= sent[u.origin]
          /\ \/ tapq' = [tapq EXCEPT ![g] = Append(@, u)] /\ UNCHANGED rfq
             \/ rfq' = [rfq EXCEPT ![g] = Append(@, u)] /\ UNCHANGED tapq
    /\ UNCHANGED <<vars, gseen, pc, current, waiting, marked, taken, failed, sent>>

-----------------------------------------------------------------------------
(* The loop of a gateway. *)

(* seen.remember(key), and what follows from its answer. *)
Consider(g, u, key) ==
    /\ taken' = [taken EXCEPT ![g] = @ \union {u}]
    /\ gseen' = [gseen EXCEPT ![g] = Remember(@, key, SeenLimit)]
    /\ IF Known(gseen[g], key)
       THEN /\ pc' = [pc EXCEPT ![g] = "tap"]
            /\ UNCHANGED <<current, marked>>
       ELSE /\ pc' = [pc EXCEPT ![g] = "post"]
            /\ current' = [current EXCEPT ![g] = u]
            /\ marked' = [marked EXCEPT ![g] = Append(@, key)]
    /\ UNCHANGED <<vars, waiting, failed, sent, copies>>

TakeTap(g) ==
    /\ pc[g] = "tap"
    /\ tapq[g] # <<>>
    /\ tapq' = [tapq EXCEPT ![g] = Tail(@)]
    /\ Consider(g, Head(tapq[g]), TapKey(Head(tapq[g])))
    /\ UNCHANGED rfq

TurnTo(g, place) ==
    /\ pc' = [pc EXCEPT ![g] = place]
    /\ UNCHANGED <<vars, tapq, rfq, gseen, current, waiting, marked, taken, failed, sent, copies>>

(* The tap is drained when recvfrom would block, or fails. *)
TapDrained(g) == pc[g] = "tap" /\ tapq[g] = <<>> /\ TurnTo(g, "radio")
TapFails(g) == Faulty /\ pc[g] = "tap" /\ tapq[g] # <<>> /\ TurnTo(g, "radio")

TakeRadio(g) ==
    /\ pc[g] = "radio"
    /\ rfq[g] # <<>>
    /\ rfq' = [rfq EXCEPT ![g] = Tail(@)]
    /\ Consider(g, Head(rfq[g]), RadioKey(Head(rfq[g])))
    /\ UNCHANGED tapq

RadioTimesOut(g) == pc[g] = "radio" /\ rfq[g] = <<>> /\ TurnTo(g, "tap")

(* urlopen: the request reaches a thread of the server ... *)
Post(g, h) ==
    /\ pc[g] = "post"
    /\ \A other \in Gateways : waiting[other] # h
    /\ Receive(h, current[g])
    /\ pc' = [pc EXCEPT ![g] = "wait"]
    /\ waiting' = [waiting EXCEPT ![g] = h]
    /\ UNCHANGED <<tapq, rfq, gseen, current, marked, taken, failed, sent, copies>>

(* A gateway that goes on without forgetting whom it waited for. *)
EndPostStillWaiting(g) ==
    /\ pc' = [pc EXCEPT ![g] = "tap"]
    /\ current' = [current EXCEPT ![g] = Nobody]
    /\ UNCHANGED <<waiting, tapq, rfq, gseen, marked, taken, sent, copies>>

(* Both sources continue with the tap, whether or not the post succeeded. *)
EndPost(g) ==
    /\ pc' = [pc EXCEPT ![g] = "tap"]
    /\ current' = [current EXCEPT ![g] = Nobody]
    /\ waiting' = [waiting EXCEPT ![g] = NoHandler]
    /\ UNCHANGED <<tapq, rfq, gseen, marked, taken, sent, copies>>

(* ... or it does not, *)
PostFails(g) ==
    /\ Faulty
    /\ pc[g] = "post"
    /\ failed' = [failed EXCEPT ![g] = @ \union {current[g]}]
    /\ EndPost(g)
    /\ UNCHANGED vars

(* the answer arrives, *)
Answered(g) ==
    /\ pc[g] = "wait"
    /\ stage[waiting[g]] = "idle"
    /\ failed' = IF answer[waiting[g]].code \in {"stored", "duplicate"} THEN failed
                 ELSE [failed EXCEPT ![g] = @ \union {current[g]}]
    /\ EndPost(g)
    /\ UNCHANGED vars

(* or it takes longer than 1.5 s, or is lost: the server goes on regardless. *)
GiveUp(g) ==
    /\ Faulty
    /\ pc[g] = "wait"
    /\ failed' = [failed EXCEPT ![g] = @ \union {current[g]}]
    /\ EndPost(g)
    /\ UNCHANGED vars

Loop(g) ==
    \/ TakeTap(g) \/ TapDrained(g) \/ TakeRadio(g) \/ RadioTimesOut(g)
    \/ \E h \in Handlers : Post(g, h)
    \/ Answered(g)

Serve(h) == (Validate(h) \/ Ingest(h)) /\ UNCHANGED <<gateway, sent, copies>>

UplinkNext ==
    \/ \E o \in Origins : Send(o)
    \/ \E g \in Gateways : Reach(g) \/ Loop(g) \/ TapFails(g) \/ PostFails(g) \/ GiveUp(g)
    \/ \E h \in Handlers : Serve(h)

UplinkSpec == UplinkInit /\ [][UplinkNext]_allvars

(* The loop of every gateway and the threads of the server go on. *)
FairUplinkSpec ==
    /\ UplinkSpec
    /\ \A g \in Gateways : WF_allvars(Loop(g))
    /\ \A h \in Handlers : WF_allvars(Serve(h))
-----------------------------------------------------------------------------
(* The type invariant. *)
UplinkTypeOK ==
    /\ TypeOK
    /\ sent \in [Origins -> 0..MaxSeq]
    /\ tapq \in [Gateways -> Seq(Uplinks)]
    /\ rfq \in [Gateways -> Seq(Uplinks)]
    /\ gseen \in [Gateways -> Seq(GatewayKeys)]
    /\ pc \in [Gateways -> {"tap", "radio", "post", "wait"}]
    /\ current \in [Gateways -> Uplinks \union {Nobody}]
    /\ waiting \in [Gateways -> Handlers \union {NoHandler}]
    /\ copies \in Nat
    /\ marked \in [Gateways -> Seq(GatewayKeys)]
    /\ taken \in [Gateways -> SUBSET Uplinks]
    /\ failed \in [Gateways -> SUBSET Uplinks]

IsStored(u) == \E i \in 1..Len(stored) : DedupeKey(stored[i]) = DedupeKey(u)

(***************************************************************************)
(* An uplink that a gateway has taken is at the server, on its way there,  *)
(* or known to the gateway as a failed post: marking it as seen before the *)
(* post, and dropping later copies, loses none in silence.                 *)
(***************************************************************************)
NothingLostInSilence ==
    \A g \in Gateways : \A u \in taken[g] :
        IsStored(u) \/ u \in failed[g] \/ (pc[g] \in {"post", "wait"} /\ current[g] = u)

(***************************************************************************)
(* A gateway posts an uplink once for the tap and once for the radio, and  *)
(* then again only after --seen-limit others.                              *)
(***************************************************************************)
PostedOncePerSource == \A g \in Gateways : MinGap(marked[g], SeenLimit)

(***************************************************************************)
(* A gateway that waits does so for its own uplink: the thread is serving  *)
(* it, or the answer there is the answer to it, and nobody else waits.     *)
(***************************************************************************)
WaitsForItsOwn ==
    \A g \in Gateways :
        /\ pc[g] = "wait" <=> waiting[g] # NoHandler
        /\ pc[g] \in {"post", "wait"} <=> current[g] # Nobody
        /\ pc[g] = "wait" =>
              IF stage[waiting[g]] = "idle"
              THEN answer[waiting[g]].key = DedupeKey(current[g])
              ELSE request[waiting[g]] = current[g]
        /\ \A other \in Gateways \ {g} :
              pc[g] = "wait" => waiting[other] # waiting[g]

(* The cache is the recent part of what was marked, all of it once taken. *)
MarkedWasTaken ==
    \A g \in Gateways :
        /\ gseen[g] = Newest(marked[g], SeenLimit)
        /\ \A i \in 1..Len(marked[g]) :
              \E u \in taken[g] : marked[g][i] \in {TapKey(u), RadioKey(u)}

UplinkIndInv ==
    /\ UplinkTypeOK
    /\ WaitsForItsOwn
    /\ MarkedWasTaken
    /\ NothingLostInSilence
    /\ PostedOncePerSource

(***************************************************************************)
(* The fate of an uplink that a gateway takes gets settled: it is stored,  *)
(* or the gateway knows that its post failed; no gateway waits for ever.   *)
(***************************************************************************)
TakenIsSettled ==
    \A g \in Gateways : \A u \in Uplinks :
        u \in taken[g] ~> IsStored(u) \/ u \in failed[g]

=============================================================================
