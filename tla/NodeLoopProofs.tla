--------------------------- MODULE NodeLoopProofs ---------------------------
(***************************************************************************)
(* What one turn after the other of mesh_txrx.py keeps.                    *)
(*                                                                         *)
(* The local messages of a node, for every number of datagrams, every size *)
(* of the socket's buffer and all intervals: while the node runs, none is  *)
(* lost, repeated or overtaken that can be encoded.  Datagrams are numbered in the order in  *)
(* which they are submitted, and a message that moves on - from the socket *)
(* to the queue, from the queue to the air or, refused by encoding, to the *)
(* log - is the oldest that is left    *)
(* where it was and newer than all that went before.                       *)
(*                                                                         *)
(* The link health of a node, for all thresholds and any set of senders:   *)
(* an alarm does not end before the link has been back for the hold time.  *)
(***************************************************************************)
EXTENDS NodeLoop, LinkHealth, Integers, TLAPS

-----------------------------------------------------------------------------
(* Sequences as sets, and in order. *)

LEMMA ToSetAppend ==
    ASSUME NEW S, NEW s \in Seq(S), NEW e \in S
    PROVE  ToSet(Append(s, e)) = ToSet(s) \union {e}
<1> DEFINE t == Append(s, e)
<1>1. /\ Len(s) \in Nat /\ DOMAIN s = 1 .. Len(s) /\ DOMAIN t = 1 .. Len(s) + 1
      /\ t[Len(s) + 1] = e /\ \A i \in DOMAIN s : t[i] = s[i]
  OBVIOUS
<1> HIDE DEF t
<1>2. \A i \in DOMAIN t : t[i] \in ToSet(s) \union {e}
  BY <1>1 DEF ToSet
<1>3. \A i \in DOMAIN s : i \in DOMAIN t /\ s[i] = t[i]
  BY <1>1
<1>4. Len(s) + 1 \in DOMAIN t
  BY <1>1
<1> QED BY <1>1, <1>2, <1>3, <1>4 DEF ToSet, t

LEMMA ToSetTail ==
    ASSUME NEW S, NEW s \in Seq(S), s # <<>>
    PROVE  /\ Head(s) \in S /\ Tail(s) \in Seq(S)
           /\ ToSet(s) = {Head(s)} \union ToSet(Tail(s))
<1>1. /\ Len(s) \in Nat \ {0} /\ Head(s) = s[1] /\ s[1] \in S /\ Tail(s) \in Seq(S)
      /\ Len(Tail(s)) = Len(s) - 1
      /\ \A i \in 1 .. Len(s) - 1 : Tail(s)[i] = s[i + 1]
  OBVIOUS
<1>2. ASSUME NEW i \in DOMAIN s
      PROVE  s[i] \in {Head(s)} \union ToSet(Tail(s))
  <2>1. CASE i = 1
    BY <1>1, <2>1
  <2>2. CASE i # 1
    <3>1. i - 1 \in DOMAIN Tail(s) /\ Tail(s)[i - 1] = s[i]
      BY <1>1, <2>2
    <3> QED BY <3>1 DEF ToSet
  <2> QED BY <2>1, <2>2
<1>3. ASSUME NEW i \in DOMAIN Tail(s)
      PROVE  Tail(s)[i] \in ToSet(s)
  <2>1. i + 1 \in DOMAIN s /\ Tail(s)[i] = s[i + 1]
    BY <1>1
  <2> QED BY <2>1 DEF ToSet
<1>4. Head(s) \in ToSet(s)
  BY <1>1 DEF ToSet
<1> QED BY <1>1, <1>2, <1>3, <1>4 DEF ToSet

LEMMA ToSetEmpty == ToSet(<<>>) = {}
BY DEF ToSet

LEMMA InOrderAppend ==
    ASSUME NEW s \in Seq(Datagrams), NEW e \in Datagrams,
           InOrder(s), \A d \in ToSet(s) : d.no < e.no
    PROVE  InOrder(Append(s, e))
<1> DEFINE t == Append(s, e)
<1>1. /\ Len(s) \in Nat /\ Len(t) = Len(s) + 1 /\ t[Len(s) + 1] = e
      /\ \A i \in DOMAIN s : t[i] = s[i]
      /\ DOMAIN s = 1 .. Len(s) /\ DOMAIN t = 1 .. Len(s) + 1
  OBVIOUS
<1> HIDE DEF t
<1>2. SUFFICES ASSUME NEW i \in DOMAIN t, NEW j \in DOMAIN t, i < j
               PROVE  t[i].no < t[j].no
  BY DEF InOrder, t
<1>3. i \in DOMAIN s /\ t[i] = s[i] /\ s[i] \in ToSet(s)
  BY <1>1, <1>2 DEF ToSet
<1>4. CASE j \in DOMAIN s
  BY <1>1, <1>2, <1>3, <1>4 DEF InOrder
<1>5. CASE j = Len(s) + 1
  BY <1>1, <1>3, <1>5
<1> QED BY <1>1, <1>4, <1>5

LEMMA InOrderTail ==
    ASSUME NEW s \in Seq(Datagrams), s # <<>>, InOrder(s)
    PROVE  /\ InOrder(Tail(s))
           /\ \A d \in ToSet(Tail(s)) : Head(s).no < d.no
<1> DEFINE t == Tail(s)
<1>1. /\ Len(s) \in Nat \ {0} /\ Head(s) = s[1] /\ DOMAIN s = 1 .. Len(s)
      /\ DOMAIN t = 1 .. Len(s) - 1
      /\ \A i \in DOMAIN t : t[i] = s[i + 1]
  OBVIOUS
<1> HIDE DEF t
<1>2. ASSUME NEW i \in DOMAIN t, NEW j \in DOMAIN t, i < j
      PROVE  t[i].no < t[j].no
  BY <1>1, <1>2 DEF InOrder
<1>3. ASSUME NEW i \in DOMAIN t
      PROVE  Head(s).no < t[i].no
  BY <1>1 DEF InOrder
<1> QED BY <1>2, <1>3 DEF InOrder, ToSet, t

-----------------------------------------------------------------------------
(* The types of the timers do not depend on the messages. *)

TimersOK ==
    /\ step \in Steps
    /\ age \in 0 .. TurnMs \cup 0 .. SettleMs
    /\ phase \in 0 .. SlotMs - 1
    /\ guardLeft \in 0 .. GuardMs
    /\ tuned \in BOOLEAN /\ allowed \in BOOLEAN
    /\ payloadRead \in BOOLEAN
    /\ due \subseteq Timers
    /\ left \in [Timers -> Nat]
    /\ \A t \in Timers : left[t] \in 0 .. Interval[t]
    /\ originated \in 0 .. Count

LEMMA Bounds ==
    /\ SlotMs \in Nat \ {0} /\ TurnMs \in Nat \ {0} /\ Count \in Nat \ {0}
    /\ SettleMs \in Nat /\ GuardMs \in Nat
    /\ MaxSubmitted \in Nat /\ SocketLimit \in Nat \ {0}
BY LoopAssumption

LEMMA Intervals ==
    /\ Interval \in [Timers -> Nat] /\ Interval["tx"] = TxInterval
    /\ "c2" \in Timers /\ "tx" \in Timers /\ "sync" \in Timers
BY LoopAssumption DEF Interval, Timers

LEMMA RearmedOK ==
    ASSUME NEW t \in Timers, TimersOK
    PROVE  /\ Rearmed(t) \in [Timers -> Nat]
           /\ \A u \in Timers : Rearmed(t)[u] \in 0 .. Interval[u]
<1>1. Less(Interval[t], age) \in 0 .. Interval[t]
  BY Bounds, Intervals DEF Less, TimersOK
<1> QED BY <1>1, Intervals DEF Rearmed, TimersOK

LEMMA TimersInit == Init => TimersOK
<1> SUFFICES ASSUME Init PROVE TimersOK
  OBVIOUS
<1>1. left \in [Timers -> Nat] /\ \A t \in Timers : left[t] \in 0 .. Interval[t]
  BY Intervals DEF Init
<1>2. age = 0 /\ 0 \in 0 .. TurnMs /\ guardLeft \in 0 .. GuardMs
  BY Bounds DEF Init
<1>3. originated \in 0 .. Count
  BY Bounds DEF Init
<1> QED BY <1>1, <1>2, <1>3 DEF Init, TimersOK, Steps

LEMMA TimersStep ==
    ASSUME TimersOK, [Next]_vars
    PROVE  TimersOK'
<1> USE DEF TimersOK, Steps
<1>1. CASE Tick
  <2>1. age' \in 0 .. TurnMs \cup 0 .. SettleMs
    BY <1>1, Bounds DEF Tick
  <2>2. phase' \in 0 .. SlotMs - 1
    BY <1>1, Bounds DEF Tick
  <2>3. guardLeft' \in 0 .. GuardMs
    BY <1>1, Bounds DEF Tick, Less
  <2>4. left' \in [Timers -> Nat] /\ \A t \in Timers : left'[t] \in 0 .. Interval[t]
    BY <1>1, Intervals DEF Tick, Less
  <2>5. tuned' \in BOOLEAN
    BY <1>1 DEF Tick
  <2> QED BY <1>1, <2>1, <2>2, <2>3, <2>4, <2>5 DEF Tick, own
<1>2. CASE BeginSwitch
  BY <1>2, Bounds DEF BeginSwitch, own
<1>2a. CASE FinishSwitch
  BY <1>2a, Bounds DEF FinishSwitch, own
<1>3. CASE BeginDrain \/ Drain \/ DrainRaises
  BY <1>3 DEF BeginDrain, Drain, DrainRaises, time, own
<1>4. ASSUME NEW readable \in BOOLEAN, BeginTurn(readable)
      PROVE  TimersOK'
  <2>1. left' \in [Timers -> Nat] /\ \A t \in Timers : left'[t] \in 0 .. Interval[t]
    BY <1>4, Intervals, Bounds DEF BeginTurn, ReadPayload
  <2>2. payloadRead' \in BOOLEAN
    BY <1>4, Bounds DEF BeginTurn, ReadPayload
  <2> QED BY <1>4, <2>1, <2>2, Bounds DEF BeginTurn
<1>5. CASE SendC2 \/ SendSync
  <2>1. left' \in [Timers -> Nat] /\ \A t \in Timers : left'[t] \in 0 .. Interval[t]
    BY <1>5, Intervals, RearmedOK DEF SendC2, SendSync
  <2> QED BY <1>5, <2>1 DEF SendC2, SendSync, own
<1>6. CASE SendLocal \/ SendLocalRefused \/ SendLocalRaises
  BY <1>6 DEF SendLocal, SendLocalRefused, SendLocalRaises, time, own
<1>7. CASE SendOwn
  <2>1. left' \in [Timers -> Nat] /\ \A t \in Timers : left'[t] \in 0 .. Interval[t]
    BY <1>7, Intervals, RearmedOK DEF SendOwn
  <2>2. originated' \in 0 .. Count
    BY <1>7, Bounds DEF SendOwn, MayOriginate
  <2> QED BY <1>7, <2>1, <2>2 DEF SendOwn
<1>8. CASE Return
  BY <1>8 DEF Return, time
<1>9. CASE RadioFails
  BY <1>9 DEF RadioFails, time, own
<1>10. ASSUME NEW kind \in Kinds, Submit(kind)
       PROVE  TimersOK'
  BY <1>10 DEF Submit, time, own
<1>11. CASE UNCHANGED vars
  BY <1>11 DEF vars, time, own
<1> QED BY <1>1, <1>2, <1>2a, <1>3, <1>4, <1>5, <1>6, <1>7, <1>8, <1>9, <1>10, <1>11
        DEF Next, Thread

-----------------------------------------------------------------------------
(* The messages. *)

(* A datagram that is anywhere has been submitted. *)
Numbered ==
    \A d \in accepted \union Handled \union ToSet(pending) \union ToSet(socket) :
        d.no <= count

MessagesOK ==
    /\ count \in 0 .. MaxSubmitted
    /\ socket \in Seq(Datagrams) /\ pending \in Seq(Datagrams) /\ sent \in Seq(Datagrams)
    /\ Len(socket) <= SocketLimit
    /\ accepted \subseteq Datagrams /\ refused \subseteq Datagrams
    /\ \A d \in accepted : Queueable(d)
    /\ Numbered
    /\ InOrder(sent) /\ InOrder(pending) /\ InOrder(socket)
    /\ Before(Handled, ToSet(pending)) /\ Before(Handled, ToSet(socket))
    /\ Before(ToSet(pending), ToSet(socket))
    /\ \A d \in ToSet(sent) : d.kind = "request"
    /\ \A d \in refused : d.kind = "unsendable"
    /\ Handled \union ToSet(pending) \subseteq accepted
    /\ {d \in ToSet(socket) : Queueable(d)} \subseteq accepted
    /\ step # "ended" => accepted \subseteq Handled \union ToSet(pending) \union ToSet(socket)
    /\ \A d \in accepted, e \in Handled : d.no < e.no => d \in Handled

LEMMA MessagesInit == Init => MessagesOK
<1> SUFFICES ASSUME Init PROVE MessagesOK
  OBVIOUS
<1>1. /\ count = 0 /\ socket = <<>> /\ pending = <<>> /\ sent = <<>>
      /\ accepted = {} /\ refused = {}
  BY DEF Init
<1>2. <<>> \in Seq(Datagrams) /\ Len(<<>>) = 0 /\ DOMAIN <<>> = {}
  OBVIOUS
<1>3. InOrder(<<>>) /\ Handled = {} /\ Before({}, {})
  BY <1>1, <1>2, ToSetEmpty DEF InOrder, Before, Handled
<1>4. 0 \in 0 .. MaxSubmitted /\ 0 <= SocketLimit
  BY Bounds
<1> QED BY <1>1, <1>2, <1>3, <1>4, ToSetEmpty DEF MessagesOK, Numbered

(* Steps that leave the messages where they are. *)
LEMMA MessagesStay ==
    ASSUME MessagesOK, UNCHANGED local, step = "ended" => step' = "ended"
    PROVE  MessagesOK'
<1>1. /\ count' = count /\ socket' = socket /\ pending' = pending
      /\ accepted' = accepted /\ sent' = sent /\ refused' = refused
  BY DEF local
<1>2. Handled' = Handled
  BY <1>1 DEF Handled
<1> QED BY <1>1, <1>2 DEF MessagesOK, Numbered, InOrder, Before

LEMMA SubmitMessages ==
    ASSUME MessagesOK, NEW kind \in Kinds, Submit(kind)
    PROVE  MessagesOK'
<1> DEFINE d == [no |-> count + 1, kind |-> kind]
<1>1. /\ count' = count + 1 /\ count' \in 0 .. MaxSubmitted /\ count \in Nat
      /\ pending' = pending /\ sent' = sent /\ refused' = refused /\ step' = step
      /\ Handled' = Handled
  BY Bounds DEF Submit, MessagesOK, Handled
<1>2. d \in Datagrams /\ d.no = count + 1
  BY <1>1, Bounds DEF Datagrams
<1>3. \A e \in accepted \union Handled \union ToSet(pending) \union ToSet(socket) :
          e.no < d.no /\ e.no <= count'
  <2>1. Handled \union ToSet(pending) \union ToSet(socket) \union accepted \subseteq Datagrams
    BY DEF MessagesOK, ToSet, Handled
  <2>2. \A e \in Datagrams : e.no \in Nat
    BY DEF Datagrams
  <2> QED BY <1>1, <1>2, <2>1, <2>2 DEF MessagesOK, Numbered
<1>4. CASE Len(socket) < SocketLimit
  <2>1. /\ socket' = Append(socket, d)
        /\ accepted' = IF Queueable(d) THEN accepted \union {d} ELSE accepted
    BY <1>1, <1>4 DEF Submit
  <2>2. /\ socket' \in Seq(Datagrams) /\ Len(socket') <= SocketLimit
        /\ ToSet(socket') = ToSet(socket) \union {d}
    BY <1>2, <1>4, <2>1, ToSetAppend, Bounds DEF MessagesOK
  <2>3. InOrder(socket')
    BY <1>2, <1>3, <2>1, InOrderAppend DEF MessagesOK
  <2> HIDE DEF d
  <2>4. Before(Handled', ToSet(socket')) /\ Before(ToSet(pending'), ToSet(socket'))
    BY <1>1, <1>3, <2>2 DEF MessagesOK, Before
  <2>5. accepted' \subseteq Datagrams /\ \A e \in accepted' : Queueable(e)
    BY <1>2, <2>1 DEF MessagesOK
  <2>6. Numbered'
    BY <1>1, <1>2, <1>3, <2>1, <2>2 DEF Numbered
  <2>7. {e \in ToSet(socket') : Queueable(e)} \subseteq accepted'
    BY <2>1, <2>2 DEF MessagesOK
  <2>8. step' # "ended" =>
            accepted' \subseteq Handled' \union ToSet(pending') \union ToSet(socket')
    BY <1>1, <2>1, <2>2 DEF MessagesOK
  <2>9. \A e \in accepted', f \in Handled' : e.no < f.no => e \in Handled'
    <3>1. SUFFICES ASSUME NEW e \in accepted', NEW f \in Handled, e.no < f.no
                   PROVE  e \in Handled
      BY <1>1
    <3>2. e # d
      <4>1. f \in Datagrams
        BY DEF MessagesOK
      <4>2. f.no \in Nat /\ d.no \in Nat
        BY <1>2, <4>1 DEF Datagrams
      <4>3. f.no < d.no
        BY <1>3
      <4> QED BY <3>1, <4>2, <4>3
    <3> QED BY <2>1, <3>1, <3>2 DEF MessagesOK
  <2> QED BY <1>1, <2>1, <2>2, <2>3, <2>4, <2>5, <2>6, <2>7, <2>8, <2>9 DEF MessagesOK
<1>5. CASE ~(Len(socket) < SocketLimit)
  <2>1. socket' = socket /\ accepted' = accepted
    BY <1>5 DEF Submit
  <2>2. Numbered'
    BY <1>1, <1>3, <2>1 DEF Numbered
  <2> QED BY <1>1, <2>1, <2>2 DEF MessagesOK, InOrder, Before
<1> QED BY <1>4, <1>5

(* The oldest datagram of the socket joins the queue as its newest message. *)
LEMMA DrainMessages ==
    ASSUME MessagesOK, Drain
    PROVE  MessagesOK'
<1> DEFINE d == Head(socket)
           rest == Tail(socket)
<1>1. /\ socket # <<>> /\ socket' = rest /\ count' = count /\ sent' = sent
      /\ accepted' = accepted /\ refused' = refused /\ step' = step
      /\ pending' = IF Queueable(d) THEN Append(pending, d) ELSE pending
      /\ Handled' = Handled
  BY DEF Drain, Handled
<1>2. /\ d \in Datagrams /\ rest \in Seq(Datagrams)
      /\ ToSet(socket) = {d} \union ToSet(rest)
      /\ Len(rest) <= SocketLimit
  BY <1>1, ToSetTail, Bounds DEF MessagesOK
<1>3. InOrder(rest) /\ \A e \in ToSet(rest) : d.no < e.no
  BY <1>1, InOrderTail DEF MessagesOK
<1> HIDE DEF d, rest
<1>4. /\ Before(Handled, ToSet(rest)) /\ Before(ToSet(pending), ToSet(rest))
      /\ \A e \in Handled \union ToSet(pending) : e.no < d.no
  BY <1>2 DEF MessagesOK, Before
<1>5. CASE Queueable(d)
  <2>1. /\ pending' = Append(pending, d) /\ pending' \in Seq(Datagrams)
        /\ ToSet(pending') = ToSet(pending) \union {d}
    BY <1>1, <1>2, <1>5, ToSetAppend DEF MessagesOK
  <2>2. InOrder(pending')
    BY <1>2, <1>4, <2>1, InOrderAppend DEF MessagesOK
  <2>3. Before(Handled, ToSet(pending')) /\ Before(ToSet(pending'), ToSet(rest))
    BY <1>3, <1>4, <2>1 DEF MessagesOK, Before
  <2>4. d \in accepted
    BY <1>2, <1>5 DEF MessagesOK
  <2>5. Numbered'
    BY <1>1, <1>2, <2>1 DEF MessagesOK, Numbered
  <2> QED BY <1>1, <1>2, <1>3, <1>4, <2>1, <2>2, <2>3, <2>4, <2>5 DEF MessagesOK
<1>6. CASE ~Queueable(d)
  <2>1. pending' = pending /\ d \notin accepted
    BY <1>1, <1>6 DEF MessagesOK
  <2>2. Numbered'
    BY <1>1, <1>2, <2>1 DEF MessagesOK, Numbered
  <2> QED BY <1>1, <1>2, <1>3, <1>4, <2>1, <2>2 DEF MessagesOK
<1> QED BY <1>5, <1>6

(* A datagram that ends the node is gone, and with it whatever waits. *)
LEMMA DrainRaisesMessages ==
    ASSUME MessagesOK, DrainRaises
    PROVE  MessagesOK'
<1>1. /\ socket # <<>> /\ socket' = Tail(socket) /\ count' = count /\ sent' = sent
      /\ accepted' = accepted /\ refused' = refused /\ pending' = pending /\ step' = "ended"
      /\ Handled' = Handled
  BY DEF DrainRaises, Handled
<1>2. /\ Tail(socket) \in Seq(Datagrams) /\ ToSet(Tail(socket)) \subseteq ToSet(socket)
      /\ Len(Tail(socket)) <= SocketLimit
  BY <1>1, ToSetTail, Bounds DEF MessagesOK
<1>3. InOrder(Tail(socket))
  BY <1>1, InOrderTail DEF MessagesOK
<1>4. Numbered'
  BY <1>1, <1>2 DEF MessagesOK, Numbered
<1>5. Before(Handled, ToSet(Tail(socket))) /\ Before(ToSet(pending), ToSet(Tail(socket)))
  BY <1>2 DEF MessagesOK, Before
<1> QED BY <1>1, <1>2, <1>3, <1>4, <1>5 DEF MessagesOK, InOrder, Before

(* The oldest message of the queue is dealt with: whether it is transmitted or *)
(* refused, it is newer than all that were dealt with before it.              *)
LEMMA HandleMessages ==
    ASSUME MessagesOK, pending # <<>>, pending' = Tail(pending),
           Handled' = Handled \union {Head(pending)},
           count' = count, socket' = socket, accepted' = accepted, step # "ended",
           sent' \in Seq(Datagrams), refused' \subseteq Datagrams, InOrder(sent'),
           \A d \in ToSet(sent') : d.kind = "request",
           \A d \in refused' : d.kind = "unsendable"
    PROVE  MessagesOK'
<1> DEFINE d == Head(pending)
           rest == Tail(pending)
<1>1. /\ d \in Datagrams /\ rest \in Seq(Datagrams)
      /\ ToSet(pending) = {d} \union ToSet(rest)
  BY ToSetTail DEF MessagesOK
<1>2. InOrder(rest) /\ \A e \in ToSet(rest) : d.no < e.no
  BY InOrderTail DEF MessagesOK
<1>3. pending' = rest /\ Handled' = Handled \union {d}
  OBVIOUS
<1> HIDE DEF d, rest
<1>4. /\ Before(Handled', ToSet(rest)) /\ Before(Handled', ToSet(socket))
      /\ Before(ToSet(rest), ToSet(socket))
  BY <1>1, <1>2, <1>3 DEF MessagesOK, Before
<1>5. Numbered'
  BY <1>1, <1>3 DEF MessagesOK, Numbered
<1>6. \A e \in accepted, f \in Handled' : e.no < f.no => e \in Handled'
  <2>1. SUFFICES ASSUME NEW e \in accepted, e.no < d.no, e \notin Handled'
                 PROVE  FALSE
    BY <1>3 DEF MessagesOK
  <2>2. e \in ToSet(rest) \union ToSet(socket)
    BY <1>1, <1>3, <2>1 DEF MessagesOK
  <2>3. d.no < e.no
    BY <1>1, <1>2, <2>2 DEF MessagesOK, Before
  <2>4. d.no \in Nat /\ e.no \in Nat
    BY <1>1 DEF MessagesOK, Datagrams
  <2> QED BY <2>1, <2>3, <2>4
<1>7. /\ Handled' \union ToSet(rest) \subseteq accepted
      /\ accepted \subseteq Handled' \union ToSet(rest) \union ToSet(socket)
  BY <1>1, <1>3 DEF MessagesOK
<1> QED BY <1>1, <1>2, <1>3, <1>4, <1>5, <1>6, <1>7 DEF MessagesOK

LEMMA SendLocalMessages ==
    ASSUME MessagesOK, SendLocal
    PROVE  MessagesOK'
<1>1. CASE ~MaySendLocal
  <2>1. UNCHANGED local /\ step # "ended"
    BY <1>1 DEF SendLocal, local
  <2> QED BY <2>1, MessagesStay
<1>2. CASE MaySendLocal
  <2> DEFINE d == Head(pending)
  <2>1. /\ pending # <<>> /\ pending' = Tail(pending) /\ sent' = Append(sent, d)
        /\ count' = count /\ socket' = socket /\ accepted' = accepted
        /\ refused' = refused /\ step # "ended" /\ d.kind = "request"
    BY <1>2 DEF SendLocal, MaySendLocal
  <2>2. d \in Datagrams /\ d \in ToSet(pending)
    BY <2>1, ToSetTail DEF MessagesOK
  <2> HIDE DEF d
  <2>3. sent' \in Seq(Datagrams) /\ ToSet(sent') = ToSet(sent) \union {d}
    BY <2>1, <2>2, ToSetAppend DEF MessagesOK
  <2>4. Handled' = Handled \union {d}
    BY <2>1, <2>3 DEF Handled
  <2>5. \A e \in ToSet(sent) : e.no < d.no
    BY <2>2 DEF MessagesOK, Before, Handled
  <2>6. InOrder(sent')
    BY <2>1, <2>2, <2>5, InOrderAppend DEF MessagesOK
  <2>7. \A e \in ToSet(sent') : e.kind = "request"
    BY <2>1, <2>3 DEF MessagesOK
  <2>8. refused' \subseteq Datagrams /\ \A e \in refused' : e.kind = "unsendable"
    BY <2>1 DEF MessagesOK
  <2> QED BY <2>1, <2>3, <2>4, <2>6, <2>7, <2>8, HandleMessages DEF d
<1> QED BY <1>1, <1>2

LEMMA SendLocalRefusedMessages ==
    ASSUME MessagesOK, SendLocalRefused
    PROVE  MessagesOK'
<1> DEFINE d == Head(pending)
<1>1. /\ pending # <<>> /\ pending' = Tail(pending) /\ sent' = sent
      /\ count' = count /\ socket' = socket /\ accepted' = accepted
      /\ refused' = refused \union {d} /\ step # "ended" /\ d.kind = "unsendable"
  BY DEF SendLocalRefused, MaySendLocal
<1>2. d \in Datagrams
  BY <1>1, ToSetTail DEF MessagesOK
<1> HIDE DEF d
<1>3. Handled' = Handled \union {d}
  BY <1>1 DEF Handled
<1>4. /\ sent' \in Seq(Datagrams) /\ InOrder(sent')
      /\ \A e \in ToSet(sent') : e.kind = "request"
  BY <1>1 DEF MessagesOK, InOrder
<1>5. refused' \subseteq Datagrams /\ \A e \in refused' : e.kind = "unsendable"
  BY <1>1, <1>2 DEF MessagesOK
<1> QED BY <1>1, <1>3, <1>4, <1>5, HandleMessages DEF d

LEMMA SendLocalRaisesMessages ==
    ASSUME MessagesOK, SendLocalRaises
    PROVE  MessagesOK'
<1>1. /\ pending # <<>> /\ pending' = Tail(pending) /\ count' = count /\ sent' = sent
      /\ accepted' = accepted /\ refused' = refused /\ socket' = socket /\ step' = "ended"
      /\ Handled' = Handled
  BY DEF SendLocalRaises, MaySendLocal, Handled
<1>2. Tail(pending) \in Seq(Datagrams) /\ ToSet(Tail(pending)) \subseteq ToSet(pending)
  BY <1>1, ToSetTail DEF MessagesOK
<1>3. InOrder(Tail(pending))
  BY <1>1, InOrderTail DEF MessagesOK
<1>4. Numbered'
  BY <1>1, <1>2 DEF MessagesOK, Numbered
<1>5. Before(Handled, ToSet(Tail(pending))) /\ Before(ToSet(Tail(pending)), ToSet(socket))
  BY <1>2 DEF MessagesOK, Before
<1> QED BY <1>1, <1>2, <1>3, <1>4, <1>5 DEF MessagesOK, InOrder, Before

LEMMA MessagesStep ==
    ASSUME MessagesOK, [Next]_vars
    PROVE  MessagesOK'
<1>1. CASE Tick \/ BeginSwitch \/ FinishSwitch \/ BeginDrain \/ SendC2 \/ SendOwn
           \/ SendSync \/ Return \/ RadioFails
  BY <1>1, MessagesStay
     DEF Tick, BeginSwitch, FinishSwitch, BeginDrain, SendC2, SendOwn, SendSync, Return,
         RadioFails
<1>2. ASSUME NEW readable \in BOOLEAN, BeginTurn(readable)
      PROVE  MessagesOK'
  BY <1>2, MessagesStay DEF BeginTurn
<1>3. CASE UNCHANGED vars
  BY <1>3, MessagesStay DEF vars
<1> QED BY <1>1, <1>2, <1>3, SubmitMessages, DrainMessages, DrainRaisesMessages,
           SendLocalMessages, SendLocalRefusedMessages, SendLocalRaisesMessages
        DEF Next, Thread

-----------------------------------------------------------------------------
(* The theorem. *)

IndInv == TimersOK /\ MessagesOK

(* While the node runs, every local message its socket took is transmitted,  *)
(* queued or in the socket, or was dropped because it could not be encoded;  *)
(* each is dealt with once, in the order of submission and after all older   *)
(* ones, for every number of datagrams, size of the socket's buffer and      *)
(* choice of intervals (mesh_txrx.py:1482-1508 and 2136-2151).               *)
THEOREM LocalsAccounted == Spec => []LocalAccounted
<1>1. Init => IndInv
  BY TimersInit, MessagesInit DEF IndInv
<1>2. IndInv /\ [Next]_vars => IndInv'
  BY TimersStep, MessagesStep DEF IndInv
<1>3. IndInv => LocalAccounted
  BY DEF IndInv, TimersOK, MessagesOK, LocalAccounted, TypeOK
<1> QED BY <1>1, <1>2, <1>3, PTL DEF Spec

-----------------------------------------------------------------------------
(* The link-health tracker for all thresholds and any set of senders. *)

(* Pruning keeps ages, and keeps those that are within the timeout. *)
LEMMA PrunedType ==
    ASSUME NEW ages \in [Senders -> Ages \union {Never}]
    PROVE  Pruned(ages) \in [Senders -> Ages \union {Never}]
BY DEF Pruned

LEMMA OlderType ==
    ASSUME NEW a \in Ages \union {Never}
    PROVE  /\ Older(a) \in Ages \union {Never}
           /\ a \in Ages => Older(a) \in Ages
           /\ a = Never => Older(a) = Never
           /\ a \in Ages => Older(a) >= a
BY HorizonAssumption DEF Older, Ages, Never

(* The ages and states stay within their types. *)
LEMMA LinkTypeStep ==
    ASSUME LinkTypeOK, [LinkNext]_linkVars
    PROVE  LinkTypeOK'
<1> USE DEF LinkTypeOK
<1>1. ASSUME NEW p \in Senders, NotePeer(p)
      PROVE  LinkTypeOK'
  <2>1. [peerAge EXCEPT ![p] = 0] \in [Senders -> Ages \union {Never}] /\ 0 \in Ages
    BY HorizonAssumption DEF Ages
  <2> QED BY <1>1, <2>1, PrunedType DEF NotePeer
<1>2. CASE CountPeers
  BY <1>2, PrunedType DEF CountPeers
<1>3. CASE Evaluate
  <2>1. peerAge' \in [Senders -> Ages \union {Never}] /\ linkAge' \in Ages
    BY <1>3, PrunedType DEF Evaluate
  <2>2. \A s \in States : SwitchTo(s) => state' \in States /\ stateAge' \in Ages
    BY HorizonAssumption DEF SwitchTo, Ages
  <2>3. AloneState \in States
    BY ThresholdAssumption DEF AloneState, States, Alarms, Ages
  <2>4. {"NOMINAL", "RECOVERY"} \subseteq States
    BY DEF States
  <2>5. state' \in States /\ stateAge' \in Ages
    BY <1>3, <2>2, <2>3, <2>4
       DEF Evaluate, EvaluateAlone, EvaluateReestablished, EvaluateRecovering, EvaluateHealthy
  <2>6. recoveryAge' \in Ages \union {Never}
    BY <1>3, HorizonAssumption
       DEF Evaluate, EvaluateAlone, EvaluateReestablished, EvaluateRecovering, EvaluateHealthy,
           RecoveringFor, Ages
  <2> QED BY <2>1, <2>5, <2>6
<1>4. CASE LinkTick
  <2>1. \A p \in Senders : Older(peerAge[p]) \in Ages \union {Never}
    BY OlderType
  <2> QED BY <1>4, <2>1, OlderType DEF LinkTick
<1>5. CASE UNCHANGED linkVars
  BY <1>5 DEF linkVars
<1> QED BY <1>1, <1>2, <1>3, <1>4, <1>5 DEF LinkNext

LEMMA LinkTypeInit == LinkInit => LinkTypeOK
BY HorizonAssumption DEF LinkInit, LinkTypeOK, States, Ages

(***************************************************************************)
(* Type correctness: every judgement is one of the six states, and every   *)
(* age is a number the code could have measured.                           *)
(***************************************************************************)
THEOREM LinkTypeCorrect == LinkSpec => []LinkTypeOK
<1> QED BY LinkTypeInit, LinkTypeStep, PTL DEF LinkSpec

-----------------------------------------------------------------------------
(* The recovery clock runs in RECOVERY only, since RECOVERY began. *)
LEMMA ClockStep ==
    ASSUME LinkTypeOK, RecoveryClockRuns, [LinkNext]_linkVars
    PROVE  RecoveryClockRuns'
<1> USE DEF RecoveryClockRuns
<1>1. ASSUME NEW p \in Senders, NotePeer(p)
      PROVE  RecoveryClockRuns'
  BY <1>1 DEF NotePeer
<1>2. CASE CountPeers
  BY <1>2 DEF CountPeers
<1>3. CASE Evaluate
  <2>1. CASE EvaluateAlone
    <3>1. AloneState # "RECOVERY"
      BY ThresholdAssumption DEF AloneState, LinkTypeOK, Ages
    <3> QED BY <2>1, <3>1 DEF EvaluateAlone, SwitchTo
  <2>2. CASE EvaluateReestablished
    BY <2>2 DEF EvaluateReestablished, SwitchTo, Alarms
  <2>3. CASE EvaluateRecovering
    BY <2>3, HorizonAssumption DEF EvaluateRecovering, SwitchTo, RecoveringFor, LinkTypeOK, Ages, Never
  <2>4. CASE EvaluateHealthy
    BY <2>4 DEF EvaluateHealthy, SwitchTo
  <2> QED BY <1>3, <2>1, <2>2, <2>3, <2>4 DEF Evaluate
<1>4. CASE LinkTick
  BY <1>4, HorizonAssumption DEF LinkTick, Older, LinkTypeOK, Never
<1>5. CASE UNCHANGED linkVars
  BY <1>5 DEF linkVars
<1> QED BY <1>1, <1>2, <1>3, <1>4, <1>5 DEF LinkNext

(***************************************************************************)
(* An alarm is explained by long silence or by the peer that ended it: a   *)
(* peer that is pruned has been silent for longer than PeerTimeout, which  *)
(* is itself long when PeerTimeout reaches the DEGRADED threshold.         *)
(***************************************************************************)
LEMMA PruneExplained ==
    ASSUME LinkTypeOK, PeerTimeout >= DegradedAfter,
           linkAge >= DegradedAfter \/ \E p \in Senders : peerAge[p] = linkAge
    PROVE  linkAge >= DegradedAfter \/ \E p \in Senders : Pruned(peerAge)[p] = linkAge
<1>1. CASE linkAge >= DegradedAfter
  BY <1>1
<1>2. ASSUME NEW p \in Senders, peerAge[p] = linkAge
      PROVE  linkAge >= DegradedAfter \/ Pruned(peerAge)[p] = linkAge
  BY <1>2, ThresholdAssumption DEF Pruned, LinkTypeOK, Ages
<1> QED BY <1>1, <1>2

LEMMA ExplainedStep ==
    ASSUME LinkTypeOK, AlarmExplained, PeerTimeout >= DegradedAfter, [LinkNext]_linkVars
    PROVE  AlarmExplained'
<1>1. ASSUME NEW p \in Senders, NotePeer(p)
      PROVE  AlarmExplained'
  <2>1. peerAge'[p] = 0 /\ linkAge' = 0
    BY <1>1, ThresholdAssumption DEF NotePeer, Pruned, LinkTypeOK
  <2> QED BY <2>1 DEF AlarmExplained
<1>2. CASE CountPeers
  BY <1>2, PruneExplained DEF CountPeers, AlarmExplained
<1>3. CASE Evaluate
  <2>1. CASE ~SomeActive /\ EvaluateAlone
    <3>1. state' = "NOMINAL" \/ linkAge >= DegradedAfter
      BY <2>1, ThresholdAssumption DEF EvaluateAlone, SwitchTo, AloneState, LinkTypeOK, Ages
    <3> QED BY <1>3, <3>1 DEF Evaluate, AlarmExplained
  <2>2. CASE state' = "NOMINAL"
    BY <2>2 DEF AlarmExplained
  <2>3. CASE SomeActive /\ state' # "NOMINAL"
    <3>1. state # "NOMINAL"
      BY <1>3, <2>3
         DEF Evaluate, EvaluateReestablished, EvaluateRecovering, EvaluateHealthy, SwitchTo, Alarms
    <3>2. peerAge' = Pruned(peerAge) /\ linkAge' = linkAge
      BY <1>3 DEF Evaluate
    <3> QED BY <3>1, <3>2, PruneExplained DEF AlarmExplained
  <2> QED BY <1>3, <2>1, <2>2, <2>3 DEF Evaluate
<1>4. CASE LinkTick
  <2>1. state' = state /\ linkAge' = Older(linkAge)
    BY <1>4 DEF LinkTick
  <2>2. \A p \in Senders : peerAge[p] = linkAge => peerAge'[p] = linkAge'
    BY <1>4 DEF LinkTick
  <2>3. linkAge >= DegradedAfter => linkAge' >= DegradedAfter
    BY <2>1, HorizonAssumption, ThresholdAssumption DEF Older, LinkTypeOK, Ages
  <2> QED BY <2>1, <2>2, <2>3 DEF AlarmExplained
<1>5. CASE UNCHANGED linkVars
  BY <1>5 DEF linkVars, AlarmExplained
<1> QED BY <1>1, <1>2, <1>3, <1>4, <1>5 DEF LinkNext

LEMMA LinkInvInit == LinkInit => LinkIndInv
BY LinkTypeInit DEF LinkInit, LinkIndInv, RecoveryClockRuns, AlarmExplained

LEMMA LinkInvStep ==
    ASSUME LinkIndInv, PeerTimeout >= DegradedAfter, [LinkNext]_linkVars
    PROVE  LinkIndInv'
BY LinkTypeStep, ClockStep, ExplainedStep DEF LinkIndInv

(***************************************************************************)
(* The inductive invariant: the recovery clock and the standing alarm are  *)
(* what they should be, if peers are kept at least until DEGRADED.         *)
(***************************************************************************)
THEOREM LinkInvariance ==
    ASSUME PeerTimeout >= DegradedAfter
    PROVE  LinkSpec => []LinkIndInv
<1> QED BY LinkInvInit, LinkInvStep, PTL DEF LinkSpec

(* One step out of an alarm or a recovery into NOMINAL. *)
LEMMA HeldStep ==
    ASSUME LinkIndInv, PeerTimeout >= DegradedAfter, LinkNext, state # "NOMINAL", state' = "NOMINAL"
    PROVE  state = "RECOVERY" /\ stateAge >= RecoveryHold
<1>1. Evaluate
  BY DEF LinkNext, NotePeer, CountPeers, LinkTick
<1>2. CASE SomeActive
  <2>1. state = "RECOVERY" /\ RecoveringFor >= RecoveryHold
    BY <1>1, <1>2
       DEF Evaluate, EvaluateReestablished, EvaluateRecovering, EvaluateHealthy, SwitchTo
  <2>2. recoveryAge = stateAge /\ stateAge \in Ages
    BY <2>1 DEF LinkIndInv, RecoveryClockRuns, LinkTypeOK
  <2>3. RecoveringFor = stateAge
    BY <2>2, HorizonAssumption DEF RecoveringFor, Never, Ages
  <2> QED BY <2>1, <2>3
<1>3. CASE ~SomeActive
  <2>1. linkAge < DegradedAfter
    BY <1>1, <1>3, ThresholdAssumption
       DEF Evaluate, EvaluateAlone, SwitchTo, AloneState, LinkIndInv, LinkTypeOK, Ages
  <2>2. PICK p \in Senders : peerAge[p] = linkAge
    BY <2>1, ThresholdAssumption DEF LinkIndInv, AlarmExplained, LinkTypeOK, Ages
  <2>3. Pruned(peerAge)[p] = linkAge /\ linkAge # Never
    BY <2>1, <2>2, ThresholdAssumption, HorizonAssumption
       DEF Pruned, LinkIndInv, LinkTypeOK, Ages, Never
  <2> QED BY <1>3, <2>3 DEF SomeActive
<1> QED BY <1>2, <1>3

(***************************************************************************)
(* No alarm ends in NOMINAL without the full, uninterrupted hold time,     *)
(* whatever the thresholds, if peers are kept at least until DEGRADED.     *)
(***************************************************************************)
THEOREM HoldObserved ==
    ASSUME PeerTimeout >= DegradedAfter
    PROVE  LinkSpec => RecoveryHeld
<1>1. LinkIndInv /\ [LinkNext]_linkVars
      => [state # "NOMINAL" /\ state' = "NOMINAL"
            => state = "RECOVERY" /\ stateAge >= RecoveryHold]_linkVars
  BY HeldStep
<1>2. LinkSpec => []LinkIndInv
  BY LinkInvariance
<1> QED BY <1>1, <1>2, PTL DEF LinkSpec, RecoveryHeld
=============================================================================
