-------------------------- MODULE ChannelHopProofs --------------------------
(***************************************************************************)
(* What channel hopping guarantees for every number of nodes and gateways, *)
(* every schedule and all delays.  The argument is one about time: a node  *)
(* looks at the schedule at least every LookMs, so that it knows the slot  *)
(* that goes on or the one before.                                         *)
(***************************************************************************)
EXTENDS ChannelHop, TLAPS

LEMMA Arguments ==
    /\ SlotMs \in Nat \ {0} /\ EpochMs \in Int /\ MaxClock \in Nat
    /\ SettleMs \in Nat /\ GuardMs \in Nat /\ PostMs \in Nat /\ WorkMs \in Nat
    /\ RxTimeoutMs \in Nat \ {0}
    /\ \A n \in Nodes : Skew[n] \in Int
    /\ HopChannels \in Seq(Nat \ {0}) /\ Len(HopChannels) \in Nat \ {0}
BY ArgumentsChecked DEF ArgumentsOk

(* The numbers among them. *)
LEMMA Durations ==
    /\ SlotMs \in Nat \ {0} /\ EpochMs \in Int /\ SettleMs \in Nat
    /\ GuardMs \in Nat /\ WorkMs \in Nat
BY Arguments

-----------------------------------------------------------------------------
(* Division. *)

LEMMA Division ==
    ASSUME NEW a \in Nat, NEW b \in Nat \ {0}
    PROVE  /\ a \div b \in Nat /\ a % b \in 0 .. b - 1
           /\ (a \div b) * b \in Nat
           /\ a = (a \div b) * b + (a % b)
OBVIOUS

LEMMA Multiple == ASSUME NEW p \in Nat, NEW b \in Nat PROVE p * b \in Nat
OBVIOUS

LEMMA LaterMultiple ==
    ASSUME NEW p \in Nat, NEW q \in Nat, p < q, NEW b \in Nat
    PROVE  p * b + b <= q * b
OBVIOUS

(* a number lies in the only multiple of b it can lie in. *)
LEMMA OnlyMultiple ==
    ASSUME NEW a \in Nat, NEW q \in Nat, NEW b \in Nat \ {0}, q * b <= a, a < q * b + b
    PROVE  a \div b = q
<1> DEFINE p == a \div b
           i == a % b
<1>1. p \in Nat /\ i \in 0 .. b - 1 /\ p * b \in Nat /\ a = p * b + i
  BY Division
<1> DEFINE y == q * b
<1>0. y \in Nat /\ y <= a /\ a < y + b
  BY Multiple
<1> HIDE DEF p, i, y
<1>2. ~(p < q)
  <2> SUFFICES ASSUME p < q PROVE FALSE
    OBVIOUS
  <2>1. p * b + b <= y
    BY <1>1, LaterMultiple DEF y
  <2> QED BY <1>0, <1>1, <2>1
<1>3. ~(q < p)
  <2> SUFFICES ASSUME q < p PROVE FALSE
    OBVIOUS
  <2>1. y + b <= p * b
    BY <1>1, LaterMultiple DEF y
  <2> QED BY <1>0, <1>1, <2>1
<1>4. p = q
  BY <1>1, <1>2, <1>3
<1> QED BY <1>4 DEF p

-----------------------------------------------------------------------------
(* The schedule. *)

LEMMA SlotType ==
    ASSUME NEW n \in Nodes, NEW t \in Nat
    PROVE  /\ ElapsedAt(n, t) \in Nat /\ SlotAt(n, t) \in Nat /\ InSlotAt(n, t) \in Nat
           /\ InSlotAt(n, t) < SlotMs
           /\ SlotAt(n, t) * SlotMs \in Nat
           /\ ElapsedAt(n, t) = SlotAt(n, t) * SlotMs + InSlotAt(n, t)
<1>1. ElapsedAt(n, t) \in Nat
  BY Arguments DEF ElapsedAt
<1> DEFINE a == ElapsedAt(n, t)
<1>2. SlotAt(n, t) = a \div SlotMs /\ InSlotAt(n, t) = a % SlotMs
  BY DEF SlotAt, InSlotAt
<1> HIDE DEF a
<1>3. /\ a \div SlotMs \in Nat /\ a % SlotMs \in 0 .. SlotMs - 1
      /\ (a \div SlotMs) * SlotMs \in Nat
      /\ a = (a \div SlotMs) * SlotMs + (a % SlotMs)
  BY <1>1, Arguments, Division DEF a
<1> QED BY <1>1, <1>2, <1>3, Arguments DEF a

LEMMA ElapsedLater ==
    ASSUME NEW n \in Nodes, NEW t \in Nat, NEW c \in Nat, t <= c
    PROVE  /\ ElapsedAt(n, t) <= ElapsedAt(n, c)
           /\ ElapsedAt(n, c) <= ElapsedAt(n, t) + (c - t)
BY Arguments DEF ElapsedAt

(* Once a slot after the first goes on, the clock runs unclipped. *)
LEMMA ElapsedPositive ==
    ASSUME NEW n \in Nodes, NEW t \in Nat, SlotAt(n, t) > 0
    PROVE  ElapsedAt(n, t) = t + Skew[n] - EpochMs /\ ElapsedAt(n, t) >= SlotMs
<1>1. 0 * SlotMs = 0
  BY Arguments
<1>2. 0 * SlotMs + SlotMs <= SlotAt(n, t) * SlotMs
  <2> DEFINE q == SlotAt(n, t)
  <2>1. q \in Nat /\ 0 < q /\ SlotMs \in Nat
    BY SlotType, Arguments
  <2> HIDE DEF q
  <2>2. 0 * SlotMs + SlotMs <= q * SlotMs
    BY <2>1, LaterMultiple
  <2> QED BY <2>2 DEF q
<1>3. ElapsedAt(n, t) >= SlotMs
  <2> DEFINE y == SlotAt(n, t) * SlotMs
  <2>1. /\ y \in Nat /\ InSlotAt(n, t) \in Nat /\ ElapsedAt(n, t) = y + InSlotAt(n, t)
        /\ SlotMs \in Nat /\ SlotMs <= y
    BY <1>1, <1>2, SlotType, Arguments
  <2> HIDE DEF y
  <2> QED BY <2>1
<1> QED BY <1>3, Arguments DEF ElapsedAt

LEMMA SlotChannelType ==
    ASSUME NEW s \in Nat
    PROVE  SlotChannel(s) \in Nat \ {0}
<1>1. s % Len(HopChannels) \in 0 .. Len(HopChannels) - 1
  BY Arguments, Division
<1>2. 1 + (s % Len(HopChannels)) \in 1 .. Len(HopChannels)
  BY <1>1, Arguments
<1> QED BY <1>2, Arguments DEF SlotChannel

(* How slots pass. *)
LEMMA SlotsPass ==
    ASSUME NEW n \in Nodes, NEW t \in Nat, NEW c \in Nat, t <= c
    PROVE  /\ SlotAt(n, t) <= SlotAt(n, c)
           /\ SlotAt(n, t) = SlotAt(n, c) => InSlotAt(n, c) <= InSlotAt(n, t) + (c - t)
           /\ SlotAt(n, t) < SlotAt(n, c) => InSlotAt(n, c) < c - t
<1> DEFINE p == SlotAt(n, t) i == InSlotAt(n, t) a == ElapsedAt(n, t)
           q == SlotAt(n, c) j == InSlotAt(n, c) d == ElapsedAt(n, c)
           x == p * SlotMs y == q * SlotMs
<1>1. /\ a <= d /\ d <= a + (c - t)
      /\ a \in Nat /\ p \in Nat /\ i \in Nat /\ i < SlotMs /\ x \in Nat /\ a = x + i
      /\ d \in Nat /\ q \in Nat /\ j \in Nat /\ j < SlotMs /\ y \in Nat /\ d = y + j
      /\ SlotMs \in Nat
  BY ElapsedLater, SlotType, Arguments
<1>2. p < q => x + SlotMs <= y
  BY <1>1, LaterMultiple
<1>3. q < p => y + SlotMs <= x
  BY <1>1, LaterMultiple
<1>4. p = q => x = y
  OBVIOUS
<1> HIDE DEF p, i, a, q, j, d, x, y
<1>5. p <= q
  BY <1>1, <1>3
<1>6. p = q => j <= i + (c - t)
  BY <1>1, <1>4
<1>7. p < q => j < c - t
  BY <1>1, <1>2
<1> QED BY <1>5, <1>6, <1>7 DEF p, i, a, q, j, d, x, y

(* Within less than a slot's length there is at most one change of slots,    *)
(* and none before the length of the slot is over.                          *)
LEMMA NextSlot ==
    ASSUME NEW n \in Nodes, NEW t \in Nat, NEW c \in Nat, t <= c, c - t < SlotMs
    PROVE  /\ SlotAt(n, c) = SlotAt(n, t) \/ SlotAt(n, c) = SlotAt(n, t) + 1
           /\ InSlotAt(n, t) + (c - t) < SlotMs => SlotAt(n, c) = SlotAt(n, t)
<1> DEFINE p == SlotAt(n, t) i == InSlotAt(n, t) a == ElapsedAt(n, t)
           q == SlotAt(n, c) j == InSlotAt(n, c) d == ElapsedAt(n, c)
           x == p * SlotMs y == q * SlotMs z == (p + 1) * SlotMs
<1>1. /\ a <= d /\ d <= a + (c - t)
      /\ a \in Nat /\ p \in Nat /\ i \in Nat /\ i < SlotMs /\ x \in Nat /\ a = x + i
      /\ d \in Nat /\ q \in Nat /\ j \in Nat /\ j < SlotMs /\ y \in Nat /\ d = y + j
      /\ SlotMs \in Nat
  BY ElapsedLater, SlotType, Arguments
<1>2. p <= q
  BY SlotsPass
<1>3. p < q => x + SlotMs <= y
  BY <1>1, LaterMultiple
<1>4. p + 1 < q => z + SlotMs <= y
  BY <1>1, LaterMultiple
<1>5. z = x + SlotMs
  BY <1>1
<1> HIDE DEF p, i, a, q, j, d, x, y, z
<1>6. ~(p + 1 < q)
  BY <1>1, <1>4, <1>5
<1>7. i + (c - t) < SlotMs => ~(p < q)
  BY <1>1, <1>3
<1>8. (q = p \/ q = p + 1) /\ (i + (c - t) < SlotMs => q = p)
  BY <1>1, <1>2, <1>6, <1>7
<1> QED BY <1>8 DEF p, i, a, q, j, d, x, y, z

(* The instant before a slot after the first belongs to the one before. *)
LEMMA SlotBefore ==
    ASSUME NEW n \in Nodes, NEW t \in Nat, NEW c \in Nat, t <= c, SlotAt(n, t) < SlotAt(n, c)
    PROVE  \E b \in t .. c : SlotAt(n, b) = SlotAt(n, c) - 1
<1> DEFINE q == SlotAt(n, c) j == InSlotAt(n, c) d == ElapsedAt(n, c)
           y == q * SlotMs x == (q - 1) * SlotMs b == c - j - 1
<1>1. /\ d \in Nat /\ q \in Nat \ {0} /\ j \in Nat /\ j < SlotMs /\ y \in Nat /\ d = y + j
      /\ SlotMs \in Nat \ {0} /\ SlotAt(n, t) \in Nat
      /\ j < c - t
  <2>1. /\ d \in Nat /\ q \in Nat /\ j \in Nat /\ j < SlotMs /\ y \in Nat /\ d = y + j
        /\ SlotAt(n, t) \in Nat
    BY SlotType
  <2>2. q # 0
    BY <2>1
  <2> QED BY <2>1, <2>2, SlotsPass, Arguments
<1>2. q - 1 \in Nat /\ x \in Nat /\ y = x + SlotMs
  <2> HIDE DEF q
  <2>1. q - 1 \in Nat /\ x \in Nat
    BY <1>1, Multiple
  <2> QED BY <1>1, <2>1
<1>3. d = c + Skew[n] - EpochMs
  BY <1>1, ElapsedPositive
<1>4. b \in t .. c /\ b \in Nat
  BY <1>1
<1> HIDE DEF q, j, d, x, y
<1>5. b + Skew[n] - EpochMs = x + (SlotMs - 1)
  <2>1. Skew[n] \in Int /\ EpochMs \in Int
    BY Arguments
  <2> QED BY <1>1, <1>2, <1>3, <2>1
<1>6. ElapsedAt(n, b) = x + (SlotMs - 1)
  BY <1>1, <1>2, <1>5, Arguments DEF ElapsedAt
<1>7. x <= ElapsedAt(n, b) /\ ElapsedAt(n, b) < x + SlotMs /\ ElapsedAt(n, b) \in Nat
  BY <1>1, <1>2, <1>6
<1>8. ElapsedAt(n, b) \div SlotMs = q - 1
  BY <1>1, <1>2, <1>7, OnlyMultiple DEF x
<1> QED BY <1>4, <1>8 DEF SlotAt, q

-----------------------------------------------------------------------------
(* The lengths of time. *)

LEMMA UploadTimes ==
    ASSUME NEW n \in Nodes, NEW k \in Nat
    PROVE  /\ UploadsMs(n, k) \in Nat
           /\ UploadsMs(n, k) <= UploadsMs(n, k + 1)
           /\ n \in Gateways => UploadsMs(n, k + 1) = UploadsMs(n, k) + PostMs + WorkMs
<1> DEFINE u == PostMs + WorkMs
<1>1. u \in Nat /\ k * u \in Nat /\ (k + 1) * u \in Nat
  BY Arguments, Multiple
<1>2. (k + 1) * u = k * u + u
  BY <1>1
<1>3. k * u <= (k + 1) * u
  BY <1>1, <1>2
<1> QED BY <1>1, <1>2, <1>3, Arguments DEF UploadsMs

LEMMA Times ==
    ASSUME NEW n \in Nodes
    PROVE  /\ TurnMs(n) \in Nat /\ LookMs(n) \in Nat \ {0}
           /\ TurnMs(n) = 3 * WorkMs + RxTimeoutMs + UploadsMs(n, Uploads + 1)
           /\ TurnMs(n) <= LookMs(n) /\ SettleMs + 2 * WorkMs <= LookMs(n)
           /\ LagMs(n) = LookMs(n) + SettleMs + WorkMs
           /\ SlotsLongEnough => LagMs(n) + GuardMs < SlotMs
<1>1. TurnMs(n) = 3 * WorkMs + RxTimeoutMs + UploadsMs(n, 4)
  BY DEF TurnMs, UploadsMs
<1>2. UploadsMs(n, 4) \in Nat
  BY UploadTimes
<1>3. TurnMs(n) \in Nat \ {0}
  BY <1>1, <1>2, Arguments
<1>4. UploadsMs(n, Uploads + 1) = UploadsMs(n, 4)
  BY DEF Uploads
<1>5. /\ LookMs(n) \in Nat \ {0}
      /\ TurnMs(n) <= LookMs(n) /\ SettleMs + 2 * WorkMs <= LookMs(n)
  BY <1>3, Arguments DEF LookMs
<1> QED BY <1>1, <1>3, <1>4, <1>5 DEF LagMs, SlotsLongEnough

LEMMA SentTime ==
    ASSUME NEW n \in Nodes, stage[n] \in 0 .. Sends
    PROVE  /\ Sent(n) \in 0 .. Uploads
           /\ UploadsMs(n, Sent(n)) \in Nat
           /\ UploadsMs(n, Sent(n)) <= UploadsMs(n, Uploads)
           /\ UploadsMs(n, Uploads) <= UploadsMs(n, Uploads + 1)
           /\ UploadsMs(n, Uploads) \in Nat
           /\ n \in Gateways =>
                 UploadsMs(n, Uploads + 1) = UploadsMs(n, Uploads) + PostMs + WorkMs
           /\ UploadsMs(n, Uploads + 1) \in Nat
<1>1. Sent(n) \in 0 .. 3
  BY DEF Sent, Sends, Uploads
<1>2. /\ \A k \in {0, 1, 2, 3, 4} : UploadsMs(n, k) \in Nat
      /\ UploadsMs(n, 0) <= UploadsMs(n, 1) /\ UploadsMs(n, 1) <= UploadsMs(n, 2)
      /\ UploadsMs(n, 2) <= UploadsMs(n, 3) /\ UploadsMs(n, 3) <= UploadsMs(n, 4)
      /\ n \in Gateways => UploadsMs(n, 4) = UploadsMs(n, 3) + PostMs + WorkMs
  <2>1. \A k \in Nat : UploadsMs(n, k) \in Nat /\ UploadsMs(n, k) <= UploadsMs(n, k + 1)
    BY UploadTimes
  <2>2. n \in Gateways => UploadsMs(n, 3 + 1) = UploadsMs(n, 3) + PostMs + WorkMs
    BY UploadTimes
  <2>3. 0 + 1 = 1 /\ 1 + 1 = 2 /\ 2 + 1 = 3 /\ 3 + 1 = 4
    OBVIOUS
  <2>4. /\ UploadsMs(n, 0) <= UploadsMs(n, 0 + 1) /\ UploadsMs(n, 1) <= UploadsMs(n, 1 + 1)
        /\ UploadsMs(n, 2) <= UploadsMs(n, 2 + 1) /\ UploadsMs(n, 3) <= UploadsMs(n, 3 + 1)
    BY <2>1
  <2> QED BY <2>1, <2>2, <2>3, <2>4
<1>3. /\ UploadsMs(n, 0) <= UploadsMs(n, 3) /\ UploadsMs(n, 1) <= UploadsMs(n, 3)
      /\ UploadsMs(n, 2) <= UploadsMs(n, 3) /\ UploadsMs(n, 3) <= UploadsMs(n, 3)
  BY <1>2
<1>4. Sent(n) = 0 \/ Sent(n) = 1 \/ Sent(n) = 2 \/ Sent(n) = 3
  BY <1>1
<1>5. UploadsMs(n, Sent(n)) \in Nat /\ UploadsMs(n, Sent(n)) <= UploadsMs(n, 3)
  BY <1>2, <1>3, <1>4
<1>6. Uploads = 3 /\ Uploads + 1 = 4
  BY DEF Uploads
<1> QED BY <1>1, <1>2, <1>5, <1>6

(* No step of a turn is allowed more time than a whole turn. *)
LEMMA BudgetWithin ==
    ASSUME TypeOK, NEW n \in Nodes, step[n] \notin {"ended", "settling"},
           step[n] \in {"posting", "uploading", "handled"} => n \in Gateways
    PROVE  Budget(n) \in Nat /\ Budget(n) <= LookMs(n)
<1> DEFINE s == UploadsMs(n, Sent(n)) u == UploadsMs(n, Uploads) v == UploadsMs(n, Uploads + 1)
<1>1. stage[n] \in 0 .. Sends /\ step[n] \in Steps
  BY DEF TypeOK
<1>2. /\ s \in Nat /\ u \in Nat /\ v \in Nat /\ s <= u /\ u <= v
      /\ n \in Gateways => v = u + PostMs + WorkMs
  BY <1>1, SentTime
<1>3. /\ LookMs(n) \in Nat /\ 3 * WorkMs + RxTimeoutMs + v <= LookMs(n)
  BY Times
<1> HIDE DEF s, u, v
<1>4. CASE step[n] = "top"
  BY <1>3, <1>4 DEF Budget
<1>5. CASE step[n] = "send"
  <2>1. Budget(n) = WorkMs + s
    BY <1>5 DEF Budget, s
  <2> QED BY <1>2, <1>3, <2>1, Arguments
<1>6. CASE step[n] = "posting"
  <2>1. Budget(n) = s
    BY <1>6 DEF Budget, s
  <2> QED BY <1>2, <1>3, <2>1, Arguments
<1>7. CASE step[n] = "wait"
  <2>1. Budget(n) = WorkMs + u + RxTimeoutMs
    BY <1>7 DEF Budget, u
  <2> QED BY <1>2, <1>3, <2>1, Arguments
<1>8. CASE step[n] = "handle"
  <2>1. Budget(n) = 2 * WorkMs + u + RxTimeoutMs
    BY <1>8 DEF Budget, u
  <2> QED BY <1>2, <1>3, <2>1, Arguments
<1>9. CASE step[n] = "uploading"
  <2>1. Budget(n) = 2 * WorkMs + u + RxTimeoutMs + PostMs
    BY <1>9 DEF Budget, u
  <2> QED BY <1>2, <1>3, <1>9, <2>1, Arguments
<1>10. CASE step[n] = "handled"
  <2>1. Budget(n) = 2 * WorkMs + v + RxTimeoutMs
    BY <1>10 DEF Budget, v
  <2> QED BY <1>2, <1>3, <2>1, Arguments
<1> QED BY <1>1, <1>4, <1>5, <1>6, <1>7, <1>8, <1>9, <1>10 DEF Steps

-----------------------------------------------------------------------------
(* What the last look at the schedule tells now. *)

LEMMA LookedRecently ==
    ASSUME TypeOK, NEW n \in Nodes, step[n] \notin {"ended", "settling"}, OnTime(n),
           NEW b \in 0 .. clock, NEW l \in 0 .. clock, Tuned(n, b, l)
    PROVE  clock - l <= LookMs(n)
<1>1. Budget(n) \in Nat /\ Budget(n) <= LookMs(n) /\ LookMs(n) \in Nat
  BY BudgetWithin, Times DEF OnTime
<1>2. clock <= until[n] /\ until[n] <= l + Budget(n) /\ until[n] \in Nat /\ clock \in Nat
  BY Arguments DEF OnTime, Tuned, TypeOK
<1> QED BY <1>1, <1>2

(* From one look to the next the schedule names one of the two channels. *)
LEMMA BetweenLooks ==
    ASSUME NEW n \in Nodes, NEW l \in Nat, NEW c \in Nat, l <= c, c - l < SlotMs, NEW t \in l .. c
    PROVE  SlotAt(n, t) = SlotAt(n, l) \/ SlotAt(n, t) = SlotAt(n, c)
<1>1. t \in Nat /\ l <= t /\ t <= c
  OBVIOUS
<1>2. /\ SlotAt(n, l) <= SlotAt(n, t) /\ SlotAt(n, t) <= SlotAt(n, c)
      /\ SlotAt(n, c) = SlotAt(n, l) \/ SlotAt(n, c) = SlotAt(n, l) + 1
  BY <1>1, SlotsPass, NextSlot
<1>3. SlotAt(n, l) \in Nat /\ SlotAt(n, t) \in Nat /\ SlotAt(n, c) \in Nat
  BY <1>1, SlotType
<1> QED BY <1>2, <1>3

-----------------------------------------------------------------------------
(* The steps. *)

LEMMA StartsInvariant == Init => IndInv
<1> SUFFICES ASSUME Init PROVE IndInv
  OBVIOUS
<1>1. \A n \in Nodes : SlotAt(n, 0) \in Nat /\ SlotChannel(SlotAt(n, 0)) \in Nat \ {0}
  BY SlotType, SlotChannelType
<1>2. \A n \in Nodes : channel[n] = SlotChannel(SlotAt(n, 0))
  BY DEF Init, Scheduled, Slot
<1>3. TypeOK
  <2>1. channel \in [Nodes -> Nat \ {0}]
    BY <1>1 DEF Init, Scheduled, Slot
  <2> QED BY <2>1, Arguments DEF Init, TypeOK, Steps, Sends
<1>4. ASSUME NEW n \in Nodes PROVE OnTime(n)
  <2>1. /\ clock = 0 /\ step[n] = "settling" /\ until[n] = SettleMs + WorkMs
        /\ Budget(n) = SettleMs + WorkMs
    BY <1>4 DEF Init, Budget
  <2>2. \A t \in 0 .. 0 : t = 0
    OBVIOUS
  <2>3. Tuned(n, 0, 0)
    BY <1>2, <2>1, <2>2, Arguments DEF Tuned
  <2> QED BY <2>1, <2>3, Arguments DEF OnTime
<1> QED BY <1>3, <1>4 DEF IndInv

(* A node that does nothing is as much on time as before. *)
LEMMA OtherNode ==
    ASSUME NEW m \in Nodes, OnTime(m), clock' = clock, step'[m] = step[m], until'[m] = until[m],
           stage'[m] = stage[m], channel'[m] = channel[m], guard'[m] = guard[m],
           txAllowed'[m] = txAllowed[m]
    PROVE  OnTime(m)'
BY DEF OnTime, Tuned, Budget, Sent

LEMMA TickStep == ASSUME IndInv, Tick PROVE IndInv'
<1>1. /\ clock' = clock + 1 /\ clock \in Nat
      /\ \A n \in Nodes : step[n] = "ended" \/ clock < until[n]
      /\ UNCHANGED <<step, until, stage, channel, guard, txAllowed>>
  BY Arguments DEF Tick, IndInv, TypeOK
<1>2. TypeOK'
  BY <1>1, Arguments DEF Tick, IndInv, TypeOK
<1>3. ASSUME NEW n \in Nodes, step'[n] # "ended" PROVE OnTime(n)'
  <2>1. OnTime(n) /\ until[n] \in Nat /\ guard[n] \in Nat
    BY <1>1, <1>3 DEF IndInv, TypeOK
  <2>2. PICK b \in 0 .. clock, l \in 0 .. clock : Tuned(n, b, l)
    BY <2>1 DEF OnTime
  <2>3. Tuned(n, b, l)'
    BY <1>1, <2>2 DEF Tuned, Budget, Sent
  <2>4. b \in 0 .. clock' /\ l \in 0 .. clock'
    BY <1>1
  <2>5. clock' <= until'[n]
    BY <1>1, <1>3, <2>1
  <2>6. step'[n] = "top" => until'[n] <= clock' + WorkMs
    BY <1>1, <2>1, Arguments DEF OnTime
  <2>7. step'[n] \in {"send", "posting"} /\ txAllowed'[n] => guard'[n] <= clock'
    BY <1>1, <2>1 DEF OnTime
  <2>8. step'[n] \in {"posting", "uploading", "handled"} => n \in Gateways
    BY <1>1, <2>1 DEF OnTime
  <2> QED BY <2>3, <2>4, <2>5, <2>6, <2>7, <2>8 DEF OnTime
<1> QED BY <1>2, <1>3 DEF IndInv

(* It is enough to look at the node that acts. *)
OthersStand(n) ==
    \A m \in Nodes \ {n} :
        /\ step'[m] = step[m] /\ until'[m] = until[m] /\ stage'[m] = stage[m]
        /\ channel'[m] = channel[m] /\ guard'[m] = guard[m] /\ txAllowed'[m] = txAllowed[m]

LEMMA ActingNode ==
    ASSUME IndInv, NEW n \in Nodes, clock' = clock, TypeOK', OthersStand(n),
           step'[n] # "ended" => OnTime(n)'
    PROVE  IndInv'
<1>1. ASSUME NEW m \in Nodes, m # n, step'[m] # "ended" PROVE OnTime(m)'
  <2>1. /\ step'[m] = step[m] /\ until'[m] = until[m] /\ stage'[m] = stage[m]
        /\ channel'[m] = channel[m] /\ guard'[m] = guard[m] /\ txAllowed'[m] = txAllowed[m]
    BY <1>1 DEF OthersStand
  <2>2. OnTime(m)
    BY <1>1, <2>1 DEF IndInv
  <2> QED BY <2>1, <2>2, OtherNode
<1> QED BY <1>1 DEF IndInv

(* A step within a turn keeps the two looks; its time must not run out. *)
LEMMA WithinTurn ==
    ASSUME IndInv, NEW n \in Nodes, step[n] \notin {"ended", "settling"}, clock' = clock,
           TypeOK', OthersStand(n), UNCHANGED <<channel, guard, txAllowed>>,
           step'[n] \notin {"ended", "settling"}, clock <= until'[n],
           step'[n] = "top" => until'[n] <= clock + WorkMs,
           step'[n] \in {"posting", "uploading", "handled"} => n \in Gateways,
           step'[n] \in {"send", "posting"} => step[n] \in {"send", "posting"},
           \A l \in 0 .. clock : until[n] <= l + Budget(n) => until'[n] <= l + Budget(n)'
    PROVE  IndInv'
<1>1. OnTime(n)
  BY DEF IndInv
<1>2. PICK b \in 0 .. clock, l \in 0 .. clock : Tuned(n, b, l)
  BY <1>1 DEF OnTime
<1>3. until'[n] <= l + Budget(n)'
  BY <1>2 DEF Tuned
<1>4. Tuned(n, b, l)'
  BY <1>2, <1>3 DEF Tuned, JustChanged
<1>5. OnTime(n)'
  BY <1>1, <1>4 DEF OnTime
<1> QED BY <1>5, ActingNode

LEMMA BeginSwitchStep == ASSUME IndInv, NEW n \in Nodes, BeginSwitch(n) PROVE IndInv'
<1>1. /\ TypeOK /\ OnTime(n) /\ step[n] = "top" /\ clock \in Nat
  BY Arguments DEF BeginSwitch, IndInv, TypeOK
<1>2. PICK b \in 0 .. clock, l \in 0 .. clock : Tuned(n, b, l)
  BY <1>1 DEF OnTime
<1> DEFINE c == SlotChannel(SlotAt(n, clock))
<1>3. /\ channel[n] = SlotChannel(SlotAt(n, l)) /\ channel[n] # c /\ c \in Nat \ {0}
      /\ clock - l <= LookMs(n) /\ LookMs(n) \in Nat
  BY <1>1, <1>2, LookedRecently, SlotChannelType, SlotType, Times
     DEF BeginSwitch, Scheduled, Slot, Tuned
<1>4. /\ clock' = clock /\ step' = [step EXCEPT ![n] = "settling"]
      /\ until' = [until EXCEPT ![n] = clock + (SettleMs + WorkMs)]
      /\ channel' = [channel EXCEPT ![n] = c]
      /\ stage' = stage /\ guard' = guard /\ txAllowed' = txAllowed
  BY DEF BeginSwitch, Enter, Scheduled, Slot
<1> HIDE DEF c
<1>5. /\ step'[n] = "settling" /\ until'[n] = clock + (SettleMs + WorkMs) /\ channel'[n] = c
      /\ OthersStand(n)
  BY <1>1, <1>4 DEF TypeOK, OthersStand
<1>6. JustChanged(n, clock)
  <2>1. /\ SlotAt(n, l) \in Nat /\ SlotAt(n, clock) \in Nat
        /\ SlotAt(n, l) <= SlotAt(n, clock) /\ SlotAt(n, l) # SlotAt(n, clock)
    BY <1>1, <1>3, SlotType, SlotsPass DEF c
  <2>2. InSlotAt(n, clock) < clock - l /\ InSlotAt(n, clock) \in Nat
    <3>1. l \in Nat /\ l <= clock /\ SlotAt(n, l) < SlotAt(n, clock)
      BY <1>1, <2>1
    <3> QED BY <1>1, <3>1, SlotsPass, SlotType
  <2>3. ASSUME SlotsLongEnough PROVE SlotAt(n, l) = SlotAt(n, clock) - 1
    <3>1. clock - l < SlotMs
      BY <1>1, <1>3, <2>3, Times, Arguments
    <3>2. SlotAt(n, clock) = SlotAt(n, l) + 1
      BY <1>1, <2>1, <3>1, NextSlot
    <3> QED BY <2>1, <3>2
  <2> QED BY <1>1, <1>3, <2>1, <2>2, <2>3 DEF JustChanged, c
<1>7. Budget(n)' = SettleMs + WorkMs
  BY <1>5 DEF Budget
<1>8. Tuned(n, clock, clock)'
  <2>1. \A t \in clock .. clock : t = clock
    BY <1>1
  <2>2. JustChanged(n, clock)'
    BY <1>4, <1>6 DEF JustChanged
  <2>3. clock' <= clock'
    BY <1>1, <1>4
  <2>4. until'[n] <= clock' + Budget(n)' /\ until'[n] = clock' + Budget(n)'
    BY <1>1, <1>4, <1>5, <1>7, Arguments
  <2> QED BY <1>4, <1>5, <2>1, <2>2, <2>3, <2>4 DEF Tuned, c
<1>9. OnTime(n)'
  <2>1. clock' \in 0 .. clock' /\ clock' <= until'[n]
    BY <1>1, <1>4, <1>5, Arguments
  <2>2. \E began, looked \in 0 .. clock' : Tuned(n, began, looked)'
    BY <1>4, <1>8, <2>1
  <2> QED BY <1>5, <2>1, <2>2 DEF OnTime
<1>10. TypeOK'
  <2>1. "settling" \in Steps /\ clock + (SettleMs + WorkMs) \in Nat
    BY <1>1, Arguments DEF Steps
  <2> QED BY <1>1, <1>3, <1>4, <2>1 DEF TypeOK
<1> QED BY <1>4, <1>5, <1>9, <1>10, ActingNode

LEMMA FinishSwitchStep == ASSUME IndInv, NEW n \in Nodes, FinishSwitch(n) PROVE IndInv'
<1>1. /\ TypeOK /\ OnTime(n) /\ step[n] = "settling" /\ clock \in Nat /\ until[n] \in Nat
      /\ clock >= until[n] - WorkMs /\ clock <= until[n]
  BY Arguments DEF FinishSwitch, IndInv, TypeOK, OnTime
<1>2. PICK b \in 0 .. clock, l \in 0 .. clock : Tuned(n, b, l)
  BY <1>1 DEF OnTime
<1>3. b = l /\ until[n] = l + (SettleMs + WorkMs)
  BY <1>1, <1>2 DEF Tuned, Budget
<1>4. /\ clock' = clock /\ step' = [step EXCEPT ![n] = "top"]
      /\ until' = [until EXCEPT ![n] = clock + WorkMs]
      /\ guard' = [guard EXCEPT ![n] = clock + GuardMs]
      /\ stage' = stage /\ channel' = channel /\ txAllowed' = txAllowed
  BY DEF FinishSwitch, Enter
<1>5. /\ step'[n] = "top" /\ until'[n] = clock + WorkMs /\ guard'[n] = clock + GuardMs
      /\ channel'[n] = channel[n] /\ OthersStand(n)
  BY <1>1, <1>4 DEF TypeOK, OthersStand
<1>6. Budget(n)' = LookMs(n)
  BY <1>5 DEF Budget
<1>7. until'[n] <= l + Budget(n)'
  <2>1. SettleMs + 2 * WorkMs <= LookMs(n) /\ LookMs(n) \in Nat
    BY Times
  <2>2. clock <= l + (SettleMs + WorkMs) /\ l \in Nat
    BY <1>1, <1>3
  <2>3. clock + WorkMs <= l + LookMs(n)
    BY <1>1, <2>1, <2>2, Arguments
  <2> QED BY <1>5, <1>6, <2>3
<1>8. b + SettleMs + GuardMs <= guard'[n]
  BY <1>1, <1>3, <1>5, Arguments
<1>9. Tuned(n, b, l)'
  BY <1>2, <1>4, <1>5, <1>7, <1>8 DEF Tuned, JustChanged
<1>10. OnTime(n)'
  <2>1. clock' <= until'[n] /\ until'[n] <= clock' + WorkMs
    BY <1>1, <1>4, <1>5, Arguments
  <2> QED BY <1>4, <1>5, <1>9, <2>1 DEF OnTime
<1>11. TypeOK'
  <2>1. "top" \in Steps /\ clock + WorkMs \in Nat /\ clock + GuardMs \in Nat
    BY <1>1, Arguments DEF Steps
  <2> QED BY <1>1, <1>4, <2>1 DEF TypeOK
<1> QED BY <1>4, <1>5, <1>10, <1>11, ActingNode

LEMMA SwitchFailsStep == ASSUME IndInv, NEW n \in Nodes, SwitchFails(n) PROVE IndInv'
<1>1. TypeOK /\ "ended" \in Steps
  BY DEF IndInv, Steps
<1>2. /\ clock' = clock /\ step' = [step EXCEPT ![n] = "ended"]
      /\ UNCHANGED <<until, stage, channel, guard, txAllowed>>
  BY DEF SwitchFails
<1>3. TypeOK'
  BY <1>1, <1>2 DEF TypeOK
<1>4. ASSUME NEW m \in Nodes, step'[m] # "ended" PROVE OnTime(m)'
  <2>1. step'[m] = step[m]
    BY <1>1, <1>2, <1>4 DEF TypeOK
  <2>2. OnTime(m)
    BY <1>4, <2>1 DEF IndInv
  <2> QED BY <1>2, <2>1, <2>2, OtherNode
<1> QED BY <1>3, <1>4 DEF IndInv

LEMMA BeginTurnStep == ASSUME IndInv, NEW n \in Nodes, BeginTurn(n) PROVE IndInv'
<1>1. /\ TypeOK /\ OnTime(n) /\ step[n] = "top" /\ clock \in Nat
      /\ until[n] \in Nat /\ guard[n] \in Nat
  BY Arguments DEF BeginTurn, IndInv, TypeOK
<1>2. PICK b \in 0 .. clock, l \in 0 .. clock : Tuned(n, b, l)
  BY <1>1 DEF OnTime
<1>3. /\ channel[n] = SlotChannel(SlotAt(n, clock))
      /\ channel[n] = SlotChannel(SlotAt(n, l))
      /\ clock - l <= LookMs(n) /\ LookMs(n) \in Nat
  BY <1>1, <1>2, LookedRecently, Times DEF BeginTurn, Scheduled, Slot, Tuned
<1>4. /\ clock' = clock /\ step' = [step EXCEPT ![n] = "send"] /\ until' = until
      /\ stage' = [stage EXCEPT ![n] = 0] /\ channel' = channel /\ guard' = guard
      /\ txAllowed' = [txAllowed EXCEPT ![n] = clock >= guard[n]]
  BY DEF BeginTurn
<1>5. /\ step'[n] = "send" /\ until'[n] = until[n] /\ guard'[n] = guard[n] /\ stage'[n] = 0
      /\ channel'[n] = channel[n] /\ OthersStand(n)
      /\ txAllowed'[n] = (clock >= guard[n])
  BY <1>1, <1>4 DEF TypeOK, OthersStand
<1>6. until'[n] <= clock + Budget(n)'
  <2>1. Budget(n)' = WorkMs + UploadsMs(n, 0)
    BY <1>5 DEF Budget, Sent, Uploads
  <2>2. UploadsMs(n, 0) \in Nat
    BY UploadTimes
  <2>3. until[n] <= clock + WorkMs
    BY <1>1 DEF OnTime
  <2> QED BY <1>1, <1>5, <2>1, <2>2, <2>3, Arguments
<1>7. ASSUME SlotsLongEnough, NEW t \in b .. clock
      PROVE  SlotChannel(SlotAt(n, t)) = channel[n]
  <2>1. CASE t <= l
    BY <1>2, <1>7, <2>1 DEF Tuned
  <2>2. CASE ~(t <= l)
    <3>1. clock - l < SlotMs
      BY <1>1, <1>3, <1>7, Times, Arguments
    <3>2. t \in l .. clock
      BY <1>1, <2>2
    <3>3. SlotAt(n, t) = SlotAt(n, l) \/ SlotAt(n, t) = SlotAt(n, clock)
      BY <1>1, <3>1, <3>2, BetweenLooks
    <3> QED BY <1>3, <3>3
  <2> QED BY <2>1, <2>2
<1>8. Tuned(n, b, clock)'
  <2>1. b <= clock /\ (b = 0 \/ JustChanged(n, b)) /\ b + SettleMs + GuardMs <= guard[n]
    BY <1>1, <1>2 DEF Tuned
  <2> QED BY <1>3, <1>4, <1>5, <1>6, <1>7, <2>1 DEF Tuned, JustChanged
<1>9. OnTime(n)'
  <2>1. clock' <= until'[n] /\ clock' \in 0 .. clock'
    BY <1>1, <1>4, <1>5 DEF OnTime
  <2>2. \E began, looked \in 0 .. clock' : Tuned(n, began, looked)'
    BY <1>4, <1>8, <2>1
  <2>3. txAllowed'[n] => guard'[n] <= clock'
    BY <1>1, <1>4, <1>5
  <2> QED BY <1>5, <2>1, <2>2, <2>3 DEF OnTime
<1>10. TypeOK'
  <2>1. "send" \in Steps /\ 0 \in 0 .. Sends /\ (clock >= guard[n]) \in BOOLEAN
    BY DEF Steps, Sends
  <2> QED BY <1>1, <1>4, <2>1 DEF TypeOK
<1> QED BY <1>4, <1>5, <1>9, <1>10, ActingNode

LEMMA TurnStep ==
    ASSUME IndInv, NEW n \in Nodes,
           \/ Send(n) \/ Uploaded(n) \/ SendSync(n) \/ Listen(n) \/ NothingHeard(n)
           \/ FrameHeard(n) \/ UploadHeard(n) \/ HeardUploaded(n) \/ FrameDone(n)
    PROVE  IndInv'
<1> DEFINE s == UploadsMs(n, Sent(n)) u == UploadsMs(n, Uploads) v == UploadsMs(n, Uploads + 1)
<1>1. /\ TypeOK /\ clock \in Nat /\ until[n] \in Nat /\ stage[n] \in 0 .. Sends
      /\ step[n] \in Steps
  BY Arguments DEF IndInv, TypeOK
<1>2. /\ clock' = clock /\ UNCHANGED <<channel, guard, txAllowed>>
      /\ step[n] \notin {"ended", "settling"}
  BY DEF Send, Uploaded, SendSync, Listen, NothingHeard, FrameHeard, UploadHeard,
         HeardUploaded, FrameDone
<1>3. /\ OnTime(n) /\ clock <= until[n]
      /\ step[n] \in {"posting", "uploading", "handled"} => n \in Gateways
  BY <1>2 DEF IndInv, OnTime
<1>4. /\ s \in Nat /\ u \in Nat /\ v \in Nat /\ s <= u /\ u <= v
      /\ n \in Gateways => v = u + PostMs + WorkMs
  BY <1>1, SentTime
<1>5. 3 * WorkMs + RxTimeoutMs + v <= LookMs(n) /\ LookMs(n) \in Nat
  BY Times
<1> HIDE DEF s, u, v
<1>6. CASE Send(n) /\ n \in Gateways
  <2>1. /\ step[n] = "send" /\ stage[n] \in 0 .. 2
        /\ step' = [step EXCEPT ![n] = "posting"] /\ until' = [until EXCEPT ![n] = clock + PostMs]
        /\ stage' = [stage EXCEPT ![n] = stage[n] + 1]
    BY <1>1, <1>6 DEF Send, Enter, Uploads, Sends
  <2>2. /\ step'[n] = "posting" /\ until'[n] = clock + PostMs /\ stage'[n] = stage[n] + 1
        /\ OthersStand(n)
    BY <1>1, <1>2, <2>1 DEF TypeOK, OthersStand
  <2>3. TypeOK'
    <3>1. "posting" \in Steps /\ clock + PostMs \in Nat /\ stage[n] + 1 \in 0 .. Sends
      BY <1>1, <2>1, Arguments DEF Steps, Sends
    <3> QED BY <1>1, <1>2, <2>1, <3>1 DEF TypeOK
  <2>4. Budget(n) = WorkMs + s
    BY <2>1 DEF Budget, s
  <2>5. Budget(n)' = s + PostMs + WorkMs
    <3>1. Sent(n) = stage[n] /\ Sent(n)' = stage[n] + 1
      BY <2>1, <2>2 DEF Sent, Uploads
    <3>2. UploadsMs(n, stage[n] + 1) = UploadsMs(n, stage[n]) + PostMs + WorkMs
      BY <1>6, <2>1, UploadTimes
    <3> QED BY <2>2, <3>1, <3>2 DEF Budget, s
  <2>6. \A l \in 0 .. clock : until[n] <= l + Budget(n) => until'[n] <= l + Budget(n)'
    BY <1>1, <1>3, <1>4, <2>2, <2>4, <2>5, Arguments
  <2>7. clock <= until'[n]
    BY <1>1, <2>2, Arguments
  <2> QED BY <1>2, <1>6, <2>1, <2>2, <2>3, <2>6, <2>7, WithinTurn
<1>7. CASE (Send(n) /\ n \notin Gateways) \/ SendSync(n)
  <2>1. /\ step[n] = "send" /\ step' = step /\ until' = until
        /\ stage[n] \in 0 .. 3
        /\ \E k \in 0 .. Sends : k > stage[n] /\ stage' = [stage EXCEPT ![n] = k]
    BY <1>1, <1>7 DEF Send, SendSync, Uploads, Sends
  <2>2. PICK k \in 0 .. Sends : k > stage[n] /\ stage' = [stage EXCEPT ![n] = k]
    BY <2>1
  <2>3. /\ step'[n] = "send" /\ until'[n] = until[n] /\ stage'[n] = k /\ OthersStand(n)
    BY <1>1, <1>2, <2>1, <2>2 DEF TypeOK, OthersStand
  <2>4. TypeOK'
    BY <1>1, <1>2, <2>1, <2>2 DEF TypeOK
  <2>5. Budget(n) = WorkMs + s
    BY <2>1 DEF Budget, s
  <2>6. Budget(n)' = WorkMs + UploadsMs(n, Sent(n)')
    BY <2>3 DEF Budget
  <2>7. s <= UploadsMs(n, Sent(n)') /\ UploadsMs(n, Sent(n)') \in Nat
    <3>1. Sent(n) = stage[n] /\ (Sent(n)' = 3 \/ (stage[n] < 2 /\ Sent(n)' \in stage[n] + 1 .. 2))
      BY <2>1, <2>2, <2>3 DEF Sent, Uploads, Sends
    <3>2. u = UploadsMs(n, 3)
      BY DEF u, Uploads
    <3>3. \A i \in Nat : UploadsMs(n, i) \in Nat /\ UploadsMs(n, i) <= UploadsMs(n, i + 1)
      BY UploadTimes
    <3>4. /\ UploadsMs(n, 0) <= UploadsMs(n, 0 + 1) /\ UploadsMs(n, 1) <= UploadsMs(n, 1 + 1)
          /\ 0 + 1 = 1 /\ 1 + 1 = 2
          /\ UploadsMs(n, 0) \in Nat /\ UploadsMs(n, 1) \in Nat /\ UploadsMs(n, 2) \in Nat
      BY <3>3
    <3>5. CASE Sent(n)' = 3
      BY <1>4, <3>2, <3>5
    <3>6. CASE stage[n] < 2 /\ Sent(n)' \in stage[n] + 1 .. 2
      <4>1. \/ stage[n] = 0 /\ Sent(n)' = 1
            \/ stage[n] = 0 /\ Sent(n)' = 2
            \/ stage[n] = 1 /\ Sent(n)' = 2
        BY <2>1, <3>6
      <4> QED BY <3>1, <3>4, <4>1 DEF s
    <3> QED BY <3>1, <3>5, <3>6
  <2>8. \A l \in 0 .. clock : until[n] <= l + Budget(n) => until'[n] <= l + Budget(n)'
    BY <1>1, <1>4, <2>3, <2>5, <2>6, <2>7, Arguments
  <2> QED BY <1>2, <1>3, <2>1, <2>3, <2>4, <2>8, WithinTurn
<1>8. ASSUME NEW t \in Steps \ {"ended", "settling"}, NEW d \in Nat, Enter(n, t, d), stage' = stage,
             t = "top" => d <= WorkMs,
             t \in {"posting", "uploading", "handled"} => n \in Gateways,
             t \in {"send", "posting"} => step[n] \in {"send", "posting"},
             \A l \in 0 .. clock : until[n] <= l + Budget(n) => clock + d <= l + Budget(n)'
      PROVE  IndInv'
  <2>1. /\ step'[n] = t /\ until'[n] = clock + d /\ OthersStand(n)
    BY <1>1, <1>2, <1>8 DEF TypeOK, OthersStand, Enter
  <2>2. TypeOK'
    BY <1>1, <1>2, <1>8 DEF TypeOK, Enter
  <2>3. clock <= until'[n] /\ (t = "top" => until'[n] <= clock + WorkMs)
    BY <1>1, <1>8, <2>1, Arguments
  <2> QED BY <1>2, <1>8, <2>1, <2>2, <2>3, WithinTurn
<1>9. ASSUME stage' = stage
      PROVE  UploadsMs(n, Sent(n))' = s
  BY <1>9 DEF Sent, UploadsMs, s
<1>10. CASE Uploaded(n)
  <2>1. step[n] = "posting" /\ Enter(n, "send", WorkMs) /\ stage' = stage
    BY <1>10 DEF Uploaded
  <2>2. step'[n] = "send"
    BY <1>1, <2>1 DEF Enter, TypeOK
  <2>3. Budget(n) = s /\ Budget(n)' = WorkMs + s
    BY <1>9, <2>1, <2>2 DEF Budget, s
  <2>4. \A l \in 0 .. clock : until[n] <= l + Budget(n) => clock + WorkMs <= l + Budget(n)'
    BY <1>1, <1>3, <1>4, <2>3, Arguments
  <2> QED BY <1>8, <2>1, <2>4, Arguments DEF Steps
<1>11. CASE Listen(n)
  <2>1. step[n] = "send" /\ Enter(n, "wait", RxTimeoutMs) /\ stage' = stage
    BY <1>11 DEF Listen
  <2>2. step'[n] = "wait"
    BY <1>1, <2>1 DEF Enter, TypeOK
  <2>3. Budget(n) = WorkMs + s /\ Budget(n)' = WorkMs + u + RxTimeoutMs
    BY <2>1, <2>2 DEF Budget, s, u
  <2>4. \A l \in 0 .. clock : until[n] <= l + Budget(n) => clock + RxTimeoutMs <= l + Budget(n)'
    BY <1>1, <1>3, <1>4, <2>3, Arguments
  <2> QED BY <1>8, <2>1, <2>4, Arguments DEF Steps
<1>12. CASE NothingHeard(n)
  <2>1. step[n] = "wait" /\ Enter(n, "top", WorkMs) /\ stage' = stage
    BY <1>12 DEF NothingHeard
  <2>2. step'[n] = "top"
    BY <1>1, <2>1 DEF Enter, TypeOK
  <2>3. Budget(n) = WorkMs + u + RxTimeoutMs /\ Budget(n)' = LookMs(n)
    BY <2>1, <2>2 DEF Budget, u
  <2>4. \A l \in 0 .. clock : until[n] <= l + Budget(n) => clock + WorkMs <= l + Budget(n)'
    BY <1>1, <1>3, <1>4, <1>5, <2>3, Arguments
  <2> QED BY <1>8, <2>1, <2>4, Arguments DEF Steps
<1>13. CASE FrameHeard(n)
  <2>1. step[n] = "wait" /\ Enter(n, "handle", WorkMs) /\ stage' = stage
    BY <1>13 DEF FrameHeard
  <2>2. step'[n] = "handle"
    BY <1>1, <2>1 DEF Enter, TypeOK
  <2>3. Budget(n) = WorkMs + u + RxTimeoutMs /\ Budget(n)' = 2 * WorkMs + u + RxTimeoutMs
    BY <2>1, <2>2 DEF Budget, u
  <2>4. \A l \in 0 .. clock : until[n] <= l + Budget(n) => clock + WorkMs <= l + Budget(n)'
    BY <1>1, <1>3, <1>4, <2>3, Arguments
  <2> QED BY <1>8, <2>1, <2>4, Arguments DEF Steps
<1>14. CASE UploadHeard(n)
  <2>1. /\ step[n] = "handle" /\ n \in Gateways /\ Enter(n, "uploading", PostMs)
        /\ stage' = stage
    BY <1>14 DEF UploadHeard
  <2>2. step'[n] = "uploading"
    BY <1>1, <2>1 DEF Enter, TypeOK
  <2>3. /\ Budget(n) = 2 * WorkMs + u + RxTimeoutMs
        /\ Budget(n)' = 2 * WorkMs + u + RxTimeoutMs + PostMs
    BY <2>1, <2>2 DEF Budget, u
  <2>4. \A l \in 0 .. clock : until[n] <= l + Budget(n) => clock + PostMs <= l + Budget(n)'
    BY <1>1, <1>3, <1>4, <2>3, Arguments
  <2> QED BY <1>8, <2>1, <2>4, Arguments DEF Steps
<1>15. CASE HeardUploaded(n)
  <2>1. /\ step[n] = "uploading" /\ n \in Gateways /\ Enter(n, "handled", WorkMs)
        /\ stage' = stage
    BY <1>3, <1>15 DEF HeardUploaded
  <2>2. step'[n] = "handled"
    BY <1>1, <2>1 DEF Enter, TypeOK
  <2>3. /\ Budget(n) = 2 * WorkMs + u + RxTimeoutMs + PostMs
        /\ Budget(n)' = 2 * WorkMs + v + RxTimeoutMs
    BY <2>1, <2>2 DEF Budget, u, v
  <2>4. \A l \in 0 .. clock : until[n] <= l + Budget(n) => clock + WorkMs <= l + Budget(n)'
    BY <1>1, <1>3, <1>4, <2>1, <2>3, Arguments
  <2> QED BY <1>8, <2>1, <2>4, Arguments DEF Steps
<1>16. CASE FrameDone(n)
  <2>1. step[n] \in {"handle", "handled"} /\ Enter(n, "top", WorkMs) /\ stage' = stage
    BY <1>16 DEF FrameDone
  <2>2. step'[n] = "top"
    BY <1>1, <2>1 DEF Enter, TypeOK
  <2>3. /\ step[n] = "handle" => Budget(n) = 2 * WorkMs + u + RxTimeoutMs
        /\ step[n] = "handled" => Budget(n) = 2 * WorkMs + v + RxTimeoutMs
        /\ Budget(n)' = LookMs(n)
    BY <2>1, <2>2 DEF Budget, u, v
  <2>4. Budget(n) <= 2 * WorkMs + v + RxTimeoutMs /\ Budget(n) \in Nat
    BY <1>4, <2>1, <2>3, Arguments
  <2>5. \A l \in 0 .. clock : until[n] <= l + Budget(n) => clock + WorkMs <= l + Budget(n)'
    BY <1>1, <1>3, <1>4, <1>5, <2>3, <2>4, Arguments
  <2> QED BY <1>8, <2>1, <2>5, Arguments DEF Steps
<1> QED BY <1>6, <1>7, <1>10, <1>11, <1>12, <1>13, <1>14, <1>15, <1>16

LEMMA StepKeepsInvariant == IndInv /\ [Next]_vars => IndInv'
<1> SUFFICES ASSUME IndInv, [Next]_vars PROVE IndInv'
  OBVIOUS
<1>1. CASE Tick
  BY <1>1, TickStep
<1>2. ASSUME NEW n \in Nodes, Loop(n) PROVE IndInv'
  BY <1>2, BeginSwitchStep, FinishSwitchStep, SwitchFailsStep, BeginTurnStep, TurnStep DEF Loop
<1>3. CASE UNCHANGED vars
  <2>1. TypeOK' /\ \A n \in Nodes : step'[n] = step[n]
    BY <1>3 DEF IndInv, TypeOK, vars
  <2>2. \A n \in Nodes : OnTime(n) => OnTime(n)'
    BY <1>3, OtherNode DEF vars
  <2> QED BY <2>1, <2>2 DEF IndInv
<1> QED BY <1>1, <1>2, <1>3 DEF Next

(* Every running node looked at the schedule so short a time ago that its    *)
(* channel is that of the slot or of the one before.                        *)
THEOREM HopInvariance == Spec => []IndInv
<1> QED BY StartsInvariant, StepKeepsInvariant, PTL DEF Spec

-----------------------------------------------------------------------------
(* On schedule. *)

(* A switch is over before its slot is LagMs old. *)
LEMMA SettlingShort ==
    ASSUME IndInv, NEW n \in Nodes, step[n] = "settling"
    PROVE  /\ clock < LagMs(n) \/ InSlot(n) < LagMs(n)
           /\ clock < LagMs(n) \/
                 \E b \in 0 .. clock : JustChanged(n, b) /\ clock - b <= SettleMs + WorkMs
<1>1. /\ clock \in Nat /\ until[n] \in Nat /\ OnTime(n) /\ clock <= until[n]
  <2>1. TypeOK /\ OnTime(n)
    BY DEF IndInv
  <2> QED BY <2>1, Arguments DEF TypeOK, OnTime
<1>2. PICK b \in 0 .. clock, l \in 0 .. clock : Tuned(n, b, l)
  BY <1>1 DEF OnTime
<1>3. (b = 0 \/ JustChanged(n, b)) /\ until[n] = b + (SettleMs + WorkMs)
  BY <1>2 DEF Tuned, Budget
<1>4. /\ LookMs(n) \in Nat \ {0} /\ LagMs(n) = LookMs(n) + SettleMs + WorkMs
      /\ b \in Nat /\ b <= clock
  BY <1>1, Times
<1>5. clock - b <= SettleMs + WorkMs
  BY <1>1, <1>3, <1>4, Arguments
<1>6. CASE b = 0
  <2>1. clock < LagMs(n)
    BY <1>1, <1>4, <1>5, <1>6, Arguments
  <2> QED BY <2>1
<1>7. CASE JustChanged(n, b)
  <2> DEFINE i == InSlotAt(n, b) j == InSlotAt(n, clock) p == SlotAt(n, b) q == SlotAt(n, clock)
  <2>1. i < LookMs(n)
    BY <1>7 DEF JustChanged
  <2>2. /\ i \in Nat /\ j \in Nat /\ p \in Nat /\ q \in Nat
    BY <1>1, <1>4, SlotType
  <2>3. /\ p <= q /\ (p = q => j <= i + (clock - b)) /\ (p < q => j < clock - b)
    BY <1>1, <1>4, SlotsPass
  <2> HIDE DEF i, j, p, q
  <2>4. j < LagMs(n)
    BY <1>1, <1>4, <1>5, <2>1, <2>2, <2>3, Arguments
  <2> QED BY <1>5, <1>7, <2>4 DEF InSlot, j
<1> QED BY <1>3, <1>6, <1>7

LEMMA OnScheduleAfterLag ==
    ASSUME IndInv, NEW n \in Nodes, step[n] # "ended", InSlot(n) >= LagMs(n), clock >= LagMs(n)
    PROVE  RadioOpen(n) /\ channel[n] = Scheduled(n)
<1>1. /\ TypeOK /\ clock \in Nat /\ OnTime(n)
  BY Arguments DEF IndInv, TypeOK
<1>2. /\ LookMs(n) \in Nat \ {0} /\ LagMs(n) = LookMs(n) + SettleMs + WorkMs /\ LagMs(n) \in Nat
  BY Times, Arguments
<1>3. step[n] # "settling"
  <2>1. InSlot(n) \in Nat
    BY <1>1, SlotType DEF InSlot
  <2> QED BY <1>1, <1>2, <2>1, SettlingShort
<1>4. PICK b \in 0 .. clock, l \in 0 .. clock : Tuned(n, b, l)
  BY <1>1 DEF OnTime
<1>5. clock - l <= LookMs(n) /\ l \in Nat /\ l <= clock
  BY <1>1, <1>3, <1>4, LookedRecently
<1>6. SlotAt(n, l) = SlotAt(n, clock)
  <2>1. /\ SlotAt(n, l) \in Nat /\ SlotAt(n, clock) \in Nat /\ InSlotAt(n, clock) \in Nat
        /\ SlotAt(n, l) <= SlotAt(n, clock)
        /\ SlotAt(n, l) < SlotAt(n, clock) => InSlotAt(n, clock) < clock - l
    BY <1>1, <1>5, SlotType, SlotsPass
  <2>2. InSlotAt(n, clock) >= LookMs(n)
    BY <1>2, <2>1, Arguments DEF InSlot
  <2> QED BY <1>1, <1>2, <1>5, <2>1, <2>2
<1> QED BY <1>3, <1>4, <1>6 DEF Tuned, Scheduled, Slot, RadioOpen

(* LagMs after a slot has begun a running node listens on its channel,       *)
(* however long uploads and waiting hold its loop up, and whatever the      *)
(* length of the slots (mesh_txrx.py:2058-2280).                            *)
THEOREM ArrivesInTime == Spec => []OnScheduleInTime
<1>1. IndInv => OnScheduleInTime
  BY OnScheduleAfterLag DEF IndInv, OnScheduleInTime
<1> QED BY <1>1, HopInvariance, PTL

(* A sync heartbeat is wrong about its own channel only so long after the    *)
(* change of slots as the uploads of its turn take (mesh_txrx.py:1968).     *)
THEOREM SyncTellsTruth == Spec => SyncSoonTrue
<1>1. ASSUME IndInv, NEW n \in Nodes, SendSync(n), SyncTold(n) # channel[n]
      PROVE  InSlot(n) < WorkMs
                + (IF n \in Gateways THEN Uploads * (PostMs + WorkMs) ELSE 0)
  <2>1. /\ TypeOK /\ clock \in Nat /\ step[n] = "send" /\ OnTime(n) /\ until[n] \in Nat
        /\ stage[n] \in 0 .. Sends
    BY <1>1, Arguments DEF IndInv, TypeOK, SendSync
  <2>2. PICK b \in 0 .. clock, l \in 0 .. clock : Tuned(n, b, l)
    BY <2>1 DEF OnTime
  <2>3. SlotAt(n, l) # SlotAt(n, clock)
    BY <1>1, <2>2 DEF Tuned, SyncTold, Scheduled, Slot
  <2>4. /\ SlotAt(n, l) \in Nat /\ SlotAt(n, clock) \in Nat /\ InSlotAt(n, clock) \in Nat
        /\ SlotAt(n, l) <= SlotAt(n, clock)
        /\ SlotAt(n, l) < SlotAt(n, clock) => InSlotAt(n, clock) < clock - l
        /\ l \in Nat /\ l <= clock
    <3>1. l \in Nat /\ l <= clock
      BY <2>1
    <3> QED BY <2>1, <3>1, SlotType, SlotsPass
  <2>5. clock <= l + WorkMs + UploadsMs(n, Sent(n))
    <3>1. clock <= until[n] /\ until[n] <= l + Budget(n)
      BY <2>1, <2>2 DEF OnTime, Tuned
    <3>2. Budget(n) = WorkMs + UploadsMs(n, Sent(n)) /\ UploadsMs(n, Sent(n)) \in Nat
      BY <2>1, SentTime DEF Budget
    <3> QED BY <2>1, <2>4, <3>1, <3>2, Arguments
  <2>6. UploadsMs(n, Sent(n)) <= UploadsMs(n, Uploads) /\ UploadsMs(n, Sent(n)) \in Nat
        /\ UploadsMs(n, Uploads) \in Nat
    BY <2>1, SentTime
  <2>7. InSlotAt(n, clock) < WorkMs + UploadsMs(n, Uploads)
    BY <2>1, <2>3, <2>4, <2>5, <2>6, Arguments
  <2> QED BY <2>7 DEF InSlot, UploadsMs
<1>2. ASSUME IndInv
      PROVE  [\A n \in Nodes :
                 SendSync(n) /\ SyncTold(n) # channel[n]
                 => InSlot(n) < WorkMs
                       + (IF n \in Gateways THEN Uploads * (PostMs + WorkMs) ELSE 0)]_vars
  BY <1>1, <1>2
<1> QED BY <1>2, HopInvariance, PTL DEF SyncSoonTrue

-----------------------------------------------------------------------------
(* Rendezvous. *)

(* Within a slot after the first its age grows with the clock. *)
LEMMA SlotAge ==
    ASSUME NEW n \in Nodes, NEW t \in Nat, NEW c \in Nat, t <= c,
           SlotAt(n, t) = SlotAt(n, c), SlotAt(n, c) > 0
    PROVE  InSlotAt(n, c) >= c - t
<1> DEFINE y == SlotAt(n, c) * SlotMs i == InSlotAt(n, t) j == InSlotAt(n, c)
<1>1. /\ y \in Nat /\ i \in Nat /\ j \in Nat
      /\ ElapsedAt(n, t) = y + i /\ ElapsedAt(n, c) = y + j
  BY SlotType
<1>2. ElapsedAt(n, t) = t + Skew[n] - EpochMs /\ ElapsedAt(n, c) = c + Skew[n] - EpochMs
  BY ElapsedPositive
<1> HIDE DEF y, i, j
<1>3. j >= c - t
  BY <1>1, <1>2, Arguments
<1> QED BY <1>3 DEF j

(* Two nodes in the same slot differ in its age by their clocks. *)
LEMMA SlotAges ==
    ASSUME NEW n \in Nodes, NEW m \in Nodes, NEW c \in Nat,
           SlotAt(m, c) = SlotAt(n, c), SlotAt(n, c) > 0
    PROVE  InSlotAt(n, c) = InSlotAt(m, c) + (Skew[n] - Skew[m])
<1> DEFINE y == SlotAt(n, c) * SlotMs i == InSlotAt(m, c) j == InSlotAt(n, c)
<1>1. /\ y \in Nat /\ i \in Nat /\ j \in Nat
      /\ ElapsedAt(m, c) = y + i /\ ElapsedAt(n, c) = y + j
  BY SlotType
<1>2. ElapsedAt(m, c) = c + Skew[m] - EpochMs /\ ElapsedAt(n, c) = c + Skew[n] - EpochMs
  BY ElapsedPositive
<1> HIDE DEF y, i, j
<1>3. Skew[n] \in Int /\ Skew[m] \in Int /\ EpochMs \in Int
  BY Arguments
<1>4. \A a, b \in Int : \A e \in Int : y + i = c + a - e /\ y + j = c + b - e => j = i + (b - a)
  BY <1>1
<1>5. j = i + (Skew[n] - Skew[m])
  BY <1>1, <1>2, <1>3, <1>4
<1> QED BY <1>5 DEF i, j

(* A running node that is not switching is on the channel of the slot that  *)
(* goes on, or of the one before.                                           *)
LEMMA OnOneOfTwo ==
    ASSUME IndInv, SlotsLongEnough, NEW n \in Nodes, step[n] \notin {"ended", "settling"},
           NEW b \in 0 .. clock, NEW l \in 0 .. clock, Tuned(n, b, l)
    PROVE  /\ channel[n] = SlotChannel(SlotAt(n, l))
           /\ SlotAt(n, l) = Slot(n) \/ SlotAt(n, l) = Slot(n) - 1
           /\ SlotAt(n, l) \in Nat /\ Slot(n) \in Nat
<1>1. TypeOK /\ OnTime(n) /\ clock \in Nat /\ l \in Nat /\ l <= clock
  BY Arguments DEF IndInv, TypeOK
<1>2. clock - l <= LookMs(n)
  BY <1>1, LookedRecently
<1>3. clock - l < SlotMs
  BY <1>1, <1>2, Times, Arguments
<1>4. SlotAt(n, clock) = SlotAt(n, l) \/ SlotAt(n, clock) = SlotAt(n, l) + 1
  BY <1>1, <1>3, NextSlot
<1>5. SlotAt(n, l) \in Nat /\ SlotAt(n, clock) \in Nat
  BY <1>1, SlotType
<1> QED BY <1>4, <1>5 DEF Slot, Tuned

(* A node that may send on the channel of a slot younger than the guard was  *)
(* on that channel already when the slot began.                             *)
LEMMA SameChannelBefore ==
    ASSUME IndInv, SlotsLongEnough, NEW n \in Nodes, step[n] = "send", txAllowed[n],
           channel[n] = Scheduled(n), Slot(n) > 0, InSlot(n) < SettleMs + GuardMs
    PROVE  SlotChannel(Slot(n) - 1) = SlotChannel(Slot(n))
<1>1. TypeOK /\ OnTime(n) /\ clock \in Nat /\ guard[n] <= clock /\ guard[n] \in Nat
  BY Arguments DEF IndInv, TypeOK, OnTime
<1>2. PICK b \in 0 .. clock, l \in 0 .. clock : Tuned(n, b, l)
  BY <1>1 DEF OnTime
<1>3. b \in Nat /\ l \in Nat /\ b <= l /\ l <= clock /\ b <= clock
  BY <1>1, <1>2 DEF Tuned
<1>4. clock - b >= SettleMs + GuardMs
  <2>1. b + SettleMs + GuardMs <= guard[n]
    BY <1>2 DEF Tuned
  <2>2. guard[n] <= clock /\ guard[n] \in Nat /\ clock \in Nat /\ b \in Nat
    BY <1>1, <1>3
  <2> QED BY <2>1, <2>2, Durations
<1>5. SlotAt(n, b) < Slot(n)
  <2>1. InSlotAt(n, clock) < clock - b
    <3>1. InSlotAt(n, clock) \in Nat
      BY <1>1, SlotType
    <3> QED BY <1>1, <1>3, <1>4, <3>1, Arguments DEF InSlot
  <2>2. SlotAt(n, b) # SlotAt(n, clock)
    <3> SUFFICES ASSUME SlotAt(n, b) = SlotAt(n, clock) PROVE FALSE
      OBVIOUS
    <3>1. InSlotAt(n, clock) >= clock - b
      BY <1>1, <1>3, SlotAge DEF Slot
    <3>2. InSlotAt(n, clock) \in Nat
      BY <1>1, SlotType
    <3> QED BY <1>1, <1>3, <2>1, <3>1, <3>2
  <2>3. SlotAt(n, b) <= SlotAt(n, clock) /\ SlotAt(n, b) \in Nat /\ SlotAt(n, clock) \in Nat
    BY <1>1, <1>3, SlotsPass, SlotType
  <2> QED BY <2>2, <2>3 DEF Slot
<1>6. /\ channel[n] = SlotChannel(SlotAt(n, l))
      /\ SlotAt(n, l) = Slot(n) \/ SlotAt(n, l) = Slot(n) - 1
  BY <1>2, OnOneOfTwo
<1>7. CASE SlotAt(n, l) = Slot(n) - 1
  BY <1>6, <1>7 DEF Scheduled
<1>8. CASE SlotAt(n, l) = Slot(n)
  <2>1. PICK t \in b .. l : SlotAt(n, t) = Slot(n) - 1
    BY <1>3, <1>5, <1>8, SlotBefore
  <2>2. SlotChannel(SlotAt(n, t)) = channel[n]
    BY <1>2 DEF Tuned
  <2> QED BY <2>1, <2>2 DEF Scheduled
<1> QED BY <1>6, <1>7, <1>8

(* And a node that switches although two slots share a channel does so       *)
(* within LagMs of its start only.                                          *)
LEMMA SwitchesForAChange ==
    ASSUME IndInv, SlotsLongEnough, NEW m \in Nodes, step[m] = "settling", clock >= LagMs(m)
    PROVE  Slot(m) > 0 /\ SlotChannel(Slot(m) - 1) # SlotChannel(Slot(m))
<1>1. clock \in Nat /\ LookMs(m) \in Nat /\ LagMs(m) \in Nat
      /\ LagMs(m) = LookMs(m) + SettleMs + WorkMs /\ LagMs(m) + GuardMs < SlotMs
  <2>1. /\ LookMs(m) \in Nat /\ LagMs(m) = LookMs(m) + SettleMs + WorkMs
        /\ LagMs(m) + GuardMs < SlotMs
    BY Times
  <2>2. clock \in Nat
    BY Arguments DEF IndInv, TypeOK
  <2> QED BY <2>1, <2>2, Durations
<1>2. PICK b \in 0 .. clock : JustChanged(m, b) /\ clock - b <= SettleMs + WorkMs
  BY <1>1, SettlingShort
<1>3. b \in Nat /\ b <= clock /\ InSlotAt(m, b) \in Nat /\ InSlotAt(m, b) < LookMs(m)
  <2>1. b \in Nat
    BY <1>1
  <2> QED BY <1>1, <1>2, <2>1, SlotType DEF JustChanged
<1>4. clock - b < SlotMs /\ InSlotAt(m, b) + (clock - b) < SlotMs
  <2> DEFINE j == InSlotAt(m, b)
             k == LookMs(m)
  <2>1. /\ j \in Nat /\ k \in Nat /\ j < k /\ k + SettleMs + WorkMs + GuardMs < SlotMs
        /\ clock \in Nat /\ b \in Nat /\ b <= clock /\ clock - b <= SettleMs + WorkMs
    BY <1>1, <1>2, <1>3
  <2> HIDE DEF j, k
  <2>2. clock - b < SlotMs /\ j + (clock - b) < SlotMs
    BY <2>1, Durations
  <2> QED BY <2>2 DEF j
<1>5. SlotAt(m, clock) = SlotAt(m, b)
  BY <1>1, <1>3, <1>4, NextSlot
<1> QED BY <1>2, <1>5 DEF JustChanged, Slot

LEMMA Meeting ==
    ASSUME IndInv, SlotsLongEnough, GuardLongEnough, NEW n \in Nodes, NEW m \in Nodes,
           Send(n) \/ SendSync(n), channel[n] = Scheduled(n),
           step[m] # "ended", Slot(m) = Slot(n)
    PROVE  RadioOpen(m) /\ channel[m] = channel[n]
<1>1. /\ TypeOK /\ clock \in Nat /\ step[n] = "send" /\ txAllowed[n] /\ OnTime(n) /\ OnTime(m)
      /\ guard[n] \in Nat /\ guard[n] <= clock
  <2>1. step[n] = "send" /\ txAllowed[n]
    BY DEF Send, SendSync
  <2>2. TypeOK /\ OnTime(n) /\ OnTime(m)
    BY <2>1 DEF IndInv
  <2>3. guard[n] <= clock
    BY <2>1, <2>2 DEF OnTime
  <2> QED BY <2>1, <2>2, <2>3, Arguments DEF TypeOK
<1>2. /\ LookMs(m) \in Nat /\ LagMs(m) = LookMs(m) + SettleMs + WorkMs
      /\ LookMs(m) + WorkMs + (Skew[m] - Skew[m]) <= GuardMs
      /\ LookMs(m) + WorkMs + (Skew[n] - Skew[m]) <= GuardMs
  BY Times DEF GuardLongEnough
<1>3. clock >= LagMs(m)
  <2>1. PICK b \in 0 .. clock, l \in 0 .. clock : Tuned(n, b, l)
    BY <1>1 DEF OnTime
  <2>2. b + SettleMs + GuardMs <= guard[n] /\ b \in Nat
    BY <1>1, <2>1 DEF Tuned
  <2>3. LookMs(m) + WorkMs <= GuardMs
    BY <1>2, Arguments
  <2> QED BY <1>1, <1>2, <2>2, <2>3, Arguments
<1>4. /\ Slot(n) \in Nat /\ InSlot(n) \in Nat /\ InSlot(m) \in Nat
      /\ SlotAt(m, clock) = SlotAt(n, clock)
  BY <1>1, SlotType DEF Slot, InSlot
<1>5. channel[n] = SlotChannel(Slot(m))
  BY DEF Scheduled
<1>6. CASE InSlot(m) >= LagMs(m)
  BY <1>3, <1>5, <1>6, OnScheduleAfterLag DEF Scheduled
<1>7. CASE ~(InSlot(m) >= LagMs(m)) /\ Slot(n) > 0
  <2>1. InSlot(n) = InSlot(m) + (Skew[n] - Skew[m])
    BY <1>1, <1>4, <1>7, SlotAges DEF Slot, InSlot
  <2>2. InSlot(n) < SettleMs + GuardMs
    BY <1>2, <1>4, <1>7, <2>1, Arguments, SMTT(20)
  <2>3. SlotChannel(Slot(m) - 1) = SlotChannel(Slot(m))
    BY <1>1, <1>7, <2>2, SameChannelBefore
  <2>4. step[m] # "settling"
    BY <1>3, <2>3, SwitchesForAChange
  <2>5. PICK b \in 0 .. clock, l \in 0 .. clock : Tuned(m, b, l)
    BY <1>1 DEF OnTime
  <2>6. /\ channel[m] = SlotChannel(SlotAt(m, l))
        /\ SlotAt(m, l) = Slot(m) \/ SlotAt(m, l) = Slot(m) - 1
    BY <2>4, <2>5, OnOneOfTwo
  <2> QED BY <1>5, <2>3, <2>4, <2>6 DEF RadioOpen
<1>8. CASE Slot(n) = 0
  <2>1. step[m] # "settling"
    BY <1>3, <1>8, SwitchesForAChange
  <2>2. PICK b \in 0 .. clock, l \in 0 .. clock : Tuned(m, b, l)
    BY <1>1 DEF OnTime
  <2>3. /\ channel[m] = SlotChannel(SlotAt(m, l))
        /\ SlotAt(m, l) = Slot(m) \/ SlotAt(m, l) = Slot(m) - 1
        /\ SlotAt(m, l) \in Nat
    BY <2>1, <2>2, OnOneOfTwo
  <2>4. SlotAt(m, l) = Slot(m)
    BY <1>8, <2>3
  <2> QED BY <1>5, <2>1, <2>3, <2>4 DEF RadioOpen
<1> QED BY <1>4, <1>6, <1>7, <1>8

(* With slots and a guard that are long enough for the slowest node, what a  *)
(* node originates finds every other node of its slot with an open radio on *)
(* the same channel (mesh_txrx.py:2003 and 2077).                           *)
THEOREM NodesMeet ==
    ASSUME SlotsLongEnough, GuardLongEnough
    PROVE  Spec => Rendezvous
<1>1. ASSUME IndInv
      PROVE  [\A n \in Nodes :
                 (Send(n) \/ SendSync(n)) /\ channel[n] = Scheduled(n)
                 => \A m \in Nodes \ {n} :
                       step[m] # "ended" /\ Slot(m) = Slot(n)
                       => RadioOpen(m) /\ channel[m] = channel[n]]_vars
  BY <1>1, Meeting
<1> QED BY <1>1, HopInvariance, PTL DEF Rendezvous
=============================================================================
