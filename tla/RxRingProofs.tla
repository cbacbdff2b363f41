---------------------------- MODULE RxRingProofs ----------------------------
(***************************************************************************)
(* The receiver of rx.rs.  The receive ring of every size implements the   *)
(* bounded FIFO; and the descriptors of a program that opens and closes    *)
(* receiver and transmitter are its own, however many there are.           *)
(***************************************************************************)
EXTENDS RxRing, RadioHandles, Integers, TLAPS

(* Ring arithmetic without division: positions run less than twice round. *)
LEMMA ModRing ==
    ASSUME NEW x \in 0..(2 * RingSize - 1)
    PROVE  x % RingSize = IF x < RingSize THEN x ELSE x - RingSize
<1>1. RingSize \in Nat /\ RingSize >= 2
  BY RingAssumption
<1>2. x \in Nat
  BY <1>1
<1>3. CASE x < RingSize
  BY <1>1, <1>2, <1>3
<1>4. CASE ~(x < RingSize)
  BY <1>1, <1>2, <1>4
<1> QED BY <1>3, <1>4

LEMMA SlotType ==
    ASSUME TypeOK, NEW i \in 1..(RingSize + 1)
    PROVE  /\ SlotOf(i) \in Slots
           /\ SlotOf(i) = IF head + i - 1 < RingSize THEN head + i - 1 ELSE (head + i - 1) - RingSize
<1>1. RingSize \in Nat /\ RingSize >= 2 /\ head \in 0..(RingSize - 1)
  BY RingAssumption DEF TypeOK, Slots
<1>2. head + i - 1 \in 0..(2 * RingSize - 1)
  BY <1>1
<1>3. (head + i - 1) % RingSize
      = IF head + i - 1 < RingSize THEN head + i - 1 ELSE (head + i - 1) - RingSize
  <2> DEFINE x == head + i - 1
  <2> HIDE DEF x
  <2>1. x \in 0..(2 * RingSize - 1)
    BY <1>2 DEF x
  <2>2. x % RingSize = IF x < RingSize THEN x ELSE x - RingSize
    BY <2>1, ModRing
  <2> QED BY <2>2 DEF x
<1> QED BY <1>1, <1>3 DEF SlotOf, Slots

(* The successor of a slot is a slot. *)
LEMMA NextSlot ==
    ASSUME NEW x \in Slots
    PROVE  /\ (x + 1) % RingSize \in Slots
           /\ (x + 1) % RingSize = IF x + 1 = RingSize THEN 0 ELSE x + 1
<1>1. RingSize \in Nat /\ RingSize >= 2 /\ x \in 0..(RingSize - 1)
  BY RingAssumption DEF Slots
<1>2. x + 1 \in 0..(2 * RingSize - 1)
  BY <1>1
<1>3. (x + 1) % RingSize = IF x + 1 < RingSize THEN x + 1 ELSE (x + 1) - RingSize
  <2> DEFINE y == x + 1
  <2> HIDE DEF y
  <2>1. y \in 0..(2 * RingSize - 1)
    BY <1>2 DEF y
  <2>2. y % RingSize = IF y < RingSize THEN y ELSE y - RingSize
    BY <2>1, ModRing
  <2> QED BY <2>2 DEF y
<1> QED BY <1>1, <1>3 DEF Slots

(* Recognising the results of Append and Tail. *)
LEMMA IsAppend ==
    ASSUME NEW S, NEW s \in Seq(S), NEW e \in S, NEW t \in Seq(S), Len(t) = Len(s) + 1,
           \A i \in 1..Len(s) : t[i] = s[i], t[Len(s) + 1] = e
    PROVE  t = Append(s, e)
<1> DEFINE a == Append(s, e)
<1>1. /\ a \in Seq(S) /\ Len(a) = Len(s) + 1
      /\ \A i \in 1..Len(s) : a[i] = s[i]
      /\ a[Len(s) + 1] = e
      /\ Len(s) \in Nat
  OBVIOUS
<1> HIDE DEF a
<1>2. \A i \in 1..Len(t) : i \in 1..Len(s) \/ i = Len(s) + 1
  BY <1>1
<1>3. \A i \in 1..Len(t) : t[i] = a[i]
  BY <1>1, <1>2
<1>4. t = a
  BY <1>1, <1>3
<1> QED BY <1>4 DEF a

LEMMA IsTail ==
    ASSUME NEW S, NEW s \in Seq(S), s # <<>>, NEW t \in Seq(S), Len(t) = Len(s) - 1,
           \A i \in 1..(Len(s) - 1) : t[i] = s[i + 1]
    PROVE  t = Tail(s)
<1> DEFINE a == Tail(s)
<1>1. /\ a \in Seq(S) /\ Len(a) = Len(s) - 1
      /\ \A i \in 1..(Len(s) - 1) : a[i] = s[i + 1]
      /\ Len(s) \in Nat
  OBVIOUS
<1> HIDE DEF a
<1>2. t = a
  BY <1>1
<1> QED BY <1>2 DEF a

-----------------------------------------------------------------------------
(* One frame into the ring: dropped, or behind those that wait. *)
LEMMA EnqueueEffect ==
    ASSUME TypeOK, TailFollows, NEW f \in Nat, EnqueueDecoded(f)
    PROVE  /\ store' \in [Slots -> Nat] /\ head' \in Slots /\ tail' \in Slots
           /\ count' \in 0..RingSize
           /\ TailFollows'
           /\ Waiting' = IF Len(Waiting) < RingSize THEN Append(Waiting, f) ELSE Waiting
<1>1. /\ RingSize \in Nat /\ RingSize >= 2 /\ count \in 0..RingSize
      /\ head \in 0..(RingSize - 1) /\ tail \in 0..(RingSize - 1)
      /\ store \in [Slots -> Nat]
  BY RingAssumption DEF TypeOK, Slots
<1>2. /\ \A i \in 1..count : store[SlotOf(i)] \in Nat
      /\ Waiting \in Seq(Nat) /\ Len(Waiting) = count
  <2>1. \A i \in 1..count : i \in 1..(RingSize + 1)
    BY <1>1
  <2>2. \A i \in 1..count : store[SlotOf(i)] \in Nat
    BY <1>1, <2>1, SlotType
  <2> QED BY <1>1, <2>2 DEF Waiting
<1>3. CASE count >= RingSize
  <2>1. UNCHANGED ring
    BY <1>3 DEF EnqueueDecoded
  <2>2. UNCHANGED <<store, head, tail, count>>
    BY <2>1 DEF ring
  <2>3. Waiting' = Waiting /\ TailFollows'
    BY <2>2 DEF Waiting, SlotOf, TailFollows
  <2> QED BY <1>1, <1>2, <1>3, <2>2, <2>3 DEF Slots
<1>4. CASE count < RingSize
  <2>1. /\ store' = [store EXCEPT ![tail] = f]
        /\ tail' = (tail + 1) % RingSize
        /\ count' = count + 1
        /\ head' = head
    BY <1>1, <1>4 DEF EnqueueDecoded
  <2>2. tail \in Slots /\ store' \in [Slots -> Nat]
    BY <1>1, <2>1 DEF Slots
  <2>3. tail' \in Slots /\ tail' = IF tail + 1 = RingSize THEN 0 ELSE tail + 1
    BY <2>1, <2>2, NextSlot
  <2>4. tail = IF head + count < RingSize THEN head + count ELSE (head + count) - RingSize
    <3>1. count + 1 \in 1..(RingSize + 1) /\ head + (count + 1) - 1 = head + count
      BY <1>1
    <3>2. SlotOf(count + 1) = tail
      BY <3>1 DEF SlotOf, TailFollows
    <3> QED BY <3>1, <3>2, SlotType
  <2>5. TailFollows'
    <3>1. head + (count + 1) \in 0..(2 * RingSize - 1)
      BY <1>1, <1>4
    <3>2. (head + (count + 1)) % RingSize
          = IF head + (count + 1) < RingSize THEN head + (count + 1)
            ELSE (head + (count + 1)) - RingSize
      BY <3>1, ModRing
    <3>3. tail' = (head + (count + 1)) % RingSize
      BY <1>1, <1>4, <2>3, <2>4, <3>2
    <3> QED BY <2>1, <3>3 DEF TailFollows
  <2>6. ASSUME NEW i \in 1..count
        PROVE  SlotOf(i) # tail /\ SlotOf(i) \in Slots
    <3>1. i \in 1..(RingSize + 1)
      BY <1>1
    <3>2. /\ SlotOf(i) \in Slots
          /\ SlotOf(i) = IF head + i - 1 < RingSize THEN head + i - 1 ELSE (head + i - 1) - RingSize
      BY <3>1, SlotType
    <3> QED BY <1>1, <1>4, <2>4, <3>2
  <2>7. \A i : SlotOf(i)' = SlotOf(i)
    BY <2>1 DEF SlotOf
  <2>8. SlotOf(count + 1) = tail
    BY <1>1, head + (count + 1) - 1 = head + count DEF SlotOf, TailFollows
  <2>9. Waiting' = Append(Waiting, f)
    <3>1. \A i \in 1..(count + 1) : SlotOf(i) \in Slots
      BY <1>1, <2>2, <2>6, <2>8
    <3>2. Waiting' = [i \in 1..(count + 1) |-> store'[SlotOf(i)]]
      BY <2>1, <2>7 DEF Waiting
    <3>3. ASSUME NEW i \in 1..(count + 1)
          PROVE  store'[SlotOf(i)] = IF i = count + 1 THEN f ELSE Waiting[i]
      <4>1. CASE i = count + 1
        BY <1>1, <2>1, <2>2, <2>8, <4>1
      <4>2. CASE i \in 1..count
        <5>1. store'[SlotOf(i)] = store[SlotOf(i)]
          BY <1>1, <2>1, <2>6, <4>2
        <5> QED BY <1>1, <4>2, <5>1 DEF Waiting
      <4> QED BY <1>1, <4>1, <4>2
    <3>4. \A i \in 1..(count + 1) : store'[SlotOf(i)] \in Nat
      BY <2>2, <3>1
    <3>5. /\ Waiting' \in Seq(Nat) /\ Len(Waiting') = count + 1
          /\ \A i \in 1..(count + 1) : Waiting'[i] = store'[SlotOf(i)]
      BY <1>1, <3>2, <3>4
    <3>6. /\ \A i \in 1..count : Waiting'[i] = Waiting[i]
          /\ Waiting'[count + 1] = f
      BY <1>1, <3>3, <3>5
    <3> QED BY <1>2, <3>5, <3>6, IsAppend
  <2>10. head' \in Slots /\ count' \in 0..RingSize
    BY <1>1, <1>4, <2>1 DEF Slots
  <2> QED BY <1>2, <1>4, <2>2, <2>3, <2>5, <2>9, <2>10
<1> QED BY <1>1, <1>3, <1>4

(* One frame out of the ring: the one that waited longest. *)
LEMMA PopEffect ==
    ASSUME TypeOK, TailFollows, count > 0, PopOne
    PROVE  /\ handed' \in Nat /\ head' \in Slots /\ count' \in 0..RingSize
           /\ TailFollows'
           /\ Waiting # <<>> /\ handed' = Head(Waiting) /\ Waiting' = Tail(Waiting)
<1>1. /\ RingSize \in Nat /\ RingSize >= 2 /\ count \in 1..RingSize
      /\ head \in 0..(RingSize - 1) /\ head \in Slots /\ tail \in 0..(RingSize - 1)
      /\ store \in [Slots -> Nat]
  BY RingAssumption DEF TypeOK, Slots
<1>2. /\ handed' = store[head] /\ head' = (head + 1) % RingSize /\ count' = count - 1
      /\ store' = store /\ tail' = tail
  BY DEF PopOne
<1>3. head' \in Slots /\ head' = IF head + 1 = RingSize THEN 0 ELSE head + 1
  BY <1>1, <1>2, NextSlot
<1>4. head' \in 0..(RingSize - 1)
  BY <1>3 DEF Slots
<1>5. /\ \A i \in 1..count : store[SlotOf(i)] \in Nat
      /\ Waiting \in Seq(Nat) /\ Len(Waiting) = count
      /\ \A i \in 1..count : Waiting[i] = store[SlotOf(i)]
  <2>1. \A i \in 1..count : i \in 1..(RingSize + 1)
    BY <1>1
  <2>2. \A i \in 1..count : store[SlotOf(i)] \in Nat
    BY <1>1, <2>1, SlotType
  <2> QED BY <1>1, <2>2 DEF Waiting
<1>6. SlotOf(1) = head
  <2>1. 1 \in 1..(RingSize + 1) /\ head + 1 - 1 = head
    BY <1>1
  <2> QED BY <1>1, <2>1, SlotType
<1>7. Waiting # <<>> /\ handed' = Head(Waiting) /\ handed' \in Nat
  BY <1>1, <1>2, <1>5, <1>6
<1> DEFINE h == head'
<1>0. RingSize \in Nat /\ RingSize >= 2 /\ count \in 1..RingSize /\ h \in 0..(RingSize - 1)
  BY <1>1, <1>4
<1> HIDE DEF h
<1>8. ASSUME NEW i \in 1..(count - 1)
      PROVE  SlotOf(i)' = SlotOf(i + 1)
  <2>0. i + 1 \in 1..(RingSize + 1) /\ h + i - 1 \in 0..(2 * RingSize - 1)
    BY <1>0
  <2>1. i + 1 \in 1..(RingSize + 1) /\ head' + i - 1 \in 0..(2 * RingSize - 1)
    BY <2>0 DEF h
  <2>2. (head' + i - 1) % RingSize
        = IF head' + i - 1 < RingSize THEN head' + i - 1 ELSE (head' + i - 1) - RingSize
    BY <2>1, ModRing
  <2>3. SlotOf(i + 1) = IF head + (i + 1) - 1 < RingSize THEN head + (i + 1) - 1
                        ELSE (head + (i + 1) - 1) - RingSize
    BY <2>1, SlotType
  <2>4. (head' + i - 1) % RingSize = SlotOf(i + 1)
    BY <1>1, <1>3, <1>4, <2>2, <2>3
  <2> QED BY <2>4 DEF SlotOf
<1>9. Waiting' = Tail(Waiting)
  <2>2. Waiting' = [i \in 1..(count - 1) |-> store[SlotOf(i)']]
    BY <1>2 DEF Waiting
  <2>3. ASSUME NEW i \in 1..(count - 1)
        PROVE  store[SlotOf(i)'] = Waiting[i + 1] /\ Waiting[i + 1] \in Nat
    <3>1. i + 1 \in 1..count
      BY <1>0
    <3> QED BY <1>5, <1>8, <3>1
  <2>4. /\ Waiting' \in Seq(Nat) /\ Len(Waiting') = count - 1
        /\ \A i \in 1..(count - 1) : Waiting'[i] = Waiting[i + 1]
    BY <1>0, <2>2, <2>3
  <2> QED BY <1>5, <1>7, <2>4, IsTail
<1>10. TailFollows'
  <2>1. head + count \in 0..(2 * RingSize - 1) /\ head' + (count - 1) \in 0..(2 * RingSize - 1)
    <3>1. head + count \in 0..(2 * RingSize - 1)
      BY <1>1
    <3>2. h + (count - 1) \in 0..(2 * RingSize - 1)
      BY <1>0
    <3> QED BY <3>1, <3>2 DEF h
  <2>2. (head + count) % RingSize
        = IF head + count < RingSize THEN head + count ELSE (head + count) - RingSize
    BY <2>1, ModRing
  <2>3. (head' + (count - 1)) % RingSize
        = IF head' + (count - 1) < RingSize THEN head' + (count - 1)
          ELSE (head' + (count - 1)) - RingSize
    BY <2>1, ModRing
  <2>4. tail = (head' + (count - 1)) % RingSize
    BY <1>1, <1>3, <1>4, <2>2, <2>3 DEF TailFollows
  <2> QED BY <1>2, <2>4 DEF TailFollows
<1>11. count' \in 0..RingSize
  BY <1>1, <1>2
<1> QED BY <1>3, <1>7, <1>9, <1>10, <1>11

-----------------------------------------------------------------------------
(* The capture buffer: what is left of it is later than what was taken. *)
LEMMA KernelFacts ==
    ASSUME TypeOK, KernelLater
    PROVE  /\ arrivals \in Nat /\ offered \in Nat /\ offered <= arrivals
           /\ kernel \in Seq(KernelFrames) /\ Len(kernel) \in Nat
           /\ \A i \in 1..Len(kernel) : /\ kernel[i].id \in Nat
                                         /\ offered < kernel[i].id /\ kernel[i].id <= arrivals
           /\ \A i, j \in 1..Len(kernel) : i < j => kernel[i].id < kernel[j].id
<1>1. arrivals \in Nat /\ offered \in Nat /\ kernel \in Seq(KernelFrames)
  BY DEF TypeOK
<1>2. Len(kernel) \in Nat /\ \A i \in 1..Len(kernel) : kernel[i] \in KernelFrames
  BY <1>1
<1>3. \A i \in 1..Len(kernel) : kernel[i].id \in Nat
  BY <1>2 DEF KernelFrames
<1> QED BY <1>1, <1>2, <1>3 DEF KernelLater

LEMMA ArriveEffect ==
    ASSUME TypeOK, KernelLater, Arrive
    PROVE  kernel' \in Seq(KernelFrames) /\ arrivals' \in Nat /\ KernelLater'
<1>1. /\ arrivals \in Nat /\ offered \in Nat /\ offered <= arrivals
      /\ kernel \in Seq(KernelFrames) /\ Len(kernel) \in Nat
      /\ \A i \in 1..Len(kernel) : /\ kernel[i].id \in Nat
                                    /\ offered < kernel[i].id /\ kernel[i].id <= arrivals
      /\ \A i, j \in 1..Len(kernel) : i < j => kernel[i].id < kernel[j].id
  BY KernelFacts
<1>2. arrivals' = arrivals + 1 /\ offered' = offered
  BY DEF Arrive
<1>3. CASE kernel' = kernel
  <2>1. \A i \in 1..Len(kernel) : kernel[i].id <= arrivals'
    BY <1>1, <1>2
  <2> QED BY <1>1, <1>2, <1>3, <2>1 DEF KernelLater
<1>4. ASSUME NEW ok \in BOOLEAN,
             kernel' = Append(kernel, [id |-> arrivals', parses |-> ok])
      PROVE  kernel' \in Seq(KernelFrames) /\ KernelLater'
  <2> DEFINE fr == [id |-> arrivals', parses |-> ok]
             n == Len(kernel)
  <2>1. fr \in KernelFrames /\ fr.id = arrivals + 1
    BY <1>1, <1>2 DEF KernelFrames
  <2>2. kernel' = Append(kernel, fr)
    BY <1>4
  <2> HIDE DEF fr
  <2>3. /\ kernel' \in Seq(KernelFrames) /\ Len(kernel') = n + 1
        /\ \A i \in 1..n : kernel'[i] = kernel[i]
        /\ kernel'[n + 1] = fr
    BY <1>1, <2>1, <2>2
  <2>4. n \in Nat
    BY <1>1
  <2> HIDE DEF n
  <2>5. ASSUME NEW i \in 1..(n + 1)
        PROVE  offered' < kernel'[i].id /\ kernel'[i].id <= arrivals'
    <3>1. CASE i \in 1..n
      <4>1. kernel'[i].id = kernel[i].id /\ kernel[i].id \in Nat
            /\ offered < kernel[i].id /\ kernel[i].id <= arrivals
        BY <1>1, <2>3, <3>1 DEF n
      <4> QED BY <1>1, <1>2, <4>1
    <3>2. CASE i = n + 1
      BY <1>1, <1>2, <2>1, <2>3, <3>2
    <3> QED BY <2>4, <3>1, <3>2
  <2>6. ASSUME NEW i \in 1..(n + 1), NEW j \in 1..(n + 1), i < j
        PROVE  kernel'[i].id < kernel'[j].id
    <3>1. i \in 1..n /\ kernel'[i].id = kernel[i].id
      BY <2>3, <2>4, <2>6
    <3>2. kernel[i].id \in Nat /\ kernel[i].id <= arrivals
      BY <1>1, <3>1 DEF n
    <3>3. CASE j \in 1..n
      BY <1>1, <2>3, <2>6, <3>1, <3>3 DEF n
    <3>4. CASE j = n + 1
      BY <1>1, <2>1, <2>3, <3>1, <3>2, <3>4
    <3> QED BY <2>4, <3>3, <3>4
  <2>7. offered' <= arrivals'
    BY <1>1, <1>2
  <2> QED BY <2>3, <2>5, <2>6, <2>7 DEF KernelLater
<1>5. kernel' \in Seq(KernelFrames) /\ KernelLater'
  BY <1>1, <1>3, <1>4 DEF Arrive
<1> QED BY <1>1, <1>2, <1>5

LEMMA DrainEffect ==
    ASSUME TypeOK, KernelLater, DrainOne
    PROVE  /\ kernel' \in Seq(KernelFrames) /\ offered' \in Nat /\ KernelLater'
           /\ Head(kernel).id \in Nat /\ Head(kernel).id > offered
<1> DEFINE n == Len(kernel)
<1>1. /\ arrivals \in Nat /\ offered \in Nat /\ offered <= arrivals
      /\ kernel \in Seq(KernelFrames) /\ n \in Nat
      /\ \A i \in 1..n : /\ kernel[i].id \in Nat
                          /\ offered < kernel[i].id /\ kernel[i].id <= arrivals
      /\ \A i, j \in 1..n : i < j => kernel[i].id < kernel[j].id
  BY KernelFacts
<1>2. /\ kernel # <<>> /\ kernel' = Tail(kernel) /\ arrivals' = arrivals
      /\ offered' = offered \/ offered' = Head(kernel).id
  BY DEF DrainOne
<1>3. /\ n \in Nat \ {0} /\ Head(kernel) = kernel[1]
      /\ kernel' \in Seq(KernelFrames) /\ Len(kernel') = n - 1
      /\ \A i \in 1..(n - 1) : kernel'[i] = kernel[i + 1]
  BY <1>1, <1>2
<1> HIDE DEF n
<1>4. /\ Head(kernel).id \in Nat /\ Head(kernel).id > offered /\ Head(kernel).id <= arrivals
  <2>1. 1 \in 1..n
    BY <1>3
  <2> QED BY <1>1, <1>3, <2>1
<1>5. offered' \in Nat /\ offered' <= arrivals' /\ offered' <= Head(kernel).id
  BY <1>1, <1>2, <1>4
<1>6. ASSUME NEW i \in 1..(n - 1)
      PROVE  offered' < kernel'[i].id /\ kernel'[i].id <= arrivals'
  <2>1. i + 1 \in 1..n /\ 1 \in 1..n /\ 1 < i + 1
    BY <1>3
  <2>2. kernel[1].id < kernel[i + 1].id /\ kernel[i + 1].id <= arrivals /\ kernel[i + 1].id \in Nat
    BY <1>1, <2>1
  <2> QED BY <1>1, <1>2, <1>3, <1>4, <1>5, <2>2
<1>7. ASSUME NEW i \in 1..(n - 1), NEW j \in 1..(n - 1), i < j
      PROVE  kernel'[i].id < kernel'[j].id
  <2>1. i + 1 \in 1..n /\ j + 1 \in 1..n /\ i + 1 < j + 1
    BY <1>3, <1>7
  <2> QED BY <1>1, <1>3, <2>1
<1>8. KernelLater'
  BY <1>3, <1>5, <1>6, <1>7 DEF KernelLater
<1> QED BY <1>3, <1>4, <1>5, <1>8

-----------------------------------------------------------------------------
(***************************************************************************)
(* Every step keeps the invariant and is a step of the bounded FIFO, or    *)
(* leaves it alone.                                                        *)
(***************************************************************************)
QueueStep == Queue!Next \/ UNCHANGED <<Waiting, offered, handed>>

LEMMA RingStep ==
    ASSUME IndInv, [Next]_vars
    PROVE  IndInv' /\ QueueStep
<1> USE DEF IndInv
<1>1. CASE Arrive
  <2>1. UNCHANGED <<store, head, tail, count, pc, offered, handed>>
    BY <1>1 DEF Arrive
  <2>2. Waiting' = Waiting /\ TailFollows'
    BY <2>1 DEF Waiting, SlotOf, TailFollows
  <2>3. TypeOK' /\ KernelLater'
    BY <1>1, <2>1, ArriveEffect DEF TypeOK
  <2> QED BY <2>1, <2>2, <2>3 DEF QueueStep
<1>2. CASE RecvEmpty \/ GiveUp \/ PollReady
  <2>1. /\ UNCHANGED <<kernel, arrivals, store, head, tail, count, offered, handed>>
        /\ pc' \in {"idle", "waiting", "draining"}
    BY <1>2 DEF RecvEmpty, GiveUp, PollReady
  <2>2. Waiting' = Waiting /\ TailFollows' /\ KernelLater'
    BY <2>1 DEF Waiting, SlotOf, TailFollows, KernelLater
  <2>3. TypeOK'
    BY <2>1 DEF TypeOK
  <2> QED BY <2>1, <2>2, <2>3 DEF QueueStep
<1>3. CASE DrainOne
  <2>1. /\ kernel' \in Seq(KernelFrames) /\ offered' \in Nat /\ KernelLater'
        /\ Head(kernel).id \in Nat /\ Head(kernel).id > offered
    BY <1>3, DrainEffect
  <2>2. arrivals' = arrivals /\ pc' = pc /\ handed' = handed
    BY <1>3 DEF DrainOne
  <2>3. CASE Head(kernel).parses
    <3>1. EnqueueDecoded(Head(kernel).id) /\ offered' = Head(kernel).id
      BY <1>3, <2>3 DEF DrainOne
    <3>2. /\ store' \in [Slots -> Nat] /\ head' \in Slots /\ tail' \in Slots
          /\ count' \in 0..RingSize
          /\ TailFollows'
          /\ Waiting' = IF Len(Waiting) < RingSize THEN Append(Waiting, offered') ELSE Waiting
      BY <2>1, <3>1, EnqueueEffect
    <3>3. TypeOK'
      BY <2>1, <2>2, <3>2 DEF TypeOK
    <3>4. offered' > offered
      BY <2>1, <3>1
    <3>5. Queue!Offer
      BY <2>1, <2>2, <3>2, <3>4 DEF Queue!Offer
    <3> QED BY <2>1, <3>2, <3>3, <3>5 DEF QueueStep, Queue!Next
  <2>4. CASE ~Head(kernel).parses
    <3>1. UNCHANGED <<store, head, tail, count, offered>>
      BY <1>3, <2>4 DEF DrainOne
    <3>2. Waiting' = Waiting /\ TailFollows'
      BY <3>1 DEF Waiting, SlotOf, TailFollows
    <3>3. TypeOK'
      BY <2>1, <2>2, <3>1 DEF TypeOK
    <3> QED BY <2>1, <2>2, <3>1, <3>2, <3>3 DEF QueueStep
  <2> QED BY <2>3, <2>4
<1>4. CASE RecvBuffered \/ DrainEmpty \/ DrainFailed
  <2>1. UNCHANGED <<kernel, arrivals, offered>>
    BY <1>4 DEF RecvBuffered, DrainEmpty, DrainFailed, DrainStop
  <2>2. KernelLater'
    BY <2>1 DEF KernelLater
  <2>3. CASE count > 0 /\ PopOne
    <3>1. /\ handed' \in Nat /\ head' \in Slots /\ count' \in 0..RingSize
          /\ TailFollows'
          /\ Waiting # <<>> /\ handed' = Head(Waiting) /\ Waiting' = Tail(Waiting)
      BY <2>3, PopEffect
    <3>2. TypeOK'
      BY <2>1, <2>3, <3>1 DEF TypeOK, PopOne
    <3>3. Queue!Get
      BY <2>1, <3>1 DEF Queue!Get
    <3> QED BY <2>2, <3>1, <3>2, <3>3 DEF QueueStep, Queue!Next
  <2>4. CASE pc' = "waiting" /\ UNCHANGED <<store, head, tail, count, handed>>
    <3>1. Waiting' = Waiting /\ TailFollows'
      BY <2>4 DEF Waiting, SlotOf, TailFollows
    <3>2. TypeOK'
      BY <2>1, <2>4 DEF TypeOK
    <3> QED BY <2>1, <2>2, <2>4, <3>1, <3>2 DEF QueueStep
  <2> QED BY <1>4, <2>3, <2>4 DEF RecvBuffered, DrainEmpty, DrainFailed, DrainStop
<1>5. CASE Reopen
  <2>1. /\ kernel' = <<>> /\ store' = [i \in Slots |-> 0] /\ head' = 0 /\ tail' = 0 /\ count' = 0
        /\ arrivals' = arrivals /\ pc' = pc /\ offered' = offered /\ handed' = handed
    BY <1>5 DEF Reopen
  <2>2. RingSize \in Nat /\ RingSize >= 2 /\ 0 \in Slots /\ 0 \in 0..RingSize
    BY RingAssumption DEF Slots
  <2>3. TypeOK' /\ KernelLater'
    BY <2>1, <2>2 DEF TypeOK, KernelLater
  <2>4. 0 % RingSize = 0
    BY <2>2
  <2>5. TailFollows'
    BY <2>1, <2>4 DEF TailFollows
  <2>6. Waiting' = <<>>
    BY <2>1 DEF Waiting
  <2> QED BY <2>1, <2>3, <2>5, <2>6 DEF QueueStep, Queue!Next, Queue!Clear
<1>6. CASE UNCHANGED vars
  <2>1. UNCHANGED <<kernel, arrivals, store, head, tail, count, pc, offered, handed>>
    BY <1>6 DEF vars
  <2> QED BY <2>1 DEF TypeOK, TailFollows, KernelLater, Waiting, SlotOf, QueueStep
<1> QED BY <1>1, <1>2, <1>3, <1>4, <1>5, <1>6 DEF Next, Recv

LEMMA RingInit ==
    ASSUME Init
    PROVE  IndInv /\ Queue!Init
<1>1. RingSize \in Nat /\ RingSize >= 2 /\ 0 \in Slots /\ 0 \in 0..RingSize
  BY RingAssumption DEF Slots
<1>2. 0 % RingSize = 0
  BY <1>1
<1>3. TypeOK /\ TailFollows /\ KernelLater
  BY <1>1, <1>2 DEF Init, TypeOK, TailFollows, KernelLater
<1>4. Waiting = <<>>
  BY DEF Init, Waiting
<1> QED BY <1>3, <1>4 DEF Init, IndInv, Queue!Init

(***************************************************************************)
(* Head, tail and count stay consistent, and nothing older than what the   *)
(* ring has seen comes out of the capture buffer.                          *)
(***************************************************************************)
THEOREM RingInvariance == Spec => []IndInv
<1>1. Init => IndInv
  BY RingInit
<1>2. IndInv /\ [Next]_vars => IndInv'
  BY RingStep
<1> QED BY <1>1, <1>2, PTL DEF Spec

(***************************************************************************)
(* The receive path implements the bounded FIFO, for every ring size.      *)
(***************************************************************************)
THEOREM RingImplementsQueue == Spec => ImplementsQueue
<1>1. Init => IndInv /\ Queue!Init
  BY RingInit
<1>2. IndInv /\ [Next]_vars => IndInv' /\ [Queue!Next]_<<Waiting, offered, handed>>
  BY RingStep DEF QueueStep
<1> QED BY <1>1, <1>2, PTL DEF Spec, ImplementsQueue, Queue!Spec

-----------------------------------------------------------------------------
(* What follows from the promise of the bounded FIFO alone. *)

LEMMA OrderedInit ==
    ASSUME Queue!Init
    PROVE  Queue!Ordered
<1>1. RingSize \in Nat /\ RingSize >= 2
  BY RingAssumption
<1> QED BY <1>1 DEF Queue!Init, Queue!Ordered

LEMMA OrderedStep ==
    ASSUME Queue!Ordered, [Queue!Next]_<<Waiting, offered, handed>>
    PROVE  Queue!Ordered'
<1> DEFINE n == Len(Waiting)
<1>r. RingSize \in Nat
  BY RingAssumption
<1>0. /\ RingSize \in Nat
      /\ handed \in Nat /\ offered \in Nat /\ handed <= offered
      /\ Waiting \in Seq(Nat) /\ n \in Nat /\ n <= RingSize
      /\ \A i \in 1..n : Waiting[i] \in Nat /\ handed < Waiting[i] /\ Waiting[i] <= offered
      /\ \A i, j \in 1..n : i < j => Waiting[i] < Waiting[j]
  BY <1>r DEF Queue!Ordered
<1>1. CASE Queue!Offer
  <2>1. offered' \in Nat /\ offered' > offered /\ handed' = handed
    BY <1>1 DEF Queue!Offer
  <2>2. CASE n < RingSize
    <3>1. Waiting' = Append(Waiting, offered')
      BY <1>1, <2>2 DEF Queue!Offer
    <3>2. /\ Waiting' \in Seq(Nat) /\ Len(Waiting') = n + 1
          /\ \A i \in 1..n : Waiting'[i] = Waiting[i]
          /\ Waiting'[n + 1] = offered'
      BY <1>0, <2>1, <3>1
    <3> HIDE DEF n
    <3>3. ASSUME NEW i \in 1..(n + 1)
          PROVE  handed' < Waiting'[i] /\ Waiting'[i] <= offered'
      <4>1. CASE i \in 1..n
        <5>1. Waiting'[i] = Waiting[i]
          BY <3>2, <4>1
        <5>2. Waiting[i] \in Nat /\ handed < Waiting[i] /\ Waiting[i] <= offered
          BY <1>0, <4>1
        <5> QED BY <1>0, <2>1, <5>1, <5>2
      <4>2. CASE i = n + 1
        BY <1>0, <2>1, <3>2, <4>2
      <4> QED BY <1>0, <4>1, <4>2
    <3>4. ASSUME NEW i \in 1..(n + 1), NEW j \in 1..(n + 1), i < j
          PROVE  Waiting'[i] < Waiting'[j]
      <4>1. i \in 1..n /\ Waiting'[i] = Waiting[i]
        BY <1>0, <3>2, <3>4
      <4>2. CASE j \in 1..n
        BY <1>0, <3>2, <3>4, <4>1, <4>2
      <4>3. CASE j = n + 1
        BY <1>0, <2>1, <3>2, <4>1, <4>3
      <4> QED BY <1>0, <4>2, <4>3
    <3>5. handed' \in Nat /\ offered' \in Nat /\ handed' <= offered' /\ n + 1 <= RingSize
      BY <1>0, <2>1, <2>2
    <3> QED BY <3>2, <3>3, <3>4, <3>5 DEF Queue!Ordered
  <2>3. CASE ~(n < RingSize)
    <3>1. Waiting' = Waiting
      BY <1>1, <2>3 DEF Queue!Offer
    <3>2. \A i \in 1..n : Waiting[i] <= offered'
      BY <1>0, <2>1
    <3>3. handed' \in Nat /\ offered' \in Nat /\ handed' <= offered'
      BY <1>0, <2>1
    <3> QED BY <1>0, <2>1, <3>1, <3>2, <3>3 DEF Queue!Ordered
  <2> QED BY <2>2, <2>3
<1>2. CASE Queue!Get
  <2>1. /\ Waiting # <<>> /\ handed' = Head(Waiting) /\ Waiting' = Tail(Waiting) /\ offered' = offered
    BY <1>2 DEF Queue!Get
  <2>2. /\ n \in Nat \ {0} /\ handed' = Waiting[1]
        /\ Waiting' \in Seq(Nat) /\ Len(Waiting') = n - 1
        /\ \A i \in 1..(n - 1) : Waiting'[i] = Waiting[i + 1]
    BY <1>0, <2>1
  <2> HIDE DEF n
  <2>3. handed' \in Nat /\ handed' <= offered' /\ n - 1 <= RingSize
    BY <1>0, <2>1, <2>2
  <2>4. ASSUME NEW i \in 1..(n - 1)
        PROVE  handed' < Waiting'[i] /\ Waiting'[i] <= offered'
    <3>1. i + 1 \in 1..n /\ 1 \in 1..n /\ 1 < i + 1
      BY <2>2
    <3> QED BY <1>0, <2>1, <2>2, <3>1
  <2>5. ASSUME NEW i \in 1..(n - 1), NEW j \in 1..(n - 1), i < j
        PROVE  Waiting'[i] < Waiting'[j]
    <3>1. i + 1 \in 1..n /\ j + 1 \in 1..n /\ i + 1 < j + 1
      BY <2>2, <2>5
    <3> QED BY <1>0, <2>2, <3>1
  <2> QED BY <1>0, <2>1, <2>2, <2>3, <2>4, <2>5 DEF Queue!Ordered
<1>3. CASE Queue!Clear
  BY <1>0, <1>3 DEF Queue!Clear, Queue!Ordered
<1>4. CASE UNCHANGED <<Waiting, offered, handed>>
  BY <1>4 DEF Queue!Ordered
<1> QED BY <1>1, <1>2, <1>3, <1>4 DEF Queue!Next

LEMMA QueueInOrder == Queue!Spec => Queue!InOrder
<1>1. Queue!Ordered /\ [Queue!Next]_<<Waiting, offered, handed>>
      => [handed' # handed => handed' > handed]_<<Waiting, offered, handed>>
  <2> SUFFICES ASSUME Queue!Ordered, Queue!Next, handed' # handed
               PROVE  handed' > handed
    OBVIOUS
  <2>1. Queue!Get
    BY DEF Queue!Next, Queue!Offer, Queue!Clear
  <2> QED BY <2>1 DEF Queue!Get, Queue!Ordered
<1>2. Queue!Init => Queue!Ordered
  BY OrderedInit
<1>3. Queue!Ordered /\ [Queue!Next]_<<Waiting, offered, handed>> => Queue!Ordered'
  BY OrderedStep
<1> QED BY <1>1, <1>2, <1>3, PTL DEF Queue!Spec, Queue!InOrder

(***************************************************************************)
(* A caller of recv never gets a frame twice or out of order.              *)
(***************************************************************************)
THEOREM RingInOrder == Spec => FramesInOrder
BY RingImplementsQueue, QueueInOrder DEF ImplementsQueue, FramesInOrder

-----------------------------------------------------------------------------
(* The descriptors of a single-threaded radio program: nothing is closed by *)
(* somebody who does not own it, and no open that fails half-way leaves a   *)
(* descriptor of the radio behind.  The argument is the free number: from   *)
(* the receiver's first close to its second one nothing of the process runs *)
(* that could be given it.                                                  *)

(* Every program but the dashboard. *)
SingleThreaded == \A p \in Programs : ~p.threads

(* A close by the owner of a number robs nobody, and frees it. *)
LEMMA OwnClose ==
    ASSUME RadioIndInv, NEW n \in Numbers, NEW who, table[n] \in {who, Free}, Close(n, who)
    PROVE  /\ robbed' = {}
           /\ table' = [table EXCEPT ![n] = Free]
           /\ table' \in [Numbers -> Files \union {"tx", "rx", Free}]
BY DEF Close, RadioIndInv, OnlyOwnClosed, RadioTypeOK

(* The names of the owners are different from each other. *)
LEMMA OwnerNames ==
    /\ "tx" \notin Files /\ "rx" \notin Files /\ Free \notin Files
    /\ Free # "tx" /\ Free # "rx" /\ NoFd \notin Numbers
BY ConfigAssumption

LEMMA HandlesInit == RadioInit => RadioIndInv
<1> SUFFICES ASSUME RadioInit PROVE RadioIndInv
    OBVIOUS
<1>1. RadioTypeOK
    BY DEF RadioInit, RadioTypeOK, Opening
<1>2. OnlyOwnClosed
    BY DEF RadioInit, OnlyOwnClosed
<1>3. RadioAccounted
    BY OwnerNames DEF RadioInit, RadioAccounted, Opening
<1>4. HandlesAtStep
    BY ConfigAssumption DEF RadioInit, HandlesAtStep, Opening
<1>5. FilesHeld
    BY OwnerNames DEF RadioInit, FilesHeld
<1> QED
    BY <1>1, <1>2, <1>3, <1>4, <1>5 DEF RadioIndInv

(* Steps of the program that only move on. *)
LEMMA StepsOfControl ==
    ASSUME RadioIndInv,
           \/ TxSocketFails \/ TxBound \/ RxCaptureFails \/ RxFiltered
           \/ BeginHop \/ Leave \/ NoRxToClose \/ ChannelSet \/ ChannelFails
    PROVE  RadioIndInv'
<1> USE ConfigAssumption DEF RadioIndInv
<1>1. RadioTypeOK'
    BY DEF RadioTypeOK, TxSocketFails, TxBound, RxCaptureFails, RxFiltered, BeginHop,
           Leave, NoRxToClose, ChannelSet, ChannelFails, EndProgram, Opening, AfterTx
<1>2. OnlyOwnClosed'
    BY DEF OnlyOwnClosed, TxSocketFails, TxBound, RxCaptureFails, RxFiltered, BeginHop,
           Leave, NoRxToClose, ChannelSet, ChannelFails
<1>3. RadioAccounted' /\ HandlesAtStep'
    BY DEF RadioTypeOK, RadioAccounted, HandlesAtStep, TxSocketFails, TxBound, RxCaptureFails,
           RxFiltered, BeginHop, Leave, NoRxToClose, ChannelSet, ChannelFails, EndProgram,
           Opening, AfterTx
<1>4. FilesHeld'
    BY DEF FilesHeld, TxSocketFails, TxBound, RxCaptureFails, RxFiltered, BeginHop,
           Leave, NoRxToClose, ChannelSet, ChannelFails
<1> QED
    BY <1>1, <1>2, <1>3, <1>4

(* Steps that take a number out of the free ones. *)
LEMMA StepsThatOpen ==
    ASSUME RadioIndInv, SingleThreaded, TxSocket \/ RxCapture \/ \E f \in Files : FileOpens(f)
    PROVE  RadioIndInv'
<1> USE OwnerNames DEF RadioIndInv, Lowest
<1>1. CASE TxSocket
    BY <1>1 DEF TxSocket, RadioTypeOK, OnlyOwnClosed, RadioAccounted, HandlesAtStep, FilesHeld
<1>2. CASE RxCapture
    BY <1>2 DEF RxCapture, RadioTypeOK, OnlyOwnClosed, RadioAccounted, HandlesAtStep, FilesHeld
<1>3. ASSUME NEW f \in Files, FileOpens(f)
      PROVE  RadioIndInv'
  <2>1. PICK n \in Numbers : /\ table[n] = Free
                             /\ table' = [table EXCEPT ![n] = f]
                             /\ filefd' = [filefd EXCEPT ![f] = n]
      BY <1>3 DEF FileOpens
  <2>2. /\ UNCHANGED <<program, txfd, rxfd, at, then, robbed>>
        /\ filefd[f] = NoFd
      BY <1>3 DEF FileOpens
  <2>3. RadioTypeOK' /\ OnlyOwnClosed'
      BY <2>1, <2>2 DEF RadioTypeOK, OnlyOwnClosed
  <2>4. \A m \in Numbers : m # n => table'[m] = table[m]
      BY <2>1 DEF RadioTypeOK
  <2>5. table'[n] = f
      BY <2>1 DEF RadioTypeOK
  <2>6. RadioAccounted'
      BY <2>1, <2>2, <2>4, <2>5 DEF RadioTypeOK, RadioAccounted
  <2>7. at # "closePcap"
      BY <1>3 DEF FileOpens, OthersRun, SingleThreaded, RadioTypeOK
  <2>8. HandlesAtStep'
      BY <2>2, <2>7 DEF HandlesAtStep
  <2>9. FilesHeld'
      BY <2>1, <2>2, <2>4, <2>5 DEF RadioTypeOK, FilesHeld
  <2> QED
      BY <2>3, <2>6, <2>8, <2>9
<1> QED
    BY <1>1, <1>2, <1>3

(* Steps that close a number.  The second close of the receiver finds its   *)
(* number free.                                                             *)
LEMMA StepsThatClose ==
    ASSUME RadioIndInv, SingleThreaded,
           \/ TxSetupFails \/ RxFilterFails \/ CloseRxFd \/ ClosePcap \/ CloseTx
           \/ \E f \in Files : FileCloses(f)
    PROVE  RadioIndInv'
<1> USE OwnerNames DEF RadioIndInv
<1>1. CASE TxSetupFails
  <2>1. txfd \in Numbers /\ table[txfd] = "tx" /\ Close(txfd, "tx")
      BY <1>1 DEF TxSetupFails, RadioTypeOK, HandlesAtStep, RadioAccounted
  <2> QED
      BY <1>1, <2>1, OwnClose
      DEF TxSetupFails, EndProgram, RadioTypeOK, OnlyOwnClosed, RadioAccounted, HandlesAtStep, FilesHeld
<1>2. CASE RxFilterFails
  <2>1. rxfd \in Numbers /\ table[rxfd] = "rx" /\ Close(rxfd, "rx")
      BY <1>2 DEF RxFilterFails, RadioTypeOK, HandlesAtStep, RadioAccounted
  <2> QED
      BY <1>2, <2>1, OwnClose
      DEF RxFilterFails, EndProgram, RadioTypeOK, OnlyOwnClosed, RadioAccounted, HandlesAtStep, FilesHeld
<1>3. CASE CloseRxFd
  <2>1. rxfd \in Numbers /\ table[rxfd] = "rx" /\ Close(rxfd, "rx")
      BY <1>3 DEF CloseRxFd, RadioTypeOK, RadioAccounted
  <2> QED
      BY <1>3, <2>1, OwnClose
      DEF CloseRxFd, RadioTypeOK, OnlyOwnClosed, RadioAccounted, HandlesAtStep, FilesHeld
<1>4. CASE ClosePcap
  <2>1. rxfd \in Numbers /\ table[rxfd] = Free /\ Close(rxfd, "rx")
      BY <1>4 DEF ClosePcap, RadioTypeOK, HandlesAtStep
  <2> QED
      BY <1>4, <2>1, OwnClose
      DEF ClosePcap, RadioTypeOK, OnlyOwnClosed, RadioAccounted, HandlesAtStep, FilesHeld
<1>5. CASE CloseTx
  <2>1. CASE txfd = NoFd
      BY <1>5, <2>1
      DEF CloseTx, RadioTypeOK, OnlyOwnClosed, RadioAccounted, HandlesAtStep, FilesHeld
  <2>2. CASE txfd # NoFd
    <3>1. txfd \in Numbers /\ table[txfd] = "tx" /\ Close(txfd, "tx")
        BY <1>5, <2>2 DEF CloseTx, RadioTypeOK, RadioAccounted
    <3> QED
        BY <1>5, <3>1, OwnClose
        DEF CloseTx, RadioTypeOK, OnlyOwnClosed, RadioAccounted, HandlesAtStep, FilesHeld
  <2> QED
      BY <2>1, <2>2
<1>6. ASSUME NEW f \in Files, FileCloses(f)
      PROVE  RadioIndInv'
  <2>1. filefd[f] \in Numbers /\ table[filefd[f]] = f /\ Close(filefd[f], f)
      BY <1>6 DEF FileCloses, RadioTypeOK, FilesHeld
  <2>2. at \in {"up", "hop"}
      BY <1>6 DEF FileCloses, OthersRun, SingleThreaded, RadioTypeOK
  <2> QED
      BY <1>6, <2>1, <2>2, OwnClose
      DEF FileCloses, RadioTypeOK, OnlyOwnClosed, RadioAccounted, HandlesAtStep, FilesHeld
<1> QED
    BY <1>1, <1>2, <1>3, <1>4, <1>5, <1>6

LEMMA HandlesStep ==
    ASSUME RadioIndInv, SingleThreaded, [RadioNext]_radioVars
    PROVE  RadioIndInv'
<1>1. CASE RadioNext
    BY <1>1, StepsOfControl, StepsThatOpen, StepsThatClose
    DEF RadioNext, Open, CloseRadio, Hop, Others
<1>2. CASE UNCHANGED radioVars
    BY <1>2 DEF radioVars, RadioIndInv, RadioTypeOK, OnlyOwnClosed, RadioAccounted, HandlesAtStep, FilesHeld
<1> QED
    BY <1>1, <1>2

(* A descriptor the program holds is its own at every step of opening,       *)
(* hopping and closing, and one that waits for its second close is free.     *)
THEOREM HandlesInvariant ==
    ASSUME SingleThreaded
    PROVE  RadioSpec => []RadioIndInv
<1>1. RadioIndInv /\ [RadioNext]_radioVars => RadioIndInv'
    BY HandlesStep
<1> QED
    BY HandlesInit, <1>1, PTL DEF RadioSpec

(* In a single-threaded program (mesh_txrx.py, c2_gateway.py,               *)
(* node_status_tx.py) the receiver's two closes of one number (rx.rs:506-   *)
(* 512) never close anything of somebody else.                              *)
THEOREM NothingForeignClosed ==
    ASSUME SingleThreaded
    PROVE  RadioSpec => []OnlyOwnClosed
<1>1. RadioIndInv => OnlyOwnClosed
    BY DEF RadioIndInv
<1> QED
    BY <1>1, HandlesInvariant, PTL

(* However opens fail half-way (mesh_txrx.py:1597-1609, tx.rs:83-117), the  *)
(* radio's descriptors and handles agree in a single-threaded program.      *)
THEOREM RadioAlwaysAccounted ==
    ASSUME SingleThreaded
    PROVE  RadioSpec => []RadioAccounted
<1>1. RadioIndInv => RadioAccounted
    BY DEF RadioIndInv
<1> QED
    BY <1>1, HandlesInvariant, PTL
=============================================================================
