-------------------------- MODULE StatusPathProofs --------------------------
(***************************************************************************)
(* What the path of a status heartbeat guarantees, whatever the topology,  *)
(* the keys and the cache sizes, and whatever else is on the air.          *)
(***************************************************************************)
EXTENDS StatusPath, FifoCacheProofs, FiniteSetTheorems

(* What is true of every frame on the air, by itself. *)
Understood(f) ==
    f.sender \in Relays \union {Sender} /\ f.type \in NestedRoutes =>
        /\ f.size <= MaxPayload
        /\ CarriesV1(f) \/ CarriesV2(f)
        /\ IsBeat(f) => /\ f.payload.ttl <= Ttl
                        /\ f.payload.body.size = BeatSize
                        /\ f.size = HeaderSize + RouteDataSize + BeatSize
        /\ f.sender \in Relays /\ Sealed(f.sender, f) => IsBeat(f) \/ Authentic(f.sender, f)

KnownHeartbeat(f) ==
    CarriesV1(f) =>
        /\ IsBeat(f) <=> f.payload.origin \in Ids
        /\ IsBeat(f) =>
              /\ f.payload.inner = Types.status
              /\ f.payload.body.version = 123
              /\ f.payload.body.size = BeatSize
              /\ f.payload.ttl <= Ttl
              /\ f.payload.body.run \in 1 .. run
              /\ f.payload.body.run # run => DedupeKey(f) \in underway

FrameOK(f) == WellFormed(f) /\ Understood(f) /\ KnownHeartbeat(f)

LEMMA FramesOK == IndInv => \A f \in OnAir : FrameOK(f)
BY DEF IndInv, MeshRoutesCarried, HeartbeatsKnown, FrameOK, Understood, KnownHeartbeat

LEMMA FramesRecombined ==
    ASSUME \A f \in OnAir : FrameOK(f)
    PROVE  (\A f \in OnAir : WellFormed(f)) /\ MeshRoutesCarried /\ HeartbeatsKnown
BY DEF MeshRoutesCarried, HeartbeatsKnown, FrameOK, Understood, KnownHeartbeat

(* What the configuration says, in the form the provers need. *)
LEMMA Sizes ==
    /\ MaxU32 \in Nat \ {0} /\ MaxU8 = 255 /\ MaxU16 \in Nat
    /\ MaxPayload \in Nat /\ MaxPayload <= MaxU16
    /\ BeatSize \in Nat \ {0} /\ 20 + BeatSize <= MaxPayload
    /\ HeaderSize = 10 /\ RouteDataSize = 10 /\ RouteV2Size = 14
    /\ SecureSize = 20 /\ TagSize = 16
<1>1. MaxU16 \in Nat
  BY DEF MaxU16
<1>2. /\ MaxU8 = 255 /\ HeaderSize = 10 /\ RouteDataSize = 10 /\ RouteV2Size = 14
      /\ SecureSize = 20 /\ TagSize = 16
  BY DEF MaxU8, HeaderSize, RouteDataSize, RouteV2Size, SecureSize, TagSize
<1>3. /\ MaxU32 \in Nat \ {0} /\ MaxPayload \in 0 .. MaxU16 /\ BeatSize \in Nat \ {0}
      /\ HeaderSize + RouteDataSize + BeatSize <= MaxPayload
  BY SizeAssumption
<1> QED BY <1>1, <1>2, <1>3

LEMMA Stationary ==
    /\ Logical \in Seq(1 .. MaxU8) /\ Len(Logical) \in Nat \ {0}
    /\ \A i \in 1 .. Len(Logical) : Logical[i] \in Ids
    /\ Sender \in Ids
    /\ Ids \subseteq 1 .. MaxU8 /\ Relays \subseteq 1 .. MaxU8
    /\ Ttl \in 0 .. MaxU8 /\ SeenLimit \in Nat \ {0}
BY ConfigAssumption DEF Ids

-----------------------------------------------------------------------------
(* The queues. *)

LEMMA SeqWithin ==
    ASSUME NEW S, NEW q \in Seq(S), NEW T, \A i \in 1 .. Len(q) : q[i] \in T
    PROVE  q \in Seq(T)
OBVIOUS

LEMMA QueueElements ==
    ASSUME NEW S, rxq \in [Relays -> Seq(S)]
    PROVE  /\ OnAir \subseteq S
           /\ rxq \in [Relays -> Seq(OnAir)]
<1>1. \A r \in Relays : rxq[r] \in Seq(S) /\ DOMAIN rxq[r] = 1 .. Len(rxq[r])
  OBVIOUS
<1>2. OnAir \subseteq S
  BY <1>1 DEF OnAir
<1>3. \A r \in Relays : \A i \in 1 .. Len(rxq[r]) : rxq[r][i] \in OnAir
  BY <1>1 DEF OnAir
<1>4. \A r \in Relays : rxq[r] \in Seq(OnAir)
  BY <1>1, <1>3, SeqWithin
<1> QED BY <1>2, <1>4

(* The same of the next state. *)
LEMMA NextQueueElements ==
    ASSUME NEW S, rxq' \in [Relays -> Seq(S)]
    PROVE  /\ OnAir' \subseteq S
           /\ rxq' \in [Relays -> Seq(OnAir')]
<1>1. \A r \in Relays : rxq'[r] \in Seq(S) /\ DOMAIN rxq'[r] = 1 .. Len(rxq'[r])
  OBVIOUS
<1>2. OnAir' \subseteq S
  BY <1>1 DEF OnAir
<1>3. \A r \in Relays : \A i \in 1 .. Len(rxq'[r]) : rxq'[r][i] \in OnAir'
  BY <1>1 DEF OnAir
<1>4. \A r \in Relays : rxq'[r] \in Seq(OnAir')
  BY <1>1, <1>3, SeqWithin
<1> QED BY <1>2, <1>4

LEMMA TakenElements ==
    ASSUME TypeOK, NEW r \in Relays, NEW f \in Waiting(r)
    PROVE  f \in OnAir /\ Taken(r) \in [Relays -> Seq(OnAir)]
<1>1. rxq[r] \in Seq(OnAir) /\ rxq[r] # <<>> /\ f = Head(rxq[r])
  BY DEF TypeOK, Waiting
<1>2. f \in OnAir /\ Tail(rxq[r]) \in Seq(OnAir)
  BY <1>1
<1> QED BY <1>2 DEF Taken, TypeOK

(* After a transmission there is nothing new on the air but its frame. *)
LEMMA AirElements ==
    ASSUME NEW S, NEW q \in [Relays -> Seq(S)], NEW x, NEW f, Air(q, x, f)
    PROVE  /\ OnAir' \subseteq S \union {f}
           /\ rxq' \in [Relays -> Seq(OnAir')]
<1>1. \A r \in Relays : q[r] \in Seq(S \union {f})
  <2> TAKE r \in Relays
  <2>1. \A i \in 1 .. Len(q[r]) : q[r][i] \in S \union {f}
    OBVIOUS
  <2> QED BY <2>1, SeqWithin
<1>2. \A r \in Relays : Append(q[r], f) \in Seq(S \union {f})
  BY <1>1
<1>3. rxq' \in [Relays -> Seq(S \union {f})]
  BY <1>1, <1>2 DEF Air
<1> QED BY <1>3, NextQueueElements

-----------------------------------------------------------------------------
(* The frames: those of the transmitter, of strangers and of the relays. *)

LEMMA BeatFrameOK ==
    ASSUME TypeOK, NEW n \in Ids
    PROVE  FrameOK(BeatFrame(n))
<1> DEFINE f == BeatFrame(n)
<1>1. /\ seq[n] \in 1 .. MaxU32 /\ run \in Nat \ {0}
      /\ n \in 1 .. 255 /\ Ttl \in 0 .. 255 /\ Sender \in Ids /\ Sender # 0
  BY Stationary, Sizes DEF TypeOK
<1>2. CASE Mesh
  <2>1. /\ f.size = 20 + BeatSize /\ f.version = 1 /\ f.type = 33 /\ f.sender = Sender
        /\ f.len = f.size - 10
        /\ f.payload.size = 10 + BeatSize /\ f.payload.origin = n /\ f.payload.dest = 0
        /\ f.payload.ttl = Ttl /\ f.payload.seq = seq[n] /\ f.payload.inner = 4
        /\ f.payload.len = BeatSize
        /\ f.payload.body.size = BeatSize /\ f.payload.body.form = "json"
        /\ f.payload.body.version = 123 /\ f.payload.body.run = run
        /\ RouteFields \subseteq DOMAIN f.payload
    <3> DEFINE route == [origin |-> n, dest |-> 0, ttl |-> Ttl, seq |-> seq[n],
                         inner |-> Types.status, body |-> Beat]
               p == RoutePayload(route)
    <3>1. f = Frame(Sender, Types.route_data, 0, p)
      BY <1>2 DEF BeatFrame
    <3>2. Beat.size = BeatSize /\ Beat.form = "json" /\ Beat.version = 123 /\ Beat.run = run
      BY DEF Beat
    <3>3. /\ p.size = 10 + BeatSize /\ p.origin = n /\ p.dest = 0 /\ p.ttl = Ttl
          /\ p.seq = seq[n] /\ p.inner = 4 /\ p.len = BeatSize /\ p.body = Beat
          /\ RouteFields \subseteq DOMAIN p
      BY <3>2, Sizes DEF RoutePayload, RouteFields, Types
    <3> HIDE DEF f, p
    <3> QED BY <3>1, <3>2, <3>3, Sizes DEF Frame, Types
  <2> HIDE DEF f
  <2>2. CarriesV1(f) /\ ~CarriesV2(f) /\ IsBeat(f)
    BY <1>1, <2>1, Sizes DEF CarriesV1, CarriesV2, FrameDecodes, RouteDecodes, IsBeat,
       Types, KnownTypes
  <2>3. ~SecureDecodes(f.payload.body)
    BY <2>1 DEF SecureDecodes
  <2>4. WellFormed(f)
    BY <1>1, <2>1, <2>2, <2>3, Sizes DEF WellFormed, IsU8, IsU32
  <2>5. Understood(f)
    BY <1>1, <2>1, <2>2, Sizes DEF Understood
  <2>6. KnownHeartbeat(f)
    BY <1>1, <2>1, <2>2, Sizes DEF KnownHeartbeat, Types
  <2> QED BY <2>4, <2>5, <2>6 DEF FrameOK, f
<1>3. CASE ~Mesh
  <2>1. f.size = 10 + BeatSize /\ f.type = 4
    BY <1>3, Sizes DEF BeatFrame, Frame, Beat, Types
  <2> HIDE DEF f
  <2>2. ~CarriesV1(f) /\ ~CarriesV2(f) /\ f.type \notin NestedRoutes
    BY <2>1 DEF CarriesV1, CarriesV2, Types, NestedRoutes
  <2>3. f.size \in 0 .. MaxPayload /\ f.type # Types.route_data
    BY <2>1, Sizes DEF Types
  <2> QED BY <2>2, <2>3 DEF FrameOK, WellFormed, Understood, KnownHeartbeat, f
<1> QED BY <1>2, <1>3

LEMMA ForeignFrameOK ==
    ASSUME NEW f \in ForeignFrames
    PROVE  FrameOK(f)
<1>1. WellFormed(f)
  BY WireAssumption
<1>2. f.sender \notin Relays \union {Sender}
  BY StrangerAssumption
<1>3. CarriesV1(f) => f.payload.origin \notin Ids /\ ~IsBeat(f)
  BY StrangerAssumption DEF IsBeat
<1> QED BY <1>1, <1>2, <1>3 DEF FrameOK, Understood, KnownHeartbeat

(* A relay with a key takes no heartbeat, which is in the clear. *)
LEMMA BeatNotSealed ==
    ASSUME NEW f, FrameOK(f), CarriesV1(f), IsBeat(f), NEW r \in Relays, ~Refuses(r, f)
    PROVE  ~Sealed(r, f)
<1>1. f.payload.body.version = 123 /\ f.type = 33
  BY DEF FrameOK, KnownHeartbeat, IsBeat, Types
<1>2. ~Authentic(r, f)
  BY <1>1 DEF Authentic, SecureDecodes
<1> QED BY <1>1, <1>2 DEF Refuses, Types

(* A route for the next hop: as it came, but for the ttl and the body. *)
LEMMA ForwardedFields ==
    ASSUME NEW r, NEW f, RouteFields \subseteq DOMAIN f.payload
    PROVE  LET g == ForwardRoute(r, f) p == f.payload
           IN  /\ g.origin = p.origin /\ g.dest = p.dest /\ g.ttl = p.ttl - 1 /\ g.seq = p.seq
               /\ g.inner = p.inner /\ g.body = ForwardBody(r, f)
               /\ RouteV2Fields \subseteq DOMAIN p =>
                     /\ g.originType = p.originType /\ g.destType = p.destType
                     /\ g.class = p.class
BY DEF ForwardRoute, Decremented, RouteFields, RouteV2Fields

(* What is sealed anew opens with the same key, and is as long as before. *)
LEMMA ForwardedBody ==
    ASSUME NEW r \in Relays, NEW f, FrameOK(f), CarriesV1(f), ~Refuses(r, f), f.payload.ttl > 0
    PROVE  /\ ForwardBody(r, f).size = f.payload.body.size
           /\ ~Sealed(r, f) => ForwardBody(r, f) = f.payload.body
           /\ Sealed(r, f) => LET b == ForwardBody(r, f)
                              IN  /\ b.form = "sealed" /\ SecureDecodes(b) /\ b.key = Key[r]
                                  /\ b.plain.size \in Nat
                                  /\ b.size = SecureSize + b.plain.size + TagSize
                                  /\ b.aad = RouteAad(Decremented(f.payload), b.plain)
<1>1. CASE ~Sealed(r, f)
  BY <1>1 DEF ForwardBody
<1>2. CASE Sealed(r, f)
  <2> DEFINE plain == f.payload.body.plain
             b == ForwardBody(r, f)
  <2>1. Authentic(r, f)
    BY <1>2 DEF Refuses, Sealed, Types
  <2>2. plain.size \in Nat /\ f.payload.body.size = SecureSize + plain.size + TagSize
    BY <2>1 DEF FrameOK, WellFormed, Authentic, SecureOpens
  <2>3. b = Secure(Key[r], plain, RouteAad(Decremented(f.payload), plain))
    BY <1>2 DEF ForwardBody
  <2> HIDE DEF plain, b
  <2>4. /\ b.size = SecureSize + plain.size + TagSize /\ b.form = "sealed" /\ b.version = 1
        /\ b.domain = 1 /\ b.key = Key[r] /\ b.plain = plain
        /\ b.aad = RouteAad(Decremented(f.payload), plain)
    BY <2>3 DEF Secure
  <2>5. SecureDecodes(b)
    BY <2>2, <2>4, Sizes DEF SecureDecodes, KnownDomains
  <2> QED BY <1>2, <2>2, <2>4, <2>5 DEF plain, b
<1> QED BY <1>1, <1>2

LEMMA ForwardV1OK ==
    ASSUME NEW r \in Relays, NEW f, FrameOK(f), CarriesV1(f), ~Refuses(r, f), f.payload.ttl > 0
    PROVE  LET route == ForwardRoute(r, f) g == ForwardFrame(r, f.type, route)
           IN  ForwardSucceeds(r, f.type, route, g) /\ FrameOK(g)
<1> DEFINE p == f.payload
           b == ForwardBody(r, f)
           route == ForwardRoute(r, f)
           q == RoutePayload(route)
           g == Frame(r, f.type, 0, q)
<1>1. /\ f.type = 33 /\ f.size \in 0 .. MaxPayload
      /\ p.origin \in 1 .. 255 /\ p.dest \in 0 .. 255 /\ p.ttl \in 1 .. 255
      /\ p.seq \in 0 .. MaxU32 /\ p.inner # 33 /\ p.inner \in {1, 2, 3, 4, 5, 33, 34}
      /\ p.size = f.size - 10 /\ p.body.size = p.size - 10 /\ p.size >= 10
      /\ RouteFields \subseteq DOMAIN p
  <2>1. /\ f.type = 33 /\ p.origin # 0 /\ p.inner # 33 /\ p.inner \in KnownTypes
        /\ p.size >= RouteDataSize
    BY DEF CarriesV1, RouteDecodes, Types
  <2>2. /\ f.size \in 0 .. MaxPayload
        /\ IsU8(p.origin) /\ IsU8(p.dest) /\ IsU8(p.ttl) /\ IsU32(p.seq)
        /\ p.size = f.size - HeaderSize /\ p.body.size = p.size - RouteDataSize
        /\ RouteFields \subseteq DOMAIN p
    BY DEF FrameOK, WellFormed
  <2>3. p.origin \in 0 .. 255 /\ p.dest \in 0 .. 255 /\ p.ttl \in 0 .. 255
    BY <2>2 DEF IsU8, MaxU8
  <2>4. p.size = f.size - 10 /\ p.body.size = p.size - 10 /\ p.size >= 10
    BY <2>1, <2>2 DEF HeaderSize, RouteDataSize
  <2>5. p.seq \in 0 .. MaxU32 /\ p.inner \in {1, 2, 3, 4, 5, 33, 34}
    BY <2>1, <2>2 DEF IsU32, KnownTypes
  <2> HIDE DEF p
  <2>6. p.origin \in 1 .. 255 /\ p.ttl \in 1 .. 255
    <3>1. p.ttl > 0
      BY DEF p
    <3> QED BY <2>1, <2>3, <3>1
  <2> QED BY <2>1, <2>2, <2>3, <2>4, <2>5, <2>6
<1>2. /\ route.origin = p.origin /\ route.dest = p.dest /\ route.ttl = p.ttl - 1
      /\ route.seq = p.seq /\ route.inner = p.inner /\ route.body = b
  BY <1>1, ForwardedFields
<1>3. /\ b.size = p.body.size
      /\ ~Sealed(r, f) => b = p.body
      /\ Sealed(r, f) => /\ b.form = "sealed" /\ SecureDecodes(b) /\ b.key = Key[r]
                         /\ b.plain.size \in Nat /\ b.size = SecureSize + b.plain.size + TagSize
                         /\ b.aad = RouteAad(Decremented(p), b.plain)
  BY ForwardedBody
<1> HIDE DEF b, route
<1>4. /\ q.size = 10 + b.size /\ q.origin = p.origin /\ q.dest = p.dest /\ q.ttl = p.ttl - 1
      /\ q.seq = p.seq /\ q.inner = p.inner /\ q.len = b.size /\ q.body = b
      /\ RouteFields \subseteq DOMAIN q
  BY <1>2, Sizes DEF RoutePayload, RouteFields
<1> HIDE DEF q
<1>5. /\ g.size = f.size /\ g.version = 1 /\ g.type = 33 /\ g.sender = r /\ g.len = f.size - 10
      /\ g.payload = q
  BY <1>1, <1>3, <1>4, Sizes DEF Frame
<1>6. r \in 1 .. 255 /\ r # 0
  <2>1. r \in 1 .. MaxU8
    BY Stationary
  <2> QED BY <2>1 DEF MaxU8
<1> HIDE DEF g
<1>7. RouteEncodes(route) /\ FrameEncodes(r, f.type, 0, g.payload) /\ g.size <= MaxPayload
  <2>1. q.size <= MaxU16 /\ route.body.size <= MaxU16 /\ g.size <= MaxPayload
    BY <1>1, <1>2, <1>3, <1>4, <1>5, Sizes
  <2>2. /\ route.origin # 0 /\ IsU8(route.origin) /\ IsU8(route.dest) /\ IsU8(route.ttl)
        /\ IsU32(route.seq)
    BY <1>1, <1>2 DEF IsU8, IsU32, MaxU8
  <2>3. route.inner # Types.route_data /\ IsU8(route.inner)
    BY <1>1, <1>2 DEF IsU8, MaxU8, Types
  <2>4. IsU8(r) /\ IsU8(f.type) /\ IsU32(0)
    BY <1>1, <1>6, Sizes DEF IsU8, IsU32
  <2> QED BY <1>5, <1>6, <2>1, <2>2, <2>3, <2>4 DEF RouteEncodes, FrameEncodes
<1>8. CarriesV1(g) /\ ~CarriesV2(g)
  BY <1>1, <1>3, <1>4, <1>5, <1>6, Sizes
     DEF CarriesV1, CarriesV2, FrameDecodes, RouteDecodes, Types, KnownTypes
<1>9. WellFormed(g)
  <2>1. ASSUME NEW o \in Relays, SecureDecodes(b), b.key = Key[o]
        PROVE  b.plain.size \in Nat /\ b.size = SecureSize + b.plain.size + TagSize
    BY <1>3, <2>1 DEF FrameOK, WellFormed
  <2> QED BY <1>1, <1>3, <1>4, <1>5, <1>8, <2>1, Sizes DEF WellFormed, IsU8, IsU32
<1>10. Sealed(r, g) <=> Sealed(r, f)
  BY <1>1, <1>4, <1>5 DEF Sealed
<1>11. IsBeat(g) => IsBeat(f) /\ b = p.body
  BY <1>1, <1>3, <1>4, <1>5 DEF IsBeat, Types
<1>12. IsBeat(f) => IsBeat(g) /\ b = p.body
  BY <1>1, <1>3, <1>4, <1>5, BeatNotSealed DEF IsBeat, Types
<1>13. Understood(g)
  <2>1. IsBeat(g) => /\ g.payload.ttl <= Ttl /\ g.payload.body.size = BeatSize
                    /\ g.size = HeaderSize + RouteDataSize + BeatSize
    <3> SUFFICES ASSUME IsBeat(g)
                 PROVE  /\ g.payload.ttl <= Ttl /\ g.payload.body.size = BeatSize
                        /\ g.size = HeaderSize + RouteDataSize + BeatSize
      OBVIOUS
    <3>1. p.ttl <= Ttl /\ p.body.size = BeatSize /\ b = p.body
      BY <1>11 DEF FrameOK, KnownHeartbeat
    <3>2. Ttl \in Nat
      BY Stationary, Sizes
    <3> QED BY <1>1, <1>4, <1>5, <3>1, <3>2, Sizes
  <2>2. Sealed(r, g) => Authentic(r, g)
    <3> SUFFICES ASSUME Sealed(r, f) PROVE Authentic(r, g)
      BY <1>10
    <3>1. /\ Decremented(p).origin = p.origin /\ Decremented(p).dest = p.dest
          /\ Decremented(p).ttl = p.ttl - 1 /\ Decremented(p).seq = p.seq
          /\ Decremented(p).inner = p.inner
      BY <1>1 DEF Decremented, RouteFields
    <3>2. RouteAad(q, b.plain) = RouteAad(Decremented(p), b.plain)
      BY <1>4, <3>1 DEF RouteAad
    <3> QED BY <1>3, <1>4, <1>5, <3>2 DEF Authentic, SecureOpens
  <2> QED BY <1>5, <1>7, <1>8, <2>1, <2>2 DEF Understood
<1>14. KnownHeartbeat(g)
  <2>1. DedupeKey(g) = DedupeKey(f)
    BY <1>1, <1>4, <1>5 DEF DedupeKey, Types
  <2>2. IsBeat(g) <=> g.payload.origin \in Ids
    BY <1>4, <1>5, <1>11, <1>12 DEF FrameOK, KnownHeartbeat
  <2>3. ASSUME IsBeat(g)
        PROVE  /\ g.payload.inner = Types.status /\ g.payload.body.version = 123
               /\ g.payload.body.size = BeatSize /\ g.payload.ttl <= Ttl
               /\ g.payload.body.run \in 1 .. run
               /\ g.payload.body.run # run => DedupeKey(g) \in underway
    <3>1. IsBeat(f) /\ b = p.body
      BY <1>11, <2>3
    <3>2. g.payload.ttl <= Ttl
      BY <1>8, <1>13, <1>5, <1>6, <2>3 DEF Understood, Types, NestedRoutes
    <3> QED BY <1>4, <1>5, <2>1, <3>1, <3>2 DEF FrameOK, KnownHeartbeat
  <2> QED BY <2>2, <2>3 DEF KnownHeartbeat
<1>15. ForwardFrame(r, f.type, route) = g
  BY <1>1 DEF ForwardFrame, Types, g, q
<1> QED BY <1>1, <1>7, <1>9, <1>13, <1>14, <1>15 DEF ForwardSucceeds, FrameOK, Types, route

LEMMA ForwardV2OK ==
    ASSUME NEW r \in Relays, NEW f, FrameOK(f), CarriesV2(f), f.payload.ttl > 0
    PROVE  LET route == ForwardRoute(r, f) g == ForwardFrame(r, f.type, route)
           IN  ForwardSucceeds(r, f.type, route, g) /\ FrameOK(g)
<1> DEFINE p == f.payload
           b == ForwardBody(r, f)
           route == ForwardRoute(r, f)
           q == RouteV2Payload(route)
           g == Frame(r, f.type, 0, q)
<1>1. /\ f.type = 34 /\ f.size \in 0 .. MaxPayload
      /\ OriginValid(p.originType, p.origin) /\ DestinationValid(p.destType, p.dest)
      /\ p.ttl \in 1 .. 255 /\ p.seq \in 0 .. MaxU32 /\ p.class \in 1 .. 5
      /\ p.inner \in {1, 2, 3, 4, 5}
      /\ p.size = f.size - 10 /\ p.body.size = p.size - 14 /\ p.size >= 14
      /\ RouteV2Fields \subseteq DOMAIN p
  <2>1. /\ f.type = 34 /\ p.class \in KnownClasses /\ p.size >= RouteV2Size
        /\ OriginValid(p.originType, p.origin) /\ DestinationValid(p.destType, p.dest)
        /\ p.inner \notin NestedRoutes /\ p.inner \in KnownTypes
    BY DEF CarriesV2, RouteV2Decodes, Types
  <2>2. /\ f.size \in 0 .. MaxPayload /\ IsU8(p.ttl) /\ IsU32(p.seq)
        /\ p.size = f.size - HeaderSize /\ p.body.size = p.size - RouteV2Size
        /\ RouteV2Fields \subseteq DOMAIN p
    BY DEF FrameOK, WellFormed
  <2>3. p.size = f.size - 10 /\ p.body.size = p.size - 14 /\ p.size >= 14
    BY <2>1, <2>2 DEF HeaderSize, RouteV2Size
  <2>4. p.seq \in 0 .. MaxU32 /\ p.class \in 1 .. 5
    BY <2>1, <2>2 DEF IsU32, KnownClasses
  <2>5. p.inner \in {1, 2, 3, 4, 5}
    BY <2>1 DEF KnownTypes, NestedRoutes, Types
  <2>6. p.ttl \in 0 .. 255 /\ p.ttl > 0
    BY <2>2 DEF IsU8, MaxU8
  <2>7. p.ttl \in 1 .. 255
    BY <2>6
  <2> QED BY <2>1, <2>2, <2>3, <2>4, <2>5, <2>7
<1>2. /\ route.origin = p.origin /\ route.dest = p.dest /\ route.ttl = p.ttl - 1
      /\ route.seq = p.seq /\ route.inner = p.inner /\ route.body = b
      /\ route.originType = p.originType /\ route.destType = p.destType
      /\ route.class = p.class
  <2>1. RouteFields \subseteq DOMAIN p
    BY <1>1 DEF RouteV2Fields
  <2> QED BY <1>1, <2>1, ForwardedFields
<1>3. b = p.body
  BY <1>1 DEF ForwardBody, Sealed, Types
<1> HIDE DEF b, route
<1>4. /\ q.size = 14 + b.size /\ q.version = 1 /\ q.origin = p.origin /\ q.dest = p.dest
      /\ q.originType = p.originType /\ q.destType = p.destType /\ q.class = p.class
      /\ q.ttl = p.ttl - 1 /\ q.seq = p.seq /\ q.inner = p.inner /\ q.len = b.size
      /\ q.body = b
      /\ RouteV2Fields \subseteq DOMAIN q
  BY <1>2, Sizes DEF RouteV2Payload, RouteFields, RouteV2Fields
<1> HIDE DEF q
<1>5. /\ g.size = f.size /\ g.version = 1 /\ g.type = 34 /\ g.sender = r /\ g.len = f.size - 10
      /\ g.payload = q
  BY <1>1, <1>3, <1>4, Sizes DEF Frame
<1>6. r \in 1 .. 255 /\ r # 0
  <2>1. r \in 1 .. MaxU8
    BY Stationary
  <2> QED BY <2>1 DEF MaxU8
<1> HIDE DEF g
<1>7. RouteV2Encodes(route) /\ FrameEncodes(r, f.type, 0, g.payload) /\ g.size <= MaxPayload
  <2>1. q.size <= MaxU16 /\ route.body.size <= MaxU16 /\ g.size <= MaxPayload
    BY <1>1, <1>2, <1>3, <1>4, <1>5, Sizes
  <2>2. /\ OriginValid(route.originType, route.origin)
        /\ DestinationValid(route.destType, route.dest)
        /\ IsU8(route.ttl) /\ IsU32(route.seq) /\ IsU8(route.class)
    BY <1>1, <1>2 DEF IsU8, IsU32, MaxU8
  <2>3. route.inner \notin NestedRoutes /\ IsU8(route.inner)
    BY <1>1, <1>2 DEF IsU8, MaxU8, Types, NestedRoutes
  <2>4. IsU8(r) /\ IsU8(f.type) /\ IsU32(0)
    BY <1>1, <1>6, Sizes DEF IsU8, IsU32
  <2> QED BY <1>5, <1>6, <2>1, <2>2, <2>3, <2>4 DEF RouteV2Encodes, FrameEncodes
<1>8. CarriesV2(g) /\ ~CarriesV1(g)
  BY <1>1, <1>3, <1>4, <1>5, <1>6, Sizes
     DEF CarriesV1, CarriesV2, FrameDecodes, RouteV2Decodes, Types, KnownTypes,
         KnownClasses, NestedRoutes
<1>9. WellFormed(g)
  BY <1>1, <1>3, <1>4, <1>5, <1>8, Sizes DEF WellFormed, IsU8, IsU32, Types
<1>10. ~IsBeat(g) /\ ~Sealed(r, g)
  BY <1>5 DEF IsBeat, Sealed, Types
<1>11. Understood(g)
  BY <1>5, <1>7, <1>8, <1>10 DEF Understood
<1>12. KnownHeartbeat(g)
  BY <1>8 DEF KnownHeartbeat
<1>13. ForwardFrame(r, f.type, route) = g
  BY <1>1 DEF ForwardFrame, Types, g, q
<1> QED BY <1>1, <1>7, <1>9, <1>11, <1>12, <1>13 DEF ForwardSucceeds, FrameOK, Types, route

-----------------------------------------------------------------------------
(* The keys: those of a route_v2 are none of a heartbeat's. *)

LEMMA KeyType ==
    ASSUME NEW f, WellFormed(f), CarriesV1(f) \/ CarriesV2(f)
    PROVE  /\ DedupeKey(f) \in RouteKeys
           /\ CarriesV1(f) => DedupeKey(f) = <<f.payload.origin, f.payload.seq>>
           /\ CarriesV2(f) => \A S, T : DedupeKey(f) \notin S \X T
<1>1. CASE CarriesV1(f)
  <2>1. f.type = 33 /\ ~CarriesV2(f)
    BY <1>1 DEF CarriesV1, CarriesV2, Types
  <2>2. DedupeKey(f) = <<f.payload.origin, f.payload.seq>>
    BY <2>1 DEF DedupeKey, Types
  <2>3. f.payload.origin \in 0 .. MaxU8 /\ f.payload.seq \in 0 .. MaxU32
    BY <1>1 DEF WellFormed, IsU8, IsU32
  <2> QED BY <2>1, <2>2, <2>3 DEF RouteKeys
<1>2. CASE CarriesV2(f)
  <2>1. f.type = 34 /\ ~CarriesV1(f)
    BY <1>2 DEF CarriesV1, CarriesV2, Types
  <2>2. DedupeKey(f) = <<f.payload.originType, f.payload.origin, f.payload.seq>>
    BY <2>1 DEF DedupeKey, Types
  <2>3. /\ f.payload.originType \in 0 .. MaxU8 /\ f.payload.origin \in 0 .. MaxU8
        /\ f.payload.seq \in 0 .. MaxU32
    <3>1. OriginValid(f.payload.originType, f.payload.origin)
      BY <1>2 DEF CarriesV2, RouteV2Decodes
    <3>2. f.payload.seq \in 0 .. MaxU32
      BY <1>2 DEF WellFormed, IsU32
    <3>3. f.payload.originType \in {1, 2} /\ f.payload.origin \in 0 .. MaxU8
      BY <3>1 DEF OriginValid, IsU8, Addr
    <3> QED BY <3>2, <3>3 DEF MaxU8
  <2>4. DedupeKey(f) \in RouteKeys
    BY <2>2, <2>3 DEF RouteKeys
  <2>5. \A S, T : DedupeKey(f) \notin S \X T
    BY <2>2
  <2> QED BY <2>1, <2>4, <2>5
<1> QED BY <1>1, <1>2

LEMMA SeenStep ==
    ASSUME TypeOK, NEW r \in Relays, NEW f, DedupeKey(f) \in RouteKeys, RememberSeen(r, f)
    PROVE  /\ seen' \in [Relays -> Seq(RouteKeys)]
           /\ \A o \in Relays : Len(seen'[o]) <= SeenLimit
           /\ \A o \in Relays : \A k : Known(seen'[o], k) =>
                 Known(seen[o], k) \/ (o = r /\ k = DedupeKey(f))
<1> DEFINE c == Remember(seen[r], DedupeKey(f), SeenLimit)
<1>1. /\ seen[r] \in Seq(RouteKeys) /\ Len(seen[r]) <= SeenLimit /\ SeenLimit \in Nat
      /\ seen \in [Relays -> Seq(RouteKeys)]
  BY Stationary DEF TypeOK
<1>2. c \in Seq(RouteKeys) /\ Len(c) <= SeenLimit
  BY <1>1, RememberType, RememberBounded
<1>3. \A k : Known(c, k) => Known(seen[r], k) \/ k = DedupeKey(f)
  BY <1>1, RememberElements
<1>4. seen' = [seen EXCEPT ![r] = c]
  BY DEF RememberSeen
<1> HIDE DEF c
<1>5. seen'[r] = c /\ \A o \in Relays \ {r} : seen'[o] = seen[o]
  BY <1>1, <1>4
<1>6. \A o \in Relays : Len(seen[o]) <= SeenLimit
  BY DEF TypeOK
<1> QED BY <1>1, <1>2, <1>3, <1>4, <1>5, <1>6

LEMMA RangesFinite == IsFiniteSet(0 .. MaxU8) /\ IsFiniteSet(0 .. MaxU32)
<1>1. 0 \in Int /\ MaxU8 \in Int /\ MaxU32 \in Int
  BY Sizes
<1> QED BY <1>1, FS_Interval

LEMMA ShadowFinite ==
    ASSUME NEW r \in Relays
    PROVE  IsFiniteSet(Shadowed(r))
<1>1. IsFiniteSet(0 .. MaxU8) /\ IsFiniteSet(0 .. MaxU32)
  BY RangesFinite
<1>2. IsFiniteSet(Ids \ {r})
  <2>1. Ids \ {r} \in SUBSET (0 .. MaxU8)
    BY Stationary, Sizes
  <2> QED BY <1>1, <2>1, FS_Subset
<1>3. IsFiniteSet((Ids \ {r}) \X (0 .. MaxU32))
  BY <1>1, <1>2, FS_Product
<1>4. Shadowed(r) \in SUBSET ((Ids \ {r}) \X (0 .. MaxU32))
  BY DEF Shadowed
<1> QED BY <1>3, <1>4, FS_Subset

LEMMA KeysFinite == IsFiniteSet(RouteKeys)
<1>1. IsFiniteSet(0 .. MaxU8) /\ IsFiniteSet(0 .. MaxU32)
  BY RangesFinite
<1> DEFINE A == (0 .. MaxU8) \X (0 .. MaxU32)
           N == 0 .. MaxU8
           Q == 0 .. MaxU32
<1>2. IsFiniteSet(A)
  BY <1>1, FS_Product
<1>3. IsFiniteSet((N \X N) \X Q)
  BY <1>1, FS_Product
<1>4. IsFiniteSet(N \X N \X Q)
  <2> DEFINE g == [x \in (N \X N) \X Q |-> <<x[1][1], x[1][2], x[2]>>]
  <2>1. g \in Surjection((N \X N) \X Q, N \X N \X Q)
    <3> HIDE DEF N, Q
    <3>1. \A y \in N \X N \X Q : \E x \in (N \X N) \X Q : g[x] = y
      <4> TAKE y \in N \X N \X Q
      <4>1. PICK a \in N, b \in N, c \in Q : y = <<a, b, c>>
        OBVIOUS
      <4>2. <<<<a, b>>, c>> \in (N \X N) \X Q /\ g[<<<<a, b>>, c>>] = y
        BY <4>1
      <4> QED BY <4>2
    <3>2. g \in [(N \X N) \X Q -> N \X N \X Q]
      OBVIOUS
    <3> QED BY <3>1, <3>2 DEF Surjection
  <2> HIDE DEF g, N, Q
  <2> QED BY <1>3, <2>1, FS_Surjection
<1> QED BY <1>2, <1>4, FS_Union DEF RouteKeys

(* The bound holds on as long as nothing new is shadowed but what was on     *)
(* the air when the run began.                                              *)
LEMMA ShadowShrinks ==
    ASSUME ShadowBounded, underway' = underway,
           \A o \in Relays : /\ refused'[o] \subseteq Shadowed(o)'
                             /\ Shadowed(o)' \ underway \subseteq Shadowed(o) \ underway
    PROVE  ShadowBounded'
<1>1. SUFFICES ASSUME NEW o \in Relays
               PROVE  Cardinality(Shadowed(o)' \ underway) <= SeenLimit
  BY DEF ShadowBounded
<1>2. IsFiniteSet(Shadowed(o) \ underway)
  BY ShadowFinite, FS_Difference
<1>3. /\ Cardinality(Shadowed(o)' \ underway) <= Cardinality(Shadowed(o) \ underway)
      /\ IsFiniteSet(Shadowed(o)' \ underway)
  BY <1>2, FS_Subset
<1>4. Cardinality(Shadowed(o)' \ underway) \in Nat /\ Cardinality(Shadowed(o) \ underway) \in Nat
  BY <1>2, <1>3, FS_CardinalityType
<1>5. Cardinality(Shadowed(o) \ underway) <= SeenLimit
  BY DEF ShadowBounded
<1> QED BY <1>3, <1>4, <1>5, Stationary

-----------------------------------------------------------------------------
(* Initially, and step by step. *)

LEMMA StartsInvariant == Init => IndInv
<1> SUFFICES ASSUME Init PROVE IndInv
  OBVIOUS
<1>1. rxq \in [Relays -> Seq({})] /\ \A r \in Relays : rxq[r] = <<>> /\ DOMAIN rxq[r] = {}
  BY DEF Init
<1>2. OnAir = {} /\ rxq \in [Relays -> Seq(OnAir)]
  BY <1>1, QueueElements
<1>3. TypeOK
  <2>1. seq \in [Ids -> 1 .. MaxU32] /\ turn \in 1 .. Len(Logical) /\ run \in Nat \ {0}
    BY Sizes, Stationary DEF Init
  <2>2. /\ seen \in [Relays -> Seq(RouteKeys)] /\ \A r \in Relays : Len(seen[r]) <= SeenLimit
        /\ accepted \in [Relays -> SUBSET RouteKeys] /\ refused \in [Relays -> SUBSET RouteKeys]
        /\ underway \subseteq RouteKeys
    BY Stationary DEF Init
  <2> QED BY <1>2, <2>1, <2>2 DEF TypeOK
<1>4. ShadowBounded
  <2> SUFFICES ASSUME NEW r \in Relays
               PROVE  /\ refused[r] \subseteq Shadowed(r)
                      /\ Cardinality(Shadowed(r) \ underway) <= SeenLimit
    BY DEF ShadowBounded
  <2>1. refused[r] = {} /\ seen[r] = <<>>
    BY DEF Init
  <2>2. \A k : ~Known(seen[r], k)
    BY <2>1 DEF Known
  <2>3. Shadowed(r) \ underway = {}
    BY <2>1, <2>2 DEF Shadowed
  <2>4. Cardinality(Shadowed(r) \ underway) = 0
    BY <2>3, FS_EmptySet
  <2>5. 0 <= SeenLimit
    BY Stationary
  <2> QED BY <2>1, <2>4, <2>5
<1>5. RelaysSurvive /\ (\A f \in OnAir : WellFormed(f)) /\ MeshRoutesCarried /\ HeartbeatsKnown
  BY <1>2 DEF Init, RelaysSurvive, MeshRoutesCarried, HeartbeatsKnown
<1> QED BY <1>3, <1>4, <1>5 DEF IndInv

(* A frame stays what it is while the transmitter runs on. *)
LEMMA FramesStep ==
    ASSUME NEW S, \A f \in S : FrameOK(f), OnAir' \subseteq S,
           run' = run, underway' = underway
    PROVE  (\A f \in OnAir : WellFormed(f))' /\ MeshRoutesCarried' /\ HeartbeatsKnown'
<1>1. \A f \in OnAir' : WellFormed(f) /\ Understood(f) /\ KnownHeartbeat(f)
  BY DEF FrameOK
<1>2. (\A f \in OnAir : WellFormed(f))'
  BY <1>1
<1>3. MeshRoutesCarried'
  BY <1>1 DEF MeshRoutesCarried, Understood
<1>4. HeartbeatsKnown'
  BY <1>1 DEF HeartbeatsKnown, KnownHeartbeat
<1> QED BY <1>2, <1>3, <1>4

(* Nothing is shadowed that was not, when no relay has had a frame. *)
LEMMA ShadowStays ==
    ASSUME ShadowBounded, UNCHANGED <<mesh, history>>
    PROVE  ShadowBounded'
BY DEF ShadowBounded, Shadowed, mesh, history

LEMMA HeartbeatStep == ASSUME IndInv, Heartbeat PROVE IndInv'
<1> DEFINE n == Logical[turn]
           f == BeatFrame(n)
<1>1. TypeOK /\ n \in Ids /\ turn \in 1 .. Len(Logical) /\ Len(Logical) \in Nat \ {0}
  BY Stationary DEF IndInv, TypeOK
<1>2. FrameOK(f)
  BY <1>1, BeatFrameOK
<1> HIDE DEF n, f
<1>3. Air(rxq, Transmitter, f) /\ rxq \in [Relays -> Seq(OnAir)]
  BY <1>1 DEF Heartbeat, TypeOK, n, f
<1>4. OnAir' \subseteq OnAir \union {f} /\ rxq' \in [Relays -> Seq(OnAir')]
  BY <1>3, AirElements
<1>5. UNCHANGED <<run, mesh, history>>
  BY DEF Heartbeat
<1>6. (\A g \in OnAir : WellFormed(g))' /\ MeshRoutesCarried' /\ HeartbeatsKnown'
  <2>1. \A g \in OnAir \union {f} : FrameOK(g)
    BY <1>2, FramesOK
  <2> QED BY <1>4, <1>5, <2>1, FramesStep DEF history
<1>7. seq' \in [Ids -> 1 .. MaxU32]
  <2>1. seq \in [Ids -> 1 .. MaxU32] /\ seq' = [seq EXCEPT ![n] = NextSeq(@)]
    BY DEF Heartbeat, TypeOK, IndInv, n
  <2>2. \A s \in 1 .. MaxU32 : NextSeq(s) \in 1 .. MaxU32
    BY Sizes DEF NextSeq
  <2> QED BY <1>1, <2>1, <2>2
<1>8. turn' \in 1 .. Len(Logical)
  BY <1>1 DEF Heartbeat
<1>9. TypeOK'
  BY <1>4, <1>5, <1>7, <1>8 DEF TypeOK, IndInv, mesh, history
<1>10. ShadowBounded'
  BY <1>5, ShadowStays DEF IndInv
<1> QED BY <1>5, <1>6, <1>9, <1>10 DEF IndInv, RelaysSurvive, mesh

LEMMA StrangerStep == ASSUME IndInv, StrangerSends PROVE IndInv'
<1>1. PICK f \in ForeignFrames : Air(rxq, Stranger, f)
  BY DEF StrangerSends
<1>2. FrameOK(f)
  BY ForeignFrameOK
<1>3. rxq \in [Relays -> Seq(OnAir)]
  BY DEF IndInv, TypeOK
<1>4. OnAir' \subseteq OnAir \union {f} /\ rxq' \in [Relays -> Seq(OnAir')]
  BY <1>1, <1>3, AirElements
<1>5. UNCHANGED <<seq, turn, run, mesh, history>>
  BY DEF StrangerSends
<1>6. (\A g \in OnAir : WellFormed(g))' /\ MeshRoutesCarried' /\ HeartbeatsKnown'
  <2>1. \A g \in OnAir \union {f} : FrameOK(g)
    BY <1>2, FramesOK
  <2> QED BY <1>4, <1>5, <2>1, FramesStep DEF history
<1>7. TypeOK'
  BY <1>4, <1>5 DEF TypeOK, IndInv, mesh, history
<1>8. ShadowBounded'
  BY <1>5, ShadowStays DEF IndInv
<1> QED BY <1>5, <1>6, <1>7, <1>8 DEF IndInv, RelaysSurvive, mesh

(* The keys of whatever is on the air are keys. *)
LEMMA KeysOnAirType == ASSUME IndInv PROVE KeysOnAir \subseteq RouteKeys
<1> SUFFICES ASSUME NEW f \in OnAir, f.type = Types.route_data, f.size > HeaderSize + RouteDataSize
             PROVE  <<f.payload.origin, f.payload.seq>> \in RouteKeys
  BY DEF KeysOnAir
<1>1. f.payload.origin \in 0 .. MaxU8 /\ f.payload.seq \in 0 .. MaxU32
  BY DEF IndInv, WellFormed, IsU8, IsU32
<1> QED BY <1>1 DEF RouteKeys

LEMMA RestartStep == ASSUME IndInv, Restart PROVE IndInv'
<1>1. /\ run' = run + 1 /\ run \in Nat \ {0} /\ UNCHANGED <<rxq, seen, crashed>>
      /\ underway' = KeysOnAir /\ seq' = [m \in Ids |-> 1] /\ turn' = 1
      /\ refused' = [r \in Relays |-> {}] /\ accepted' = [r \in Relays |-> {}]
  BY DEF Restart, IndInv, TypeOK, mesh
<1>2. OnAir' = OnAir
  BY <1>1 DEF OnAir
<1>3. TypeOK'
  <2>1. seq' \in [Ids -> 1 .. MaxU32] /\ turn' \in 1 .. Len(Logical) /\ run' \in Nat \ {0}
    BY <1>1, Sizes, Stationary
  <2>2. /\ rxq' \in [Relays -> Seq(OnAir')] /\ seen' \in [Relays -> Seq(RouteKeys)]
        /\ \A r \in Relays : Len(seen'[r]) <= SeenLimit
    BY <1>1, <1>2 DEF IndInv, TypeOK
  <2>3. /\ accepted' \in [Relays -> SUBSET RouteKeys] /\ refused' \in [Relays -> SUBSET RouteKeys]
        /\ underway' \subseteq RouteKeys
    BY <1>1, KeysOnAirType
  <2> QED BY <2>1, <2>2, <2>3 DEF TypeOK
<1>4. HeartbeatsKnown'
  <2> SUFFICES ASSUME NEW f \in OnAir, CarriesV1(f)
               PROVE  KnownHeartbeat(f)'
    BY <1>2 DEF HeartbeatsKnown, KnownHeartbeat
  <2>1. KnownHeartbeat(f) /\ WellFormed(f)
    BY FramesOK DEF FrameOK
  <2>2. ASSUME IsBeat(f) PROVE DedupeKey(f) \in underway'
    <3>1. f.type = Types.route_data /\ f.payload.body.size = BeatSize
      BY <2>1, <2>2 DEF KnownHeartbeat, IsBeat
    <3>2. f.size \in Nat /\ BeatSize = f.size - HeaderSize - RouteDataSize
      BY <2>1, <3>1, Sizes DEF WellFormed
    <3>3. f.size > HeaderSize + RouteDataSize
      BY <3>2, Sizes
    <3>4. DedupeKey(f) = <<f.payload.origin, f.payload.seq>>
      BY <2>1, KeyType
    <3> QED BY <1>1, <3>1, <3>3, <3>4 DEF KeysOnAir
  <2>3. \A i \in 1 .. run : i \in 1 .. run'
    BY <1>1
  <2> QED BY <2>1, <2>2, <2>3 DEF KnownHeartbeat
<1>5. (\A f \in OnAir : WellFormed(f))' /\ MeshRoutesCarried'
  BY <1>2 DEF IndInv, MeshRoutesCarried
<1>6. ShadowBounded'
  <2> SUFFICES ASSUME NEW r \in Relays
               PROVE  /\ refused'[r] \subseteq Shadowed(r)'
                      /\ Cardinality(Shadowed(r)' \ underway') <= SeenLimit
    BY DEF ShadowBounded
  <2>1. refused'[r] = {} /\ seen[r] \in Seq(RouteKeys) /\ Len(seen[r]) <= SeenLimit
    BY <1>1 DEF IndInv, TypeOK
  <2>2. \A k \in Shadowed(r)' \ underway' : Known(seen[r], k)
    BY <1>1, <2>1 DEF Shadowed
  <2>3. /\ Cardinality(Shadowed(r)' \ underway') <= Len(seen[r])
        /\ IsFiniteSet(Shadowed(r)' \ underway')
    BY <2>1, <2>2, KnownFinite
  <2>4. Cardinality(Shadowed(r)' \ underway') \in Nat
    BY <2>3, FS_CardinalityType
  <2> QED BY <2>1, <2>3, <2>4, Stationary
<1> QED BY <1>1, <1>3, <1>4, <1>5, <1>6 DEF IndInv, RelaysSurvive

(* What a step of relay r at frame f leaves to show, when it sends nothing *)
(* or sends g.                                                             *)
LEMMA QuietStep ==
    ASSUME IndInv, NEW r \in Relays, NEW f \in Waiting(r), Consume(r),
           UNCHANGED <<run, underway>>
    PROVE  /\ (\A h \in OnAir : WellFormed(h))' /\ MeshRoutesCarried' /\ HeartbeatsKnown'
           /\ rxq' \in [Relays -> Seq(OnAir')]
<1>1. Taken(r) \in [Relays -> Seq(OnAir)]
  BY TakenElements DEF IndInv
<1>2. OnAir' \subseteq OnAir /\ rxq' \in [Relays -> Seq(OnAir')]
  BY <1>1, NextQueueElements DEF Consume
<1> QED BY <1>2, FramesOK, FramesStep

LEMMA SendingStep ==
    ASSUME IndInv, NEW r \in Relays, NEW f \in Waiting(r), NEW g, FrameOK(g),
           Air(Taken(r), r, g), UNCHANGED <<run, underway>>
    PROVE  /\ (\A h \in OnAir : WellFormed(h))' /\ MeshRoutesCarried' /\ HeartbeatsKnown'
           /\ rxq' \in [Relays -> Seq(OnAir')]
<1>1. Taken(r) \in [Relays -> Seq(OnAir)]
  BY TakenElements DEF IndInv
<1>2. OnAir' \subseteq OnAir \union {g} /\ rxq' \in [Relays -> Seq(OnAir')]
  BY <1>1, AirElements
<1>3. \A h \in OnAir \union {g} : FrameOK(h)
  BY FramesOK
<1> QED BY <1>2, <1>3, FramesStep

(* Frames that are ignored or refused leave no trace in the caches. *)
LEMMA NoTraceStep ==
    ASSUME IndInv, NEW r \in Relays, NEW f \in Waiting(r), Ignore(r, f) \/ DropRefused(r, f)
    PROVE  IndInv'
<1>1. Consume(r) /\ UNCHANGED <<seq, turn, run, mesh, history>>
  BY DEF Ignore, DropRefused
<1>2. /\ (\A h \in OnAir : WellFormed(h))' /\ MeshRoutesCarried' /\ HeartbeatsKnown'
      /\ rxq' \in [Relays -> Seq(OnAir')]
  BY <1>1, QuietStep DEF history
<1>3. TypeOK'
  BY <1>1, <1>2 DEF IndInv, TypeOK, mesh, history
<1>4. ShadowBounded'
  BY <1>1, ShadowStays DEF IndInv
<1> QED BY <1>1, <1>2, <1>3, <1>4 DEF IndInv, RelaysSurvive, mesh

(* A relay's own routes have keys that are no other node's. *)
LEMMA DropOwnStep ==
    ASSUME IndInv, NEW r \in Relays, NEW f \in Waiting(r), DropOwn(r, f)
    PROVE  IndInv'
<1>1. /\ Consume(r) /\ RememberSeen(r, f) /\ UNCHANGED <<seq, turn, run, crashed, history>>
      /\ CarriesV1(f) \/ CarriesV2(f)
      /\ IsOwn(r, f)
  BY DEF DropOwn
<1>2. /\ (\A h \in OnAir : WellFormed(h))' /\ MeshRoutesCarried' /\ HeartbeatsKnown'
      /\ rxq' \in [Relays -> Seq(OnAir')]
  BY <1>1, QuietStep DEF history
<1>3. f \in OnAir /\ WellFormed(f) /\ TypeOK
  BY TakenElements DEF IndInv
<1>4. /\ DedupeKey(f) \in RouteKeys
      /\ CarriesV1(f) => DedupeKey(f) = <<r, f.payload.seq>>
      /\ CarriesV2(f) => \A S, T : DedupeKey(f) \notin S \X T
  BY <1>1, <1>3, KeyType DEF IsOwn
<1>5. /\ seen' \in [Relays -> Seq(RouteKeys)] /\ \A o \in Relays : Len(seen'[o]) <= SeenLimit
      /\ \A o \in Relays : \A k : Known(seen'[o], k) =>
            Known(seen[o], k) \/ (o = r /\ k = DedupeKey(f))
  BY <1>1, <1>3, <1>4, SeenStep
<1>6. TypeOK'
  BY <1>1, <1>2, <1>3, <1>5 DEF TypeOK, history
<1>7. ShadowBounded'
  <2> SUFFICES ASSUME NEW o \in Relays
               PROVE  /\ refused'[o] \subseteq Shadowed(o)'
                      /\ Shadowed(o)' \ underway \subseteq Shadowed(o) \ underway
    BY <1>1, ShadowShrinks DEF IndInv, history
  <2>1. \A k \in (Ids \ {r}) \X (0 .. MaxU32) : k # DedupeKey(f)
    BY <1>1, <1>4
  <2>2. refused'[o] \subseteq Shadowed(o)'
    BY <1>1 DEF IndInv, ShadowBounded, Shadowed, history
  <2>3. Shadowed(o)' \subseteq Shadowed(o)
    BY <1>1, <1>5, <2>1 DEF Shadowed, history
  <2> QED BY <2>2, <2>3
<1> QED BY <1>1, <1>2, <1>6, <1>7 DEF IndInv, RelaysSurvive

(* A heartbeat of somebody else, and where its key belongs. *)
LEMMA OthersBeat ==
    ASSUME NEW r \in Relays, NEW f, FrameOK(f), IsOthers(r, f), IsBeat(f)
    PROVE  CarriesV1(f) /\ DedupeKey(f) \in (Ids \ {r}) \X (0 .. MaxU32)
<1>1. CarriesV1(f)
  BY DEF IsOthers, IsBeat, CarriesV2, Types
<1>2. f.payload.origin \in Ids /\ f.payload.seq \in 0 .. MaxU32
  BY <1>1 DEF FrameOK, KnownHeartbeat, WellFormed, IsU32
<1>3. f.payload.origin # r
  BY <1>1 DEF IsOthers, IsOwn, CarriesV1, Types
<1>4. DedupeKey(f) = <<f.payload.origin, f.payload.seq>>
  BY <1>1, KeyType DEF FrameOK
<1> QED BY <1>1, <1>2, <1>3, <1>4

(* A relay refuses what its cache shadows already. *)
LEMMA DropDuplicateStep ==
    ASSUME IndInv, NEW r \in Relays, NEW f \in Waiting(r), DropDuplicate(r, f)
    PROVE  IndInv'
<1> DEFINE k == DedupeKey(f)
<1>1. /\ Consume(r) /\ UNCHANGED <<seq, turn, run, mesh, accepted, underway>>
      /\ IsOthers(r, f) /\ Known(seen[r], k)
      /\ refused' = IF OfThisRun(f) /\ k \notin accepted[r]
                    THEN [refused EXCEPT ![r] = @ \union {k}] ELSE refused
  BY DEF DropDuplicate
<1>2. /\ (\A h \in OnAir : WellFormed(h))' /\ MeshRoutesCarried' /\ HeartbeatsKnown'
      /\ rxq' \in [Relays -> Seq(OnAir')]
  BY <1>1, QuietStep
<1>3. f \in OnAir /\ FrameOK(f) /\ TypeOK
  BY TakenElements, FramesOK DEF IndInv
<1>4. k \in RouteKeys
  BY <1>1, <1>3, KeyType DEF IsOthers, FrameOK
<1>5. OfThisRun(f) => k \in (Ids \ {r}) \X (0 .. MaxU32)
  BY <1>1, <1>3, OthersBeat DEF OfThisRun
<1> HIDE DEF k
<1>6. refused \in [Relays -> SUBSET RouteKeys]
  BY <1>3 DEF TypeOK
<1>7. refused' \in [Relays -> SUBSET RouteKeys]
  BY <1>1, <1>4, <1>6
<1>8. TypeOK'
  BY <1>1, <1>2, <1>3, <1>7 DEF TypeOK, mesh
<1>9. ShadowBounded'
  <2> SUFFICES ASSUME NEW o \in Relays
               PROVE  /\ refused'[o] \subseteq Shadowed(o)'
                      /\ Shadowed(o)' \ underway \subseteq Shadowed(o) \ underway
    BY <1>1, ShadowShrinks DEF IndInv
  <2>1. \A x \in refused'[o] : x \in refused[o] \/
            (o = r /\ x = k /\ OfThisRun(f) /\ k \notin accepted[r])
    BY <1>1, <1>6
  <2>2. \A x \in refused[o] : x \in refused'[o]
    BY <1>1, <1>6
  <2>3. refused[o] \subseteq Shadowed(o)
    BY DEF IndInv, ShadowBounded
  <2>4. Shadowed(o)' = Shadowed(o)
    BY <1>1, <1>5, <2>1, <2>2 DEF Shadowed, mesh
  <2>5. refused'[o] \subseteq Shadowed(o)'
    BY <1>1, <1>5, <2>1, <2>3, <2>4 DEF Shadowed
  <2> QED BY <2>4, <2>5
<1> QED BY <1>1, <1>2, <1>8, <1>9 DEF IndInv, RelaysSurvive, mesh

(* Accepting a frame shadows no key but those on the air when the run began. *)
LEMMA AcceptStep ==
    ASSUME IndInv, NEW r \in Relays, NEW f \in Waiting(r), Accept(r, f),
           rxq' \in [Relays -> Seq(OnAir')]
    PROVE  TypeOK' /\ ShadowBounded'
<1> DEFINE k == DedupeKey(f)
<1>1. /\ RememberSeen(r, f) /\ UNCHANGED <<seq, turn, run, refused, underway>>
      /\ IsOthers(r, f)
      /\ accepted' = IF OfThisRun(f) THEN [accepted EXCEPT ![r] = @ \union {k}] ELSE accepted
  BY DEF Accept, IsNew
<1>2. f \in OnAir /\ FrameOK(f) /\ TypeOK
  BY TakenElements, FramesOK DEF IndInv
<1>3. /\ k \in RouteKeys
      /\ CarriesV1(f) => k = <<f.payload.origin, f.payload.seq>>
      /\ CarriesV2(f) => \A S, T : k \notin S \X T
  BY <1>1, <1>2, KeyType DEF IsOthers, FrameOK
<1>4. /\ seen' \in [Relays -> Seq(RouteKeys)] /\ \A o \in Relays : Len(seen'[o]) <= SeenLimit
      /\ \A o \in Relays : \A x : Known(seen'[o], x) => Known(seen[o], x) \/ (o = r /\ x = k)
  BY <1>1, <1>2, <1>3, SeenStep
<1>5. accepted \in [Relays -> SUBSET RouteKeys]
  BY <1>2 DEF TypeOK
<1>6. ASSUME k \in (Ids \ {r}) \X (0 .. MaxU32)
      PROVE  k \in accepted'[r] \/ k \in underway
  <2>1. CarriesV1(f) /\ f.payload.origin \in Ids
    BY <1>1, <1>3, <1>6 DEF IsOthers
  <2>2. IsBeat(f) /\ (f.payload.body.run # run => k \in underway)
    BY <1>2, <2>1 DEF FrameOK, KnownHeartbeat
  <2> QED BY <1>1, <1>5, <2>2 DEF OfThisRun
<1> HIDE DEF k
<1>7. accepted' \in [Relays -> SUBSET RouteKeys]
  BY <1>1, <1>3, <1>5
<1>8. TypeOK'
  BY <1>1, <1>2, <1>4, <1>7 DEF TypeOK
<1>9. ShadowBounded'
  <2> SUFFICES ASSUME NEW o \in Relays
               PROVE  /\ refused'[o] \subseteq Shadowed(o)'
                      /\ Shadowed(o)' \ underway \subseteq Shadowed(o) \ underway
    BY <1>1, ShadowShrinks DEF IndInv
  <2>1. refused'[o] \subseteq Shadowed(o)'
    BY <1>1 DEF IndInv, ShadowBounded, Shadowed
  <2>2. accepted[o] \subseteq accepted'[o]
    BY <1>1, <1>5
  <2>3. \A x \in (Ids \ {o}) \X (0 .. MaxU32) :
           Known(seen'[o], x) /\ x \notin accepted'[o] =>
              (Known(seen[o], x) /\ x \notin accepted[o]) \/ x \in underway
    BY <1>4, <1>6, <2>2
  <2>4. Shadowed(o)' \ underway \subseteq Shadowed(o) \ underway
    BY <1>1, <2>3 DEF Shadowed
  <2> QED BY <2>1, <2>4
<1> QED BY <1>8, <1>9

LEMMA AcceptLastStep ==
    ASSUME IndInv, NEW r \in Relays, NEW f \in Waiting(r), AcceptLast(r, f)
    PROVE  IndInv'
<1>1. Accept(r, f) /\ Consume(r) /\ UNCHANGED <<run, underway, crashed>>
  BY DEF AcceptLast, Accept
<1>2. /\ (\A h \in OnAir : WellFormed(h))' /\ MeshRoutesCarried' /\ HeartbeatsKnown'
      /\ rxq' \in [Relays -> Seq(OnAir')]
  BY <1>1, QuietStep
<1>3. TypeOK' /\ ShadowBounded'
  BY <1>1, <1>2, AcceptStep
<1> QED BY <1>1, <1>2, <1>3 DEF IndInv, RelaysSurvive

(* The forward path raises nothing, and what it sends is understood. *)
LEMMA AcceptAndForwardStep ==
    ASSUME IndInv, NEW r \in Relays, NEW f \in Waiting(r), AcceptAndForward(r, f)
    PROVE  IndInv'
<1> DEFINE g == ForwardFrame(r, f.type, ForwardRoute(r, f))
<1>1. /\ Accept(r, f) /\ f.payload.ttl > 0 /\ UNCHANGED <<run, underway>>
      /\ IF ForwardSucceeds(r, f.type, ForwardRoute(r, f), g)
         THEN Air(Taken(r), r, g) /\ UNCHANGED crashed
         ELSE Consume(r) /\ crashed' = crashed \union {r}
  BY DEF AcceptAndForward, Accept
<1>2. FrameOK(f) /\ (CarriesV1(f) \/ CarriesV2(f)) /\ ~Refuses(r, f)
  BY <1>1, TakenElements, FramesOK DEF IndInv, Accept, IsNew, IsOthers
<1>3. ForwardSucceeds(r, f.type, ForwardRoute(r, f), g) /\ FrameOK(g)
  BY <1>1, <1>2, ForwardV1OK, ForwardV2OK
<1> HIDE DEF g
<1>4. /\ (\A h \in OnAir : WellFormed(h))' /\ MeshRoutesCarried' /\ HeartbeatsKnown'
      /\ rxq' \in [Relays -> Seq(OnAir')]
  BY <1>1, <1>3, SendingStep
<1>5. TypeOK' /\ ShadowBounded'
  BY <1>1, <1>4, AcceptStep
<1> QED BY <1>1, <1>3, <1>4, <1>5 DEF IndInv, RelaysSurvive

LEMMA Stutter == ASSUME IndInv, UNCHANGED vars PROVE IndInv'
<1>1. OnAir' = OnAir
  BY DEF OnAir, vars
<1>2. TypeOK'
  BY <1>1 DEF IndInv, TypeOK, vars, mesh, history
<1>3. (\A f \in OnAir : WellFormed(f))' /\ MeshRoutesCarried' /\ HeartbeatsKnown'
  BY <1>1, FramesOK, FramesStep DEF vars, history
<1>4. ShadowBounded'
  BY ShadowStays DEF IndInv, vars
<1> QED BY <1>2, <1>3, <1>4 DEF IndInv, RelaysSurvive, vars, mesh

LEMMA StepKeepsInvariant == IndInv /\ [Next]_vars => IndInv'
<1> SUFFICES ASSUME IndInv, [Next]_vars PROVE IndInv'
  OBVIOUS
<1>1. CASE Heartbeat
  BY <1>1, HeartbeatStep
<1>2. CASE Restart
  BY <1>2, RestartStep
<1>3. CASE StrangerSends
  BY <1>3, StrangerStep
<1>4. ASSUME NEW r \in Relays, Receive(r) PROVE IndInv'
  <2>1. PICK f \in Waiting(r) : \/ Ignore(r, f) \/ DropOwn(r, f) \/ DropDuplicate(r, f)
                               \/ DropRefused(r, f) \/ AcceptLast(r, f)
                               \/ AcceptAndForward(r, f)
    BY <1>4 DEF Receive
  <2> QED BY <2>1, NoTraceStep, DropOwnStep, DropDuplicateStep, AcceptLastStep,
             AcceptAndForwardStep
<1>5. CASE UNCHANGED vars
  BY <1>5, Stutter
<1> QED BY <1>1, <1>2, <1>3, <1>4, <1>5 DEF Next

-----------------------------------------------------------------------------

(* The invariant of the whole path: whatever is on the air is well formed    *)
(* and understood, no relay has ended, and the keys that shadow a run's     *)
(* heartbeats fit the cache or were on the air when it began.               *)
THEOREM StatusInvariance == Spec => []IndInv
<1> QED BY StartsInvariant, StepKeepsInvariant, PTL DEF Spec

(* No frame that a station of the stream can send ends a relay's loop: all   *)
(* that the decoders let through the encoders and the radio take             *)
(* (mesh_txrx.py:2398-2415 and 2568-2590).                                  *)
THEOREM RelaysNeverCrash == Spec => []RelaysSurvive
<1>1. IndInv => RelaysSurvive
  BY DEF IndInv
<1> QED BY <1>1, StatusInvariance, PTL

(* Every route that the transmitter and the relays send decodes at the      *)
(* relays, opens for those that share the key, and is noted by the base: a   *)
(* heartbeat by its own origin and relay, the rest unless it is a malformed  *)
(* sync of a stranger's (app_proto.py:398-489, mesh_txrx.py:1616,           *)
(* dashboard_server.py:657-713).                                            *)
THEOREM FramesUnderstood == Spec => []MeshFramesUnderstood
<1>1. ASSUME IndInv PROVE MeshFramesUnderstood
  <2>1. MeshRoutesCarried
    BY <1>1 DEF IndInv
  <2>2. ASSUME NEW f \in OnAir, f.sender \in Relays \union {Sender}, f.type \in NestedRoutes
        PROVE  BaseNotes(f)
    <3>1. CarriesV1(f) \/ CarriesV2(f)
      BY <1>1, <2>1, <2>2 DEF MeshRoutesCarried
    <3>2. f.sender # 0
      BY <3>1 DEF CarriesV1, CarriesV2, FrameDecodes
    <3>3. /\ Types.route_v2 # Types.route_data /\ Types.sync # Types.status
          /\ Types.route_v2 # Types.sync
      BY DEF Types
    <3>4. CASE CarriesV2(f)
      <4>1. FrameDecodes(f) /\ f.type = Types.route_v2
        BY <3>4 DEF CarriesV2
      <4>2. Observation(f).origin = f.sender
        BY <3>3, <4>1 DEF Observation
      <4>3. Observation(f) # NoOne
        BY <3>2, <4>2 DEF NoOne
      <4>4. ~IsBeat(f)
        BY <3>3, <4>1 DEF IsBeat
      <4> QED BY <4>3, <4>4 DEF BaseNotes
    <3>5. CASE CarriesV1(f)
      <4> DEFINE seen1 == [origin |-> f.payload.origin, via |-> f.sender,
                           run |-> RunOf(f.payload.body)]
      <4>1. /\ FrameDecodes(f) /\ f.type = Types.route_data
            /\ RouteDecodes(f.payload) /\ f.payload.origin # 0
        BY <3>5 DEF CarriesV1, RouteDecodes
      <4>2. Observation(f) = IF f.payload.inner = Types.sync => SyncDecodes(f.payload.body)
                             THEN seen1 ELSE NoOne
        BY <4>1 DEF Observation
      <4>3. /\ IsBeat(f) <=> f.payload.origin \in Ids
            /\ IsBeat(f) => f.payload.inner = Types.status
        BY <1>1, <2>2, <3>5 DEF IndInv, HeartbeatsKnown
      <4>4. seen1 # NoOne
        BY <4>1 DEF NoOne
      <4>5. IsBeat(f) => Observation(f) = seen1
        BY <3>3, <4>2, <4>3
      <4> HIDE DEF seen1
      <4>6. Observation(f) = NoOne => f.payload.inner = Types.sync /\ ~SyncDecodes(f.payload.body)
        BY <4>2, <4>4
      <4>7. Observation(f) = NoOne => f.payload.origin \notin Ids
        BY <4>3, <4>4, <4>5
      <4> QED BY <4>1, <4>5, <4>6, <4>7 DEF BaseNotes, seen1
    <3> QED BY <3>1, <3>4, <3>5
  <2> QED BY <2>1, <2>2 DEF MeshFramesUnderstood
<1> QED BY <1>1, StatusInvariance, PTL

(* A restart of the transmitter silences it at a relay for as many           *)
(* heartbeats at most as the relay's cache has places, and were on the air  *)
(* (node_status_tx.py:36, mesh_txrx.py:2448).                               *)
THEOREM RestartOutageBounded == Spec => []OutageBounded
<1>1. ASSUME IndInv PROVE OutageBounded
  <2> SUFFICES ASSUME NEW r \in Relays
               PROVE  Cardinality(refused[r]) <= SeenLimit + Cardinality(underway)
    BY DEF OutageBounded
  <2> DEFINE S == Shadowed(r) \ underway
             R == refused[r]
  <2>1. /\ R \subseteq Shadowed(r) /\ Cardinality(S) <= SeenLimit /\ underway \subseteq RouteKeys
    BY <1>1 DEF IndInv, ShadowBounded, TypeOK
  <2>2. IsFiniteSet(underway) /\ Cardinality(underway) \in Nat
    BY <2>1, KeysFinite, FS_Subset, FS_CardinalityType
  <2>3. IsFiniteSet(S) /\ Cardinality(S) \in Nat
    BY ShadowFinite, FS_Difference, FS_CardinalityType
  <2>4. /\ IsFiniteSet(S \union underway) /\ IsFiniteSet(S \intersect underway)
        /\ Cardinality(S \union underway)
            = Cardinality(S) + Cardinality(underway) - Cardinality(S \intersect underway)
    BY <2>2, <2>3, FS_Union, FS_Intersection
  <2>5. R \in SUBSET (S \union underway)
    BY <2>1
  <2> HIDE DEF S, R
  <2>6. Cardinality(R) <= Cardinality(S \union underway) /\ IsFiniteSet(R)
    BY <2>4, <2>5, FS_Subset
  <2>7. Cardinality(R) \in Nat /\ Cardinality(S \intersect underway) \in Nat
    BY <2>4, <2>6, FS_CardinalityType
  <2> QED BY <2>1, <2>2, <2>3, <2>4, <2>6, <2>7, Stationary DEF R
<1> QED BY <1>1, StatusInvariance, PTL
=============================================================================
