------------------------------ MODULE AppProto ------------------------------
(***************************************************************************)
(* The application protocol's codec (app_proto.py), as the facts about it  *)
(* that a relay's life depends on: which packets a decoder takes, which    *)
(* ones an encoder refuses, and how long what it builds is.                *)
(*                                                                         *)
(* A packet is a record of its header fields, its number of bytes (`size`)  *)
(* and its payload, another packet.  The length a header states (`len`)     *)
(* and the length there is are different fields: a foreign frame may say    *)
(* what it likes.  A packet shorter than its header has no further fields.  *)
(***************************************************************************)
EXTENDS Naturals

CONSTANT MaxU32  \* MAX_U32 of the code, scaled down

MaxU8 == 255
MaxU16 == 65535
HeaderSize == 10        \* !BBBBIH
RouteDataSize == 10     \* !BBBIBH
RouteV2Size == 14       \* !BBBBBBIBBH
SyncSize == 18          \* !QIHI
SecureSize == 20        \* !BBHI12s
TagSize == 16

Types == [hello |-> 1, text |-> 2, data |-> 3, status |-> 4, sync |-> 5,
          route_data |-> 33, route_v2 |-> 34]
KnownTypes == {1, 2, 3, 4, 5, 33, 34}
NestedRoutes == {Types.route_data, Types.route_v2}

Addr == [broadcast |-> 0, node |-> 1, c2 |-> 2]
KnownClasses == 1 .. 5
KnownDomains == 1 .. 6

IsU8(v)  == v \in 0 .. MaxU8
IsU16(v) == v \in 0 .. MaxU16
IsU32(v) == v \in 0 .. MaxU32

-----------------------------------------------------------------------------
(* The frame. *)

FrameEncodes(sender, type, seq, payload) ==
    /\ sender # 0 /\ IsU8(sender)
    /\ IsU8(type)
    /\ IsU32(seq)
    /\ payload.size <= MaxU16

Frame(sender, type, seq, payload) ==
    [size |-> HeaderSize + payload.size, version |-> 1, type |-> type,
     sender |-> sender, seq |-> seq, len |-> payload.size, payload |-> payload]

FrameDecodes(f) ==
    /\ f.size >= HeaderSize
    /\ f.version = 1
    /\ f.sender # 0
    /\ f.len = f.size - HeaderSize
    /\ f.type \in KnownTypes

-----------------------------------------------------------------------------
(* route_data. *)

(* An encoder as strict about types as encode_route_v2_payload. *)
RouteEncodesNoNesting(r) ==
    /\ r.origin # 0 /\ IsU8(r.origin)
    /\ IsU8(r.dest)
    /\ IsU8(r.ttl)
    /\ IsU32(r.seq)
    /\ r.inner \notin NestedRoutes /\ IsU8(r.inner)
    /\ r.body.size <= MaxU16

(* encode_route_data_payload: any other type may be carried, a nested        *)
(* route_v2 and types nobody knows as well.                                 *)
RouteEncodes(r) ==
    /\ r.origin # 0 /\ IsU8(r.origin)
    /\ IsU8(r.dest)
    /\ IsU8(r.ttl)
    /\ IsU32(r.seq)
    /\ r.inner # Types.route_data /\ IsU8(r.inner)
    /\ r.body.size <= MaxU16

RoutePayload(r) ==
    [size |-> RouteDataSize + r.body.size, origin |-> r.origin, dest |-> r.dest,
     ttl |-> r.ttl, seq |-> r.seq, inner |-> r.inner, len |-> r.body.size,
     body |-> r.body]

RouteDecodes(p) ==
    /\ p.size >= RouteDataSize
    /\ p.origin # 0
    /\ p.len = p.size - RouteDataSize
    /\ p.inner # Types.route_data
    /\ p.inner \in KnownTypes

(* decremented_ttl of both routes; at ttl 0 the code raises. *)
Decremented(r) == [r EXCEPT !.ttl = @ - 1]

-----------------------------------------------------------------------------
(* route_v2. *)

OriginValid(type, id) == type \in {Addr.node, Addr.c2} /\ IsU8(id) /\ id # 0

DestinationValid(type, id) ==
    /\ type \in {Addr.broadcast, Addr.node, Addr.c2}
    /\ IsU8(id)
    /\ id = 0 <=> type = Addr.broadcast

RouteV2Encodes(r) ==
    /\ OriginValid(r.originType, r.origin)
    /\ DestinationValid(r.destType, r.dest)
    /\ IsU8(r.ttl)
    /\ IsU32(r.seq)
    /\ IsU8(r.class)
    /\ r.inner \notin NestedRoutes /\ IsU8(r.inner)
    /\ r.body.size <= MaxU16

RouteV2Payload(r) ==
    [size |-> RouteV2Size + r.body.size, version |-> 1,
     originType |-> r.originType, origin |-> r.origin,
     destType |-> r.destType, dest |-> r.dest, ttl |-> r.ttl, seq |-> r.seq,
     class |-> r.class, inner |-> r.inner, len |-> r.body.size, body |-> r.body]

RouteV2Decodes(p) ==
    /\ p.size >= RouteV2Size
    /\ p.version = 1
    /\ OriginValid(p.originType, p.origin)
    /\ DestinationValid(p.destType, p.dest)
    /\ p.class \in KnownClasses
    /\ p.len = p.size - RouteV2Size
    /\ p.inner \notin NestedRoutes
    /\ p.inner \in KnownTypes

-----------------------------------------------------------------------------
(* Envelopes.  What the key authenticates besides the plaintext is the       *)
(* envelope's own header and the associated data.                           *)

SecureDecodes(p) ==
    /\ p.size >= SecureSize + TagSize
    /\ p.version = 1
    /\ p.domain \in KnownDomains

(* _secure_route_aad: all of the route, the ttl of the hop included. *)
RouteAad(r, plain) ==
    [origin |-> r.origin, dest |-> r.dest, ttl |-> r.ttl, seq |-> r.seq,
     inner |-> r.inner, len |-> plain.size]

Secure(key, plain, aad) ==
    [size |-> SecureSize + plain.size + TagSize, form |-> "sealed", version |-> 1,
     domain |-> 1, key |-> key, aad |-> aad, plain |-> plain]

(* The tag checks: the same key, which stands for its domain, id and epoch   *)
(* as well, and the same associated data.                                   *)
SecureOpens(p, key, aad) == p.key = key /\ p.aad = aad

-----------------------------------------------------------------------------
(* The payload of fixed size that the dashboard decodes. *)

SyncDecodes(p) == p.size = SyncSize
=============================================================================
