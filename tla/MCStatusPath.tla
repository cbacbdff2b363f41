---------------------------- MODULE MCStatusPath ----------------------------
EXTENDS StatusPath

(* Transmitter 1 with a simulated node 11; relay 1 is the mesh node of the
   same host, under the same id; relay 2 is a node in the middle; relay 3 has
   no transmitter near it, but a mesh key.  The stranger reaches relays 2 and 3,
   the base hears the relays only. *)
MCLogical == <<1, 11>>
MCRelays == {1, 2, 3}
MCHears ==
    [x \in Stations |->
        CASE x = Transmitter -> {1, 2}
          [] x = 1 -> {2, Base}
          [] x = 2 -> {1, Base}
          [] x = 3 -> {2, Base}
          [] OTHER -> {2, 3}]
KeyAt3 == [r \in MCRelays |-> IF r = 3 THEN "mesh key" ELSE NoKey]

Text(n) == [size |-> n, form |-> "text", version |-> 116, run |-> 0]

(* A route_data frame of node 9, and the ways in which it may be odd. *)
Route9 == [origin |-> 9, dest |-> 0, ttl |-> 1, seq |-> 1, inner |-> Types.text,
           body |-> Text(4)]
Routed(route) == Frame(9, Types.route_data, 0, RoutePayload(route))
SealedFor(route) ==
    [route EXCEPT !.body = Secure("mesh key", route.body, RouteAad(route, route.body))]
RouteV29 == [originType |-> Addr.c2, origin |-> 9, destType |-> Addr.node, dest |-> 2,
             ttl |-> 1, seq |-> 1, class |-> 3, inner |-> Types.data,
             body |-> [size |-> 40, form |-> "sealed", version |-> 1, domain |-> 4, run |-> 0]]
RoutedV2(route) == Frame(9, Types.route_v2, 0, RouteV2Payload(route))
Full == MaxPayload - HeaderSize - RouteDataSize

MCForeign ==
    { Routed(Route9),
      [Routed(Route9) EXCEPT !.version = 2],
      [Routed(Route9) EXCEPT !.len = @ + 1],
      [Routed(Route9) EXCEPT !.payload.origin = 0],
      Routed([Route9 EXCEPT !.inner = Types.route_v2]),
      Routed([Route9 EXCEPT !.inner = 99]),
      Routed([Route9 EXCEPT !.ttl = 2]),
      Routed([Route9 EXCEPT !.body = Text(Full), !.dest = MaxU8]),
      Routed([Route9 EXCEPT !.body = Text(0), !.ttl = 0]),
      Routed([Route9 EXCEPT !.inner = Types.sync, !.body = Text(SyncSize - 1)]),
      Routed(SealedFor(Route9)),
      Routed([SealedFor([Route9 EXCEPT !.ttl = 2]) EXCEPT !.ttl = 1]),
      Routed(SealedFor([Route9 EXCEPT !.body = Text(Full - SecureSize - TagSize)])),
      Frame(9, Types.route_data, 0, [size |-> 3]),
      Frame(9, Types.text, 0, Text(4)),
      RoutedV2(RouteV29),
      RoutedV2([RouteV29 EXCEPT !.origin = 2, !.originType = Addr.node]),
      RoutedV2([RouteV29 EXCEPT !.destType = Addr.broadcast]),
      RoutedV2([RouteV29 EXCEPT !.body = [@ EXCEPT !.size = 35]]) }
=============================================================================
