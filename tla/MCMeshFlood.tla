---------------------------- MODULE MCMeshFlood ----------------------------
(* Small meshes for TLC. *)
EXTENDS MeshFlood, FiniteSets, FiniteSetsExt, TLC

CONSTANTS n1, n2, n3, n4, k1, k2

(***************************************************************************)
(* Topologies: a square with one node at each corner; a triangle whose     *)
(* first node does not hear the third: n1's routes come to n3 directly and *)
(* by way of n2, which also sends them back to n1.                         *)
(***************************************************************************)
Square == n1 :> {n2, n3} @@ n2 :> {n1, n4} @@ n3 :> {n1, n4} @@ n4 :> {n2, n3}

Echo == n1 :> {n2, n3} @@ n2 :> {n1, n3} @@ n3 :> {n2}

(* The nodes at most d links from o, and the distances that follow. *)
Ball(o) ==
    LET b[d \in Nat] == IF d = 0 THEN {o} ELSE b[d - 1] \union UNION {Links[n] : n \in b[d - 1]}
    IN  b
Distances ==
    [o \in Nodes |-> [n \in Nodes |->
        IF \E d \in 0..Cardinality(Nodes) : n \in Ball(o)[d]
        THEN Min({d \in 0..Cardinality(Nodes) : n \in Ball(o)[d]})
        ELSE Cardinality(Nodes)]]

(* The same distances for Echo, in a form that is cheap to evaluate. *)
EchoDist ==
    [o \in Nodes |-> [n \in Nodes |->
        IF o = n THEN 0 ELSE IF o = n3 /\ n = n1 THEN 2 ELSE 1]]

(* Configurations. *)
TtlOneToThree == [n \in Nodes |-> IF n = n3 THEN 0 ELSE 1]
TtlTwo == [n \in Nodes |-> 2]
KeylessN2 == [n \in Nodes |-> IF n = n2 THEN NoKey ELSE k1]
E2EFromN1 == [n \in Nodes |-> IF n = n1 THEN k2 ELSE NoKey]
RingOfN3 == [n \in Nodes |-> IF n = n3 THEN {k2} ELSE {}]
RingOfN4 == [n \in Nodes |-> IF n = n4 THEN {k2} ELSE {}]

Says(n, kind, dest) == [origin |-> n, kind |-> kind, dest |-> dest]

MixedTraffic ==
    {Says(n1, "data", Broadcast), Says(n1, "v2", n3), Says(n3, "sync", Broadcast)}
CoverTraffic ==
    {Says(n1, "data", Broadcast), Says(n1, "v2", n4), Says(n3, "sync", Broadcast)}
=============================================================================
