------------------------------ MODULE MCC2Uplink ------------------------------
(* Two nodes and their gateways for TLC. *)
EXTENDS C2Uplink, TLC

CONSTANTS k1, k2

(* The server has k1 only: what node 2 sends is rejected when it uses k2. *)
SameKey == [o \in Origins |-> k1]
OneUnknown == [o \in Origins |-> IF o = 1 THEN k1 ELSE k2]
=============================================================================
