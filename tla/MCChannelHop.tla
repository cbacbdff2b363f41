---------------------------- MODULE MCChannelHop ----------------------------
(* Two nodes for TLC, one of them a gateway whose clock is behind; the second *)
(* and third slot share a channel, and the epoch lies after the start.       *)
EXTENDS ChannelHop, TLC

CONSTANTS n1, gw
MCSkew     == n1 :> 1 @@ gw :> 0
MCChannels == <<36, 40, 40>>

(* The slot and the guard of the run are long enough for its nodes. *)
ASSUME SlotsLongEnough /\ GuardLongEnough
=============================================================================
