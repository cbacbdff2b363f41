---------------------------- MODULE MCLinkHealth ----------------------------
(* The link-health tracker of a node that hears two peers, and itself. *)
EXTENDS LinkHealth

CONSTANTS me, p1, p2
=============================================================================
