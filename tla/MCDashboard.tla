---------------------------- MODULE MCDashboard -----------------------------
(* The dashboard for TLC: a simulated relay and the node behind it, and a   *)
(* node heard by radio, directly and through a relay that has the id of the *)
(* simulated one; one feed alone, or the two together.                      *)
EXTENDS Dashboard, TLC

CONSTANTS n2, n3
MCSimOrder == <<n2, n3>>

(* The two together count no further than they need to meet. *)
MCWrap     == {"sim"} :> 3 @@ {"radio"} :> 4 @@ {"sim", "radio"} :> 1
MCMaxHeard == {"sim"} :> 0 @@ {"radio"} :> 3 @@ {"sim", "radio"} :> 1
MCSources  == DOMAIN MCWrap
=============================================================================
