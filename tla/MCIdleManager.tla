--------------------------- MODULE MCIdleManager ---------------------------
(* Instances of IdleManager for TLC. *)
EXTENDS IdleManager

CONSTANTS locker, blanker
=============================================================================
