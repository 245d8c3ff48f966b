---------------------------- MODULE MCCoordinator ----------------------------
(***************************************************************************)
(* Coordinator for TLC: an event queue of three entries overflows after a  *)
(* disconnection (two signals) behind two other ones.                      *)
(***************************************************************************)
EXTENDS Coordinator
=============================================================================
