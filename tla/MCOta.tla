-------------------------------- MODULE MCOta --------------------------------
(***************************************************************************)
(* Ota for TLC: two connections ask for updates while they, the version    *)
(* check and the download are under way.                                   *)
(***************************************************************************)
EXTENDS Ota
=============================================================================
