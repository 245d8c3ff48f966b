------------------------------ MODULE MCHttpClient ------------------------------
(***************************************************************************)
(* HttpClient for TLC: three clients at three addresses, so that each of   *)
(* the two tables of two entries can be full while a third client asks,    *)
(* and an address whose client gave up can be given again.                 *)
(***************************************************************************)
EXTENDS HttpClient

=================================================================================
