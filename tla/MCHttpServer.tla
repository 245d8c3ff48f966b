----------------------------- MODULE MCHttpServer -----------------------------
(***************************************************************************)
(* HttpServer for TLC.  Requests of one and of three pieces, and of three  *)
(* pieces with the header cut after the first.                             *)
(***************************************************************************)
EXTENDS HttpServer

RequestShapes == {<<1, 1>>, <<3, 1>>, <<3, 2>>}
WholeHeaders  == {<<1, 1>>, <<3, 1>>}
===============================================================================
