------------------------------ MODULE MCRequests ------------------------------
(***************************************************************************)
(* What becomes of a request, side by side: the server puts its pieces     *)
(* together, routes save a configuration or set the clock.  A behaviour is *)
(* about one of them, and part tells which.                                *)
(***************************************************************************)
EXTENDS MCHttpServer, Config, Clock, TLC

VARIABLE part

RequestsInit ==
  /\ part \in {"server", "config", "clock"}
  /\ Init /\ ConfigInit /\ ClockInit
  /\ part # "config" => subject = "mdns"

RequestsNext ==
  /\ UNCHANGED part
  /\ \/ part = "server" /\ Next /\ UNCHANGED <<configVars, clockVars>>
     \/ part = "config" /\ ConfigNext /\ UNCHANGED <<vars, clockVars>>
     \/ part = "clock" /\ ClockNext /\ UNCHANGED <<vars, configVars>>

RequestsSpec == RequestsInit /\ [][RequestsNext]_<<part, vars, configVars, clockVars>>
Symmetry == Permutations(Conns)
===============================================================================
