-------------------------------- MODULE MCLive --------------------------------
(***************************************************************************)
(* The transmission layer as it goes on, and the list that the jobs and    *)
(* the incomplete messages are kept in, side by side: a behaviour is about *)
(* one of them, and part tells which.  Fairness is asked of the behaviours *)
(* that are about the transmission.                                        *)
(***************************************************************************)
EXTENDS MCHttpSend, List

VARIABLE part

LiveInit == part \in {"send", "list"} /\ Init /\ ListInit

LiveNext ==
  /\ UNCHANGED part
  /\ \/ part = "send" /\ Next /\ UNCHANGED listVars
     \/ part = "list" /\ ListNext /\ UNCHANGED vars

LiveFairness == WF_vars(part = "send" /\ RunTask) /\ WF_vars(part = "send" /\ Timeout)
LiveSpec == LiveInit /\ [][LiveNext]_<<part, vars, listVars>> /\ LiveFairness
===============================================================================
