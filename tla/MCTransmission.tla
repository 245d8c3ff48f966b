---------------------------- MODULE MCTransmission ----------------------------
(***************************************************************************)
(* The transmission layer and the queue that it keeps waiting pieces in,   *)
(* side by side: a behaviour is about one of them, and part tells which.   *)
(***************************************************************************)
EXTENDS MCHttpSend, Queue

VARIABLE part

TransmissionInit ==
  /\ part \in {"send", "queue"}
  /\ Init /\ QueueInit
  /\ part # "queue" => qheap /\ qcursor = 0 /\ \A i \in QPlaces : qcontent[i] = "NULL"

TransmissionNext ==
  /\ UNCHANGED part
  /\ \/ part = "send" /\ Next /\ UNCHANGED queueVars
     \/ part = "queue" /\ QueueNext /\ UNCHANGED vars

TransmissionSpec == TransmissionInit /\ [][TransmissionNext]_<<part, vars, queueVars>>
===============================================================================
