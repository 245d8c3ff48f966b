------------------------------ MODULE MCAnswers -------------------------------
(***************************************************************************)
(* What becomes of an answer, side by side: the client puts its pieces     *)
(* together, the parser reads what it says.  A behaviour is about one of   *)
(* them, and part tells which.  The client's fairness is asked of the      *)
(* behaviours that are about the client.                                   *)
(***************************************************************************)
EXTENDS MCHttpClient, MCJson

VARIABLE part

AnswersInit ==
  /\ part \in {"client", "json"} /\ Init /\ JsonInit
  /\ part # "json" => text = <<"{", "}">>

AnswersNext ==
  /\ UNCHANGED part
  /\ \/ part = "client" /\ Next /\ UNCHANGED jsonVars
     \/ part = "json" /\ JsonNext /\ UNCHANGED vars

AnswersFairness ==
  \A c \in Clients : /\ WF_vars(part = "client" /\ http_clt_connect_timeout(c))
                     /\ WF_vars(part = "client" /\ http_clt_send_req_timeout_function(c))
AnswersSpec == AnswersInit /\ [][AnswersNext]_<<part, vars, jsonVars>> /\ AnswersFairness
===============================================================================
