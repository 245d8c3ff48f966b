---------------------------- MODULE ClientContract ----------------------------
(***************************************************************************)
(* What the users of Http_clt may rely on (espbot_http_client.hpp, ota.cpp *)
(* and app_test.cpp): a client that connects calls back, then its request  *)
(* is answered by a second call, whatever the server does; after either    *)
(* call the user is done with it.  A request that finds no heap is never   *)
(* called back: its client stays silent.                                   *)
(***************************************************************************)
CONSTANT Clients

VARIABLE client   \* "none", "connecting", "waiting" for an answer or "mute"

Init == client = [c \in Clients |-> "none"]

Becomes(c, from, to) == client[c] = from /\ client' = [client EXCEPT ![c] = to]

Connect(c)  == Becomes(c, "none", "connecting")
Ask(c)      == Becomes(c, "connecting", "waiting") \/ Becomes(c, "connecting", "mute")
CallBack(c) == Becomes(c, "connecting", "none") \/ Becomes(c, "waiting", "none")
Reboot      == client' = [c \in Clients |-> "none"]

Next == Reboot \/ \E c \in Clients : Connect(c) \/ Ask(c) \/ CallBack(c)

Spec == Init /\ [][Next]_client

\* Whoever connects or waits for an answer is called back.
CalledBack == \A c \in Clients :
                /\ client[c] = "connecting" ~> client[c] # "connecting"
                /\ client[c] = "waiting" ~> client[c] # "waiting"
===============================================================================
