--------------------------- MODULE HttpClient_proofs ---------------------------
(***************************************************************************)
(* Theorems about HttpClient for every number of clients, every capacity   *)
(* of its two tables and every length of the responses; and, in the second *)
(* part, about Json, the reader of what they bring: for every text, every  *)
(* damage to it, every name and every index.                               *)
(***************************************************************************)
EXTENDS HttpClient, Json, FiniteSetTheorems, SequenceTheorems, WellFoundedInduction, TLAPS

USE ClientConstants

-----------------------------------------------------------------------------
\* What becomes of the client at c when a piece of its response is received.
Handled(c) == \E parts, n, i : Ready(c, parts, n, i)
WaitsOn(c) == (\E n \in Sizes : Waits(c, n)) /\ spoiled' \in {spoiled, spoiled \cup {c}}

\* A failed allocation is counted up to its bound.
LEMMA Faults == ASSUME faults \in 0..MaxFaults, HeapHolds \/ HeapFails
                PROVE  faults' \in 0..MaxFaults
  BY DEF HeapHolds, HeapFails

\* http_client_recv either calls the user, or goes on waiting, or reads from NULL.
LEMMA Received ==
  ASSUME NEW c \in Clients, NEW parts, NEW whole \in BOOLEAN, NEW n \in Sizes, NEW i,
         faults \in 0..MaxFaults, Message(c, parts, whole, n, i)
  PROVE  \/ Restart
         \/ Handled(c) /\ faults' \in 0..MaxFaults
         \/ WaitsOn(c) /\ faults' \in 0..MaxFaults
<1>1. CASE whole /\ HeapHolds /\ Ready(c, parts, n, i)
  BY <1>1, Faults DEF Handled
<1>2. CASE ~whole /\ http_save_pending_response(c, parts, n, i) /\ Waits(c, n)
  <2>1. (HeapHolds \/ HeapFails) /\ spoiled' \in {spoiled, spoiled \cup {c}}
    BY <1>2 DEF http_save_pending_response
  <2> QED
    BY <1>2, <2>1, Faults DEF WaitsOn
<1>3. CASE HeapFails /\ Ready(c, <<>>, n, i)
  BY <1>3, Faults DEF Handled
<1>4. CASE HeapFails /\ spoiled' = spoiled \cup {c} /\ Waits(c, n)
  BY <1>4, Faults DEF WaitsOn
<1>5. CASE Restart
  BY <1>5
<1> QED
  BY <1>1, <1>2, <1>3, <1>4, <1>5 DEF Message, ParseFails

LEMMA PieceReceived ==
  ASSUME NEW c \in Clients, ClientTypes, FirstPiece(c) \/ NextPiece(c)
  PROVE  /\ status[c] = "WAITING_RESPONSE"
         /\ \/ Restart
            \/ Handled(c) /\ faults' \in 0..MaxFaults
            \/ WaitsOn(c) /\ faults' \in 0..MaxFaults
<1> faults \in 0..MaxFaults
  BY DEF ClientTypes
<1>1. CASE FirstPiece(c)
  <2>1. PICK n \in Sizes : Message(c, <<<<run[c], 1>>>>, n = 1, n, 0)
    BY <1>1 DEF FirstPiece
  <2> QED
    BY <1>1, <2>1, Received DEF FirstPiece
<1>2. CASE NextPiece(c)
  <2>1. size[c] \in Sizes
    BY <1>2 DEF NextPiece, ClientTypes
  <2>2. CASE Mine(c) = {}
    <3>1. (HeapHolds \/ HeapFails) /\ spoiled' = spoiled /\ Waits(c, size[c])
      BY <1>2, <2>2 DEF NextPiece
    <3> QED
      BY <1>2, <2>1, <3>1, Faults DEF NextPiece, WaitsOn
  <2>3. CASE http_check_pending_responses(c)
    <3> DEFINE i     == First(Mine(c))
               e     == pending_responses[i]
               parts == Append(e.parts, <<run[c], got[c] + 1>>)
    <3>1. CASE \E entry : Added(c, i, entry)
      BY <1>2, <2>1, <3>1, Faults DEF Added, WaitsOn, NextPiece
    <3>2. CASE Message(c, parts, TRUE, size[c], i)
      <4> HIDE DEF i, parts
      <4> QED
        BY <1>2, <2>1, <3>2, Received DEF NextPiece
    <3>3. CASE Restart
      BY <1>2, <3>3 DEF NextPiece
    <3> QED
      BY <2>3, <3>1, <3>2, <3>3 DEF http_check_pending_responses
  <2>4. CASE Restart
    BY <1>2, <2>4 DEF NextPiece
  <2> QED
    BY <1>2, <2>2, <2>3, <2>4 DEF NextPiece
<1> QED
  BY <1>1, <1>2

-----------------------------------------------------------------------------
(***************************************************************************)
(* The clients: types, time-outs and associations.  No fact about the list *)
(* of incomplete responses is needed.                                      *)
(***************************************************************************)
Tables == Associated /\ IsFiniteSet(http_clt_espconn)

\* The SDK connects for clients that wait for it: http_client_connected never finds a
\* client that has gone on.
Connects == \A c \in Clients : link[c] = "connecting" => status[c] = "CONNECTING"

ClientInv == ClientTypes /\ OneTimer /\ Tables /\ Connects

\* Every client is deleted, or none is created yet.
LEMMA Started ==
  ASSUME status = [c \in Clients |-> "free"], http_clt_espconn = {}, connect_timer = {},
         send_timer = {}, link = [c \in Clients |-> "none"], run = [c \in Clients |-> 0],
         size = [c \in Clients |-> 0], got = [c \in Clients |-> 0], runs = 0, faults = 0,
         spoiled = {}
  PROVE  ClientInv
<1>1. ClientTypes
  BY DEF ClientTypes, Statuses
<1>2. OneTimer
  BY DEF OneTimer
<1>3. Tables /\ Connects
  BY FS_EmptySet DEF Tables, Associated, Connects
<1> QED
  BY <1>1, <1>2, <1>3 DEF ClientInv

LEMMA Restarted == Restart => ClientInv'
<1> SUFFICES ASSUME Restart PROVE ClientInv'
  OBVIOUS
<1>1. ClientTypes'
  BY DEF ClientTypes, Statuses, Restart
<1>2. OneTimer'
  BY DEF OneTimer, Restart
<1>3. Tables' /\ Connects'
  BY FS_EmptySet DEF Tables, Associated, Connects, Restart
<1> QED
  BY <1>1, <1>2, <1>3 DEF ClientInv

\* The user deletes a client whose time-outs are disarmed.
LEMMA Deleted ==
  ASSUME NEW c \in Clients, ClientInv, Delete(c),
         connect_timer' = connect_timer \ {c}, send_timer' = send_timer \ {c},
         runs' \in 0..MaxRuns, faults' \in 0..MaxFaults
  PROVE  ClientInv'
<1> USE DEF ClientInv
<1>1. ClientTypes'
  BY DEF ClientTypes, Delete, Statuses
<1>2. OneTimer'
  <2> SUFFICES ASSUME NEW d \in Clients
               PROVE  /\ (d \in connect_timer <=> status[d] = "CONNECTING")'
                      /\ (d \in send_timer <=> status[d] = "WAITING_RESPONSE")'
    BY DEF OneTimer
  <2> status \in [Clients -> Statuses]
    BY DEF ClientTypes
  <2>1. CASE d = c
    BY <2>1 DEF Delete
  <2>2. CASE d # c
    BY <2>2 DEF Delete, OneTimer
  <2> QED
    BY <2>1, <2>2
<1>3. Tables'
  <2> status \in [Clients -> Statuses]
    BY DEF ClientTypes
  <2>1. IsFiniteSet(http_clt_espconn') /\ Cardinality(http_clt_espconn') \in Nat
        /\ Cardinality(http_clt_espconn') <= Cardinality(http_clt_espconn)
    <3>1. http_clt_espconn' \subseteq http_clt_espconn /\ IsFiniteSet(http_clt_espconn)
      BY DEF Tables, Delete
    <3> QED
      BY <3>1, FS_Subset, FS_CardinalityType
  <2>2. Cardinality(http_clt_espconn) \in Nat
    BY FS_CardinalityType DEF Tables
  <2>3. Cardinality(http_clt_espconn') <= MaxAssoc
    BY <2>1, <2>2 DEF Tables, Associated
  <2>4. /\ http_clt_espconn' \subseteq {d \in Clients : status'[d] # "free"}
        /\ {d \in Clients : status'[d] = "WAITING_RESPONSE"} \subseteq http_clt_espconn'
    BY DEF Tables, Associated, Delete, ClientTypes
  <2> QED
    BY <2>1, <2>3, <2>4 DEF Tables, Associated
<1>4. Connects'
  BY DEF Connects, Delete, ClientTypes
<1> QED
  BY <1>1, <1>2, <1>3, <1>4

\* Nothing the time-outs and the associations depend on changes.
LEMMA Undisturbed ==
  ASSUME ClientInv, ClientTypes',
         UNCHANGED <<status, http_clt_espconn, connect_timer, send_timer>>,
         \A c \in Clients : link'[c] = "connecting" => link[c] = "connecting"
  PROVE  ClientInv'
<1>1. OneTimer'
  BY DEF ClientInv, OneTimer
<1>2. Tables'
  BY DEF ClientInv, Tables, Associated
<1>3. Connects'
  BY DEF ClientInv, Connects
<1> QED
  BY <1>1, <1>2, <1>3 DEF ClientInv

LEMMA Connecting ==
  ASSUME NEW c \in Clients, ClientInv, connect(c)
  PROVE  ClientInv'
<1> USE DEF ClientInv
<1>1. /\ http_clt_espconn' \in {http_clt_espconn, http_clt_espconn \cup {c}}
      /\ faults' \in 0..MaxFaults
      /\ http_clt_espconn' = http_clt_espconn \/ Cardinality(http_clt_espconn) < MaxAssoc
  <2> add_client_espconn_association(c) /\ faults \in 0..MaxFaults
    BY DEF connect, ClientTypes
  <2>1. CASE Cardinality(http_clt_espconn) < MaxAssoc
             /\ http_clt_espconn' = http_clt_espconn \cup {c} /\ HeapHolds
    BY <2>1, Faults
  <2>2. CASE (HeapHolds \/ HeapFails) /\ http_clt_espconn' = http_clt_espconn
    BY <2>2, Faults
  <2> QED
    BY <2>1, <2>2 DEF add_client_espconn_association
<1>2. ClientTypes'
  <2>1. runs' \in 0..MaxRuns
    BY DEF ClientTypes, connect
  <2> QED
    BY <1>1, <2>1 DEF ClientTypes, connect, Statuses
<1>3. OneTimer'
  <2> SUFFICES ASSUME NEW d \in Clients
               PROVE  /\ (d \in connect_timer <=> status[d] = "CONNECTING")'
                      /\ (d \in send_timer <=> status[d] = "WAITING_RESPONSE")'
    BY DEF OneTimer
  <2> status \in [Clients -> Statuses]
    BY DEF ClientTypes
  <2>1. CASE d = c
    BY <2>1 DEF connect, OneTimer
  <2>2. CASE d # c
    BY <2>2 DEF connect, OneTimer
  <2> QED
    BY <2>1, <2>2
<1>4. Tables'
  <2> status \in [Clients -> Statuses]
    BY DEF ClientTypes
  <2>1. IsFiniteSet(http_clt_espconn') /\ Cardinality(http_clt_espconn') <= MaxAssoc
    <3>1. CASE http_clt_espconn' = http_clt_espconn
      BY <3>1 DEF Tables, Associated
    <3>2. CASE /\ http_clt_espconn' = http_clt_espconn \cup {c}
               /\ Cardinality(http_clt_espconn) < MaxAssoc
      <4>1. IsFiniteSet(http_clt_espconn) /\ Cardinality(http_clt_espconn) \in Nat
        BY FS_CardinalityType DEF Tables
      <4>2. Cardinality(http_clt_espconn \cup {c}) \in
              {Cardinality(http_clt_espconn), Cardinality(http_clt_espconn) + 1}
        BY <4>1, FS_AddElement
      <4>3. IsFiniteSet(http_clt_espconn \cup {c})
        BY <4>1, FS_AddElement
      <4> QED
        BY <3>2, <4>1, <4>2, <4>3
    <3> QED
      BY <1>1, <3>1, <3>2
  <2>2. status'[c] = "CONNECTING" /\ \A d \in Clients \ {c} : status'[d] = status[d]
    BY DEF connect
  <2>3. status[c] = "free"
    BY DEF connect
  <2>4. /\ http_clt_espconn' \subseteq {d \in Clients : status'[d] # "free"}
        /\ {d \in Clients : status'[d] = "WAITING_RESPONSE"} \subseteq http_clt_espconn'
    BY <1>1, <2>2, <2>3 DEF Tables, Associated
  <2> QED
    BY <2>1, <2>4 DEF Tables, Associated
<1>5. Connects'
  BY DEF Connects, connect, ClientTypes
<1> QED
  BY <1>2, <1>3, <1>4, <1>5

\* http_client_connected does not find the client, or finds it and sends its request,
\* or its user gives up.
LEMMA ConnectedStep ==
  ASSUME NEW c \in Clients, ClientInv, http_client_connected(c)
  PROVE  ClientInv'
<1> USE DEF ClientInv
<1>1. /\ status \in [Clients -> Statuses] /\ link \in [Clients -> {"none", "connecting", "connected"}]
      /\ faults \in 0..MaxFaults /\ runs \in 0..MaxRuns /\ runs' = runs
      /\ status[c] = "CONNECTING" /\ c \in connect_timer /\ c \notin send_timer
  BY DEF ClientTypes, http_client_connected, Connects, OneTimer
<1>2. CASE /\ link' = [link EXCEPT ![c] = "connected"]
           /\ HeapHolds
           /\ UNCHANGED <<status, http_clt_espconn, connect_timer, send_timer, run, size, got,
                          spoiled>>
  <2>1. ClientTypes'
    BY <1>1, <1>2, Faults DEF ClientTypes
  <2> QED
    BY <1>1, <1>2, <2>1, Undisturbed
<1>3. CASE /\ c \in http_clt_espconn
           /\ connect_timer' = connect_timer \ {c}
           /\ link' = [link EXCEPT ![c] = "connected"]
           /\ \/ HeapHolds /\ status' = [status EXCEPT ![c] = "WAITING_RESPONSE"]
                           /\ send_timer' = send_timer \cup {c}
              \/ HeapFails /\ status' = [status EXCEPT ![c] = "CONNECTED"]
                           /\ UNCHANGED send_timer
           /\ UNCHANGED <<http_clt_espconn, run, size, got, spoiled>>
  <2>1. faults' \in 0..MaxFaults
    BY <1>1, <1>3, Faults
  <2>2. ClientTypes'
    BY <1>1, <1>3, <2>1 DEF ClientTypes, Statuses
  <2>3. OneTimer'
    BY <1>1, <1>3 DEF OneTimer
  <2>4. Tables'
    BY <1>1, <1>3 DEF Tables, Associated
  <2>5. Connects'
    BY <1>1, <1>3 DEF Connects
  <2> QED
    BY <2>2, <2>3, <2>4, <2>5
<1>4. CASE /\ connect_timer' = connect_timer \ {c}
           /\ HeapFails /\ Delete(c)
           /\ UNCHANGED send_timer
  BY <1>1, <1>4, Faults, Deleted
<1> QED
  BY <1>2, <1>3, <1>4 DEF http_client_connected

LEMMA ClientStep == ClientInv /\ [Next]_vars => ClientInv'
<1> SUFFICES ASSUME ClientInv, [Next]_vars PROVE ClientInv'
  OBVIOUS
<1> USE DEF ClientInv
<1>1. faults \in 0..MaxFaults /\ runs \in 0..MaxRuns /\ status \in [Clients -> Statuses]
  BY DEF ClientTypes
<1>2. ASSUME NEW c \in Clients, connect_Failure(c)
      PROVE  ClientInv'
  <2>1. faults' \in 0..MaxFaults /\ runs' \in 0..MaxRuns
    BY <1>1, <1>2, Faults DEF connect_Failure
  <2>2. send_timer' = send_timer \ {c}
    BY <1>2 DEF connect_Failure, OneTimer
  <2> QED
    BY <1>2, <2>1, <2>2, Deleted DEF connect_Failure
<1>3. ASSUME NEW c \in Clients, http_clt_connect_timeout(c)
      PROVE  ClientInv'
  <2>1. send_timer' = send_timer \ {c}
    BY <1>3 DEF http_clt_connect_timeout, OneTimer
  <2> QED
    BY <1>1, <1>3, <2>1, Deleted DEF http_clt_connect_timeout
<1>4. ASSUME NEW c \in Clients, http_clt_send_req_timeout_function(c)
      PROVE  ClientInv'
  <2>1. connect_timer' = connect_timer \ {c}
    BY <1>4 DEF http_clt_send_req_timeout_function, OneTimer
  <2> QED
    BY <1>1, <1>4, <2>1, Deleted DEF http_clt_send_req_timeout_function
<1>5. ASSUME NEW c \in Clients, FirstPiece(c) \/ NextPiece(c)
      PROVE  ClientInv'
  <2>1. status[c] = "WAITING_RESPONSE"
    BY <1>5, PieceReceived
  <2>2. CASE Handled(c) /\ faults' \in 0..MaxFaults
    <3>1. /\ Delete(c) /\ send_timer' = send_timer \ {c}
          /\ connect_timer' = connect_timer /\ runs' = runs
      BY <2>2 DEF Handled, Ready
    <3>2. connect_timer' = connect_timer \ {c}
      BY <2>1, <3>1 DEF OneTimer
    <3> QED
      BY <1>1, <2>2, <3>1, <3>2, Deleted
  <2>3. CASE WaitsOn(c) /\ faults' \in 0..MaxFaults
    <3>1. PICK n \in Sizes : Waits(c, n)
      BY <2>3 DEF WaitsOn
    <3>2. spoiled' \subseteq Clients
      BY <2>3 DEF WaitsOn, ClientTypes
    <3>3. /\ size' \in [Clients -> Sizes \cup {0}]
          /\ got' \in [Clients -> Nat]
      BY <3>1 DEF Waits, ClientTypes
    <3>4. ClientTypes'
      BY <2>3, <3>1, <3>2, <3>3 DEF Waits, ClientTypes
    <3> QED
      BY <3>1, <3>4, Undisturbed DEF Waits
  <2> QED
    BY <1>5, <2>2, <2>3, PieceReceived, Restarted
<1>6. CASE UNCHANGED vars
  <2>1. ClientTypes'
    BY <1>6 DEF vars, client, ClientTypes
  <2> QED
    BY <1>6, <2>1, Undisturbed DEF vars, client
<1> QED
  BY <1>2, <1>3, <1>4, <1>5, <1>6, Connecting, ConnectedStep DEF Next

LEMMA ClientCorrect == Spec => []ClientInv
<1>1. Init => ClientInv
  BY Started DEF Init
<1> QED
  BY <1>1, ClientStep, PTL DEF Spec

\* A client that waits has exactly the time-out of what it waits for, and no deleted
\* client has one (OneTimer), for any number of clients and whatever the server does.
THEOREM TimerCorrect == Spec => []OneTimer
  BY ClientCorrect, PTL DEF ClientInv

\* The associations are those of living clients, at most MaxAssoc, and every client that
\* waits for a response is found by http_client_recv (Associated).
THEOREM AssociatedCorrect == Spec => []Associated
<1>1. ClientInv => Associated
  BY DEF ClientInv, Tables
<1> QED
  BY <1>1, ClientCorrect, PTL

-----------------------------------------------------------------------------
(***************************************************************************)
(* The refinement: what each step does to a client as its user sees it.    *)
(***************************************************************************)
Users == [c \in Clients |-> Seen(status[c])]

\* One client's status changes, and its user sees it so.
LEMMA SeenStep ==
  ASSUME NEW c \in Clients, status \in [Clients -> Statuses], NEW s \in Statuses,
         status' = [status EXCEPT ![c] = s]
  PROVE  Users' = [Users EXCEPT ![c] = Seen(s)] /\ Users[c] = Seen(status[c])
  BY DEF Users

LEMMA ContractInit == Init => Contract!Init
  BY DEF Init, Contract!Init, Seen

LEMMA ContractStep ==
  ASSUME ClientInv, [Next]_vars
  PROVE  Contract!Next \/ UNCHANGED Users
<1> status \in [Clients -> Statuses]
  BY DEF ClientInv, ClientTypes
<1> USE DEF Contract!Next, Contract!Becomes
<1> DEFINE To(c, s) == Users[c] = Seen(status[c]) /\ Users' = [Users EXCEPT ![c] = Seen(s)]
<1>1. CASE Restart
  <2> Contract!Reboot
    BY <1>1 DEF Restart, Contract!Reboot, Seen
  <2> QED
    OBVIOUS
<1>2. ASSUME NEW c \in Clients, Delete(c), status[c] \in {"CONNECTING", "WAITING_RESPONSE"}
      PROVE  Contract!Next
  <2>1. To(c, "free")
    BY <1>2, SeenStep DEF Delete, Statuses
  <2>2. Contract!CallBack(c)
    BY <1>2, <2>1 DEF Contract!CallBack, Users, Seen
  <2> QED
    BY <2>2
<1>3. ASSUME NEW c \in Clients, connect(c)
      PROVE  Contract!Next
  <2>1. To(c, "CONNECTING") /\ status[c] = "free"
    BY <1>3, SeenStep DEF connect, Statuses
  <2>2. Contract!Connect(c)
    BY <2>1 DEF Contract!Connect, Users, Seen
  <2> QED
    BY <2>2
<1>4. ASSUME NEW c \in Clients, connect_Failure(c)
      PROVE  UNCHANGED Users
  BY <1>4, SeenStep DEF connect_Failure, Delete, Statuses, Users
<1>5. ASSUME NEW c \in Clients, http_client_connected(c)
      PROVE  Contract!Next \/ UNCHANGED Users
  <2>1. status[c] = "CONNECTING"
    BY <1>5 DEF http_client_connected, ClientInv, Connects
  <2>2. CASE UNCHANGED status
    BY <2>2 DEF Users
  <2>3. CASE Delete(c)
    BY <1>2, <2>1, <2>3
  <2>4. ASSUME NEW s \in {"WAITING_RESPONSE", "CONNECTED"}, status' = [status EXCEPT ![c] = s]
        PROVE  Contract!Next
    <3>1. To(c, s)
      BY <2>4, SeenStep DEF Statuses
    <3>2. Contract!Ask(c)
      BY <2>1, <2>4, <3>1 DEF Contract!Ask, Users, Seen
    <3> QED
      BY <3>2
  <2> QED
    BY <1>5, <2>2, <2>3, <2>4 DEF http_client_connected
<1>6. ASSUME NEW c \in Clients, http_clt_connect_timeout(c)
      PROVE  Contract!Next
  <2> status[c] = "CONNECTING"
    BY <1>6 DEF http_clt_connect_timeout, ClientInv, OneTimer
  <2> QED
    BY <1>2, <1>6 DEF http_clt_connect_timeout
<1>7. ASSUME NEW c \in Clients, http_clt_send_req_timeout_function(c)
      PROVE  Contract!Next
  <2> status[c] = "WAITING_RESPONSE"
    BY <1>7 DEF http_clt_send_req_timeout_function, ClientInv, OneTimer
  <2> QED
    BY <1>2, <1>7 DEF http_clt_send_req_timeout_function
<1>8. ASSUME NEW c \in Clients, FirstPiece(c) \/ NextPiece(c)
      PROVE  Contract!Next \/ UNCHANGED Users
  <2>1. status[c] = "WAITING_RESPONSE"
    BY <1>8, PieceReceived DEF ClientInv
  <2>2. CASE Handled(c)
    BY <1>2, <2>1, <2>2 DEF Handled, Ready
  <2>3. CASE WaitsOn(c)
    BY <2>3 DEF WaitsOn, Waits, Users
  <2> QED
    BY <1>1, <1>8, <2>2, <2>3, PieceReceived DEF ClientInv
<1>9. CASE UNCHANGED vars
  BY <1>9 DEF vars, client, Users
<1> QED
  BY <1>3, <1>4, <1>5, <1>6, <1>7, <1>8, <1>9 DEF Next

\* The client, with its time-outs and its table, implements the contract its users rely
\* on (ContractKept): no step of it calls back a client that neither connects nor waits,
\* or sends a request for one that is not connected.
THEOREM ContractCorrect == Spec => ContractKept
<1>1. ClientInv /\ [Next]_vars => [Contract!Next]_Users
  BY ContractStep
<1> QED
  BY <1>1, ContractInit, ClientCorrect, PTL DEF Spec, ContractKept, Contract!Spec, Users

-----------------------------------------------------------------------------
(***************************************************************************)
(* The list of incomplete responses.  For the client d, whose run is r and *)
(* who received g pieces of n: an entry of its own that can still become   *)
(* complete has its pieces in order (the places of the pieces are ahead of *)
(* their positions in the entry by no more than the pieces it misses); and *)
(* as long as nothing spoiled it, there is one entry and it misses none.   *)
(***************************************************************************)
EntrySet == [conn : Clients, total : Nat, parts : Seq(Piece)]

InOrder(parts, r, g) ==
  \A j \in 1..Len(parts) : /\ parts[j][1] = r
                           /\ parts[j][2] >= j
                           /\ parts[j][2] - j <= g - Len(parts)

OrderedAt(L, d, r, n, g) ==
  \A k \in 1..Len(L) :
    L[k].conn = d /\ L[k].parts[1][1] = r /\ L[k].total # Unreachable =>
      L[k].total = n /\ InOrder(L[k].parts, r, g)

KeptAt(L, d, r, n, g) ==
  \E k \in 1..Len(L) :
    /\ L[k].conn = d /\ L[k].parts[1][1] = r /\ L[k].total = n /\ Len(L[k].parts) = g
    /\ \A m \in 1..Len(L) : L[m].conn = d => m = k

\* Every entry was begun by a client that was created.
Begun(e) == e.parts # <<>> /\ e.parts[1][1] \in 1..runs

Ordered  == \A d \in Clients : OrderedAt(pending_responses, d, run[d], size[d], got[d])
AllKept  == \A d \in Clients : size[d] > 0 /\ d \notin spoiled =>
              got[d] < size[d] /\ KeptAt(pending_responses, d, run[d], size[d], got[d])
Fresh    == \A k \in 1..Len(pending_responses) : Begun(pending_responses[k])
Numbered == \A d \in Clients : /\ run[d] <= runs
                               /\ status[d] # "free" => run[d] > 0
                               /\ status[d] # "WAITING_RESPONSE" => size[d] = 0

Lists == ListTypes /\ Ordered /\ AllKept /\ Fresh /\ Numbered /\ AnswerWhole

\* What RemoveAt returns.
LEMMA Removed ==
  ASSUME NEW S, NEW L \in Seq(S), NEW i \in 1..Len(L)
  PROVE  /\ RemoveAt(L, i) \in Seq(S)
         /\ Len(RemoveAt(L, i)) = Len(L) - 1
         /\ \A k \in 1..Len(RemoveAt(L, i)) :
              RemoveAt(L, i)[k] = IF k < i THEN L[k] ELSE L[k + 1]
<1> DEFINE a == SubSeq(L, 1, i - 1)
           b == SubSeq(L, i + 1, Len(L))
<1> /\ Len(L) \in Nat
  OBVIOUS
<1>1. /\ a \in Seq(S) /\ Len(a) = i - 1
      /\ \A k \in 1..(i - 1) : a[k] = L[k]
  <2>1. \A k \in 1..(i - 1) : L[k] \in S
    OBVIOUS
  <2> QED
    BY <2>1, SubSeqProperties
<1>2. /\ b \in Seq(S) /\ Len(b) = Len(L) - i
      /\ \A k \in 1..(Len(L) - i) : b[k] = L[i + k]
  <2>1. \A k \in (i + 1)..Len(L) : L[k] \in S
    OBVIOUS
  <2> QED
    BY <2>1, SubSeqProperties
<1> HIDE DEF a, b
<1>3. /\ a \o b \in Seq(S) /\ Len(a \o b) = Len(L) - 1
  BY <1>1, <1>2
<1>4. ASSUME NEW k \in 1..(Len(L) - 1)
      PROVE  (a \o b)[k] = IF k < i THEN L[k] ELSE L[k + 1]
  <2>1. (a \o b)[k] = IF k <= Len(a) THEN a[k] ELSE b[k - Len(a)]
    BY <1>1, <1>2
  <2>2. CASE k < i
    BY <1>1, <2>1, <2>2
  <2>3. CASE k >= i
    <3>1. i \in Nat /\ k \in Nat /\ Len(L) \in Nat /\ k <= Len(L) - 1
      OBVIOUS
    <3>2. Len(a) = i - 1
      BY <1>1
    <3>3. ~(k <= Len(a)) /\ k - Len(a) \in 1..(Len(L) - i) /\ i + (k - Len(a)) = k + 1
      BY <2>3, <3>1, <3>2
    <3>4. b[k - Len(a)] = L[k + 1]
      BY <1>2, <3>3
    <3> QED
      BY <2>1, <2>3, <3>1, <3>3, <3>4
  <2>4. k < i \/ k >= i
    BY Len(L) \in Nat
  <2> QED
    BY <2>2, <2>3, <2>4
<1> QED
  BY <1>3, <1>4 DEF RemoveAt, a, b

LEMMA OrderedRemove ==
  ASSUME NEW L \in Seq(EntrySet), NEW i \in 1..Len(L), NEW d, NEW r, NEW n, NEW g,
         OrderedAt(L, d, r, n, g)
  PROVE  OrderedAt(RemoveAt(L, i), d, r, n, g)
<1> DEFINE R == RemoveAt(L, i)
<1>1. /\ Len(R) = Len(L) - 1 /\ Len(L) \in Nat
      /\ \A k \in 1..Len(R) : R[k] = IF k < i THEN L[k] ELSE L[k + 1]
  BY Removed
<1> HIDE DEF R
<1>2. \A k \in 1..Len(R) : \E m \in 1..Len(L) : R[k] = L[m]
  BY <1>1
<1>3. OrderedAt(R, d, r, n, g)
  BY <1>2 DEF OrderedAt
<1> QED
  BY <1>3 DEF R

LEMMA KeptRemove ==
  ASSUME NEW L \in Seq(EntrySet), NEW i \in 1..Len(L), NEW d, NEW r, NEW n, NEW g,
         KeptAt(L, d, r, n, g), L[i].conn # d
  PROVE  KeptAt(RemoveAt(L, i), d, r, n, g)
<1> DEFINE R == RemoveAt(L, i)
<1>1. /\ Len(R) = Len(L) - 1 /\ Len(L) \in Nat
      /\ \A k \in 1..Len(R) : R[k] = IF k < i THEN L[k] ELSE L[k + 1]
  BY Removed
<1> HIDE DEF R
<1>2. PICK k \in 1..Len(L) :
        /\ L[k].conn = d /\ L[k].parts[1][1] = r /\ L[k].total = n /\ Len(L[k].parts) = g
        /\ \A m \in 1..Len(L) : L[m].conn = d => m = k
  BY DEF KeptAt
<1>3. k # i
  BY <1>2
<1> DEFINE p == IF k < i THEN k ELSE k - 1
<1>4. p \in 1..Len(R) /\ R[p] = L[k]
  BY <1>1, <1>3
<1>5. ASSUME NEW m \in 1..Len(R), R[m].conn = d
      PROVE  m = p
  <2>1. CASE m < i
    BY <1>1, <1>2, <1>3, <1>5, <2>1
  <2>2. CASE m >= i
    <3>1. L[m + 1].conn = d /\ m + 1 \in 1..Len(L)
      BY <1>1, <1>5, <2>2
    <3> QED
      BY <1>2, <1>3, <2>2, <3>1
  <2> QED
    BY <2>1, <2>2
<1>6. KeptAt(R, d, r, n, g)
  BY <1>2, <1>4, <1>5 DEF KeptAt
<1> QED
  BY <1>6 DEF R

LEMMA KeptAppend ==
  ASSUME NEW L \in Seq(EntrySet), NEW e \in EntrySet, NEW d, NEW r, NEW n, NEW g,
         KeptAt(L, d, r, n, g), e.conn # d
  PROVE  KeptAt(Append(L, e), d, r, n, g)
<1> DEFINE A == Append(L, e)
<1>1. /\ Len(A) = Len(L) + 1 /\ Len(L) \in Nat
      /\ \A k \in 1..Len(L) : A[k] = L[k]
      /\ A[Len(A)] = e
  OBVIOUS
<1> HIDE DEF A
<1>2. PICK k \in 1..Len(L) :
        /\ L[k].conn = d /\ L[k].parts[1][1] = r /\ L[k].total = n /\ Len(L[k].parts) = g
        /\ \A m \in 1..Len(L) : L[m].conn = d => m = k
  BY DEF KeptAt
<1>3. \A m \in 1..Len(A) : A[m].conn = d => m = k
  BY <1>1, <1>2
<1>4. k \in 1..Len(A) /\ A[k] = L[k]
  BY <1>1
<1>5. KeptAt(A, d, r, n, g)
  BY <1>2, <1>3, <1>4 DEF KeptAt
<1> QED
  BY <1>5 DEF A

LEMMA OrderedAppend ==
  ASSUME NEW L \in Seq(EntrySet), NEW e \in EntrySet, NEW d, NEW r, NEW n, NEW g,
         OrderedAt(L, d, r, n, g),
         e.conn = d /\ e.parts[1][1] = r /\ e.total # Unreachable =>
           e.total = n /\ InOrder(e.parts, r, g)
  PROVE  OrderedAt(Append(L, e), d, r, n, g)
<1> DEFINE A == Append(L, e)
<1>1. \A k \in 1..Len(A) : A[k] = e \/ \E m \in 1..Len(L) : A[k] = L[m]
  OBVIOUS
<1> HIDE DEF A
<1>2. OrderedAt(A, d, r, n, g)
  BY <1>1 DEF OrderedAt
<1> QED
  BY <1>2 DEF A

LEMMA OrderedExcept ==
  ASSUME NEW L \in Seq(EntrySet), NEW i \in 1..Len(L), NEW e \in EntrySet,
         NEW d, NEW r, NEW n, NEW g, OrderedAt(L, d, r, n, g),
         e.conn = d /\ e.parts[1][1] = r /\ e.total # Unreachable =>
           e.total = n /\ InOrder(e.parts, r, g)
  PROVE  OrderedAt([L EXCEPT ![i] = e], d, r, n, g)
<1> DEFINE A == [L EXCEPT ![i] = e]
<1>1. \A k \in 1..Len(A) : A[k] = e \/ \E m \in 1..Len(L) : A[k] = L[m]
  OBVIOUS
<1> HIDE DEF A
<1>2. OrderedAt(A, d, r, n, g)
  BY <1>1 DEF OrderedAt
<1> QED
  BY <1>2 DEF A

LEMMA KeptExcept ==
  ASSUME NEW L \in Seq(EntrySet), NEW i \in 1..Len(L), NEW e \in EntrySet,
         NEW d, NEW r, NEW n, NEW g, KeptAt(L, d, r, n, g), e.conn # d, L[i].conn # d
  PROVE  KeptAt([L EXCEPT ![i] = e], d, r, n, g)
<1> DEFINE A == [L EXCEPT ![i] = e]
<1>1. Len(A) = Len(L) /\ \A k \in 1..Len(L) : A[k] = IF k = i THEN e ELSE L[k]
  OBVIOUS
<1> HIDE DEF A
<1>2. PICK k \in 1..Len(L) :
        /\ L[k].conn = d /\ L[k].parts[1][1] = r /\ L[k].total = n /\ Len(L[k].parts) = g
        /\ \A m \in 1..Len(L) : L[m].conn = d => m = k
  BY DEF KeptAt
<1>3. k # i /\ A[k] = L[k] /\ k \in 1..Len(A)
  BY <1>1, <1>2
<1>4. \A m \in 1..Len(A) : A[m].conn = d => m = k
  BY <1>1, <1>2
<1>5. KeptAt(A, d, r, n, g)
  BY <1>2, <1>3, <1>4 DEF KeptAt
<1> QED
  BY <1>5 DEF A

-----------------------------------------------------------------------------
(***************************************************************************)
(* A step of the client at c disturbs no entry of another client.          *)
(***************************************************************************)
Others(L, c) ==
  /\ L \in Seq(EntrySet)
  /\ \A k \in 1..Len(L) : Begun(L[k])
  /\ \A d \in Clients \ {c} :
       /\ OrderedAt(L, d, run[d], size[d], got[d])
       /\ size[d] > 0 /\ d \notin spoiled => KeptAt(L, d, run[d], size[d], got[d])

LEMMA OthersNow == ASSUME NEW c \in Clients, Lists PROVE Others(pending_responses, c)
  BY DEF Lists, ListTypes, EntrySet, Others, Fresh, Ordered, AllKept

LEMMA OthersAppend ==
  ASSUME NEW c \in Clients, NEW L, Others(L, c), NEW e \in EntrySet, e.conn = c, Begun(e)
  PROVE  Others(Append(L, e), c)
<1> L \in Seq(EntrySet)
  BY DEF Others
<1>1. Append(L, e) \in Seq(EntrySet)
  OBVIOUS
<1>2. ASSUME NEW k \in 1..Len(Append(L, e)) PROVE Begun(Append(L, e)[k])
  <2>1. Append(L, e)[k] = e \/ \E m \in 1..Len(L) : Append(L, e)[k] = L[m]
    OBVIOUS
  <2> QED
    BY <2>1 DEF Others
<1>3. ASSUME NEW d \in Clients \ {c}
      PROVE  /\ OrderedAt(Append(L, e), d, run[d], size[d], got[d])
             /\ size[d] > 0 /\ d \notin spoiled =>
                  KeptAt(Append(L, e), d, run[d], size[d], got[d])
  BY OrderedAppend, KeptAppend DEF Others
<1> QED
  BY <1>1, <1>2, <1>3 DEF Others

LEMMA OthersRemove ==
  ASSUME NEW c \in Clients, NEW L, Others(L, c), NEW i \in 1..Len(L), L[i].conn = c
  PROVE  Others(RemoveAt(L, i), c)
<1> L \in Seq(EntrySet)
  BY DEF Others
<1>1. RemoveAt(L, i) \in Seq(EntrySet)
  BY Removed
<1>2. ASSUME NEW k \in 1..Len(RemoveAt(L, i)) PROVE Begun(RemoveAt(L, i)[k])
  <2>1. Len(RemoveAt(L, i)) = Len(L) - 1 /\ Len(L) \in Nat
        /\ RemoveAt(L, i)[k] = IF k < i THEN L[k] ELSE L[k + 1]
    <3>1. /\ Len(RemoveAt(L, i)) = Len(L) - 1
          /\ \A j \in 1..Len(RemoveAt(L, i)) :
               RemoveAt(L, i)[j] = IF j < i THEN L[j] ELSE L[j + 1]
      BY Removed, Zenon
    <3>2. Len(L) \in Nat
      OBVIOUS
    <3> QED
      BY <3>1, <3>2, Zenon
  <2>2. \E m \in 1..Len(L) : RemoveAt(L, i)[k] = L[m]
    <3>1. k \in 1..Len(L) /\ k + 1 \in 1..Len(L)
      <4> DEFINE n == Len(RemoveAt(L, i))
                 m == Len(L)
      <4>1. k \in 1..n /\ n = m - 1 /\ m \in Nat
        BY <2>1, Zenon
      <4> HIDE DEF n, m
      <4>2. k \in 1..m /\ k + 1 \in 1..m
        BY <4>1
      <4> QED
        BY <4>2 DEF m
    <3>2. CASE k < i
      <4>1. RemoveAt(L, i)[k] = L[k]
        BY <2>1, <3>2
      <4> QED
        BY <3>1, <4>1, Zenon
    <3>3. CASE ~(k < i)
      <4>1. RemoveAt(L, i)[k] = L[k + 1]
        BY <2>1, <3>3
      <4> QED
        BY <3>1, <4>1, Zenon
    <3> QED
      BY <3>2, <3>3
  <2> QED
    BY <2>2 DEF Others
<1>3. ASSUME NEW d \in Clients \ {c}
      PROVE  /\ OrderedAt(RemoveAt(L, i), d, run[d], size[d], got[d])
             /\ size[d] > 0 /\ d \notin spoiled =>
                  KeptAt(RemoveAt(L, i), d, run[d], size[d], got[d])
  BY OrderedRemove, KeptRemove DEF Others
<1> QED
  BY <1>1, <1>2, <1>3 DEF Others

LEMMA OthersExcept ==
  ASSUME NEW c \in Clients, NEW L, Others(L, c), NEW i \in 1..Len(L), L[i].conn = c,
         NEW e \in EntrySet, e.conn = c, Begun(e)
  PROVE  Others([L EXCEPT ![i] = e], c)
<1> L \in Seq(EntrySet)
  BY DEF Others
<1> DEFINE A == [L EXCEPT ![i] = e]
<1>1. A \in Seq(EntrySet)
  OBVIOUS
<1>2. ASSUME NEW k \in 1..Len(A) PROVE Begun(A[k])
  <2>1. A[k] = e \/ \E m \in 1..Len(L) : A[k] = L[m]
    OBVIOUS
  <2> QED
    BY <2>1 DEF Others
<1>3. ASSUME NEW d \in Clients \ {c}
      PROVE  /\ OrderedAt(A, d, run[d], size[d], got[d])
             /\ size[d] > 0 /\ d \notin spoiled => KeptAt(A, d, run[d], size[d], got[d])
  BY OrderedExcept, KeptExcept DEF Others
<1> QED
  BY <1>1, <1>2, <1>3 DEF Others

\* The entry of a handled message is removed; before that, one may have been added.
LEMMA OthersWithout ==
  ASSUME NEW c \in Clients, Lists, NEW i \in Mine(c) \cup {0}
  PROVE  /\ Others(Without(pending_responses, i), c)
         /\ Len(Without(pending_responses, i)) <= MaxPending
         /\ \A e \in EntrySet : e.conn = c /\ Begun(e) /\ Len(pending_responses) < MaxPending =>
              /\ Others(Without(Append(pending_responses, e), i), c)
              /\ Len(Without(Append(pending_responses, e), i)) <= MaxPending
<1> DEFINE L == pending_responses
<1>1. Others(L, c) /\ L \in Seq(EntrySet) /\ Len(L) <= MaxPending /\ Len(L) \in Nat
  <2>1. Others(L, c) /\ Len(L) <= MaxPending
    BY OthersNow DEF Lists, ListTypes
  <2>2. L \in Seq(EntrySet)
    BY <2>1 DEF Others
  <2> QED
    BY <2>1, <2>2
<1>2. i # 0 => i \in 1..Len(L) /\ L[i].conn = c
  BY <1>1 DEF Mine
<1> HIDE DEF L
<1>3. Others(Without(L, i), c) /\ Len(Without(L, i)) <= MaxPending
  BY <1>1, <1>2, OthersRemove, Removed DEF Without
<1>4. ASSUME NEW e \in EntrySet, e.conn = c, Begun(e), Len(L) < MaxPending
      PROVE  /\ Others(Without(Append(L, e), i), c)
             /\ Len(Without(Append(L, e), i)) <= MaxPending
  <2> DEFINE A == Append(L, e)
  <2>1. Others(A, c)
    BY <1>1, <1>4, OthersAppend
  <2>2. A \in Seq(EntrySet) /\ Len(A) = Len(L) + 1
        /\ \A k \in 1..Len(L) : A[k] = L[k]
    BY <1>1
  <2> HIDE DEF A
  <2>3. CASE i = 0
    BY <1>1, <1>4, <2>1, <2>2, <2>3 DEF Without, A
  <2>4. CASE i # 0
    <3>1. i \in 1..Len(A) /\ A[i].conn = c
      BY <1>1, <1>2, <2>2, <2>4
    <3>2. Others(RemoveAt(A, i), c) /\ Len(RemoveAt(A, i)) = Len(A) - 1
      BY <2>1, <2>2, <3>1, OthersRemove, Removed
    <3> QED
      BY <1>1, <1>4, <2>2, <2>4, <3>2 DEF Without, A
  <2> QED
    BY <2>3, <2>4
<1> QED
  BY <1>3, <1>4 DEF L

\* The client at c is deleted, and the list is what its other clients left of it.
LEMMA DeletedLists ==
  ASSUME NEW c \in Clients, ClientInv, Lists, Delete(c),
         Others(pending_responses', c), Len(pending_responses') <= MaxPending,
         runs' \in {runs, runs + 1},
         answer' \in [run : 0..MaxRuns, size : Nat, parts : Seq(Piece)], AnswerWhole'
  PROVE  Lists'
<1> DEFINE L == pending_responses'
<1>0. runs \in Nat /\ run \in [Clients -> 0..MaxRuns] /\ status \in [Clients -> Statuses]
      /\ size \in [Clients -> Sizes \cup {0}] /\ got \in [Clients -> Nat]
  BY DEF ClientInv, ClientTypes
<1>1. /\ run'[c] = 0 /\ size'[c] = 0 /\ status'[c] = "free"
      /\ \A d \in Clients \ {c} : /\ run'[d] = run[d] /\ size'[d] = size[d] /\ got'[d] = got[d]
                                  /\ status'[d] = status[d]
                                  /\ d \in spoiled <=> d \in spoiled'
  BY <1>0 DEF Delete
<1>2. ListTypes'
  BY DEF ListTypes, Others, EntrySet
<1>3. Fresh'
  <2>1. \A k \in 1..Len(L) : L[k].parts # <<>> /\ L[k].parts[1][1] \in 1..runs'
    <3>1. \A k \in 1..Len(L) : Begun(L[k])
      BY <1>0, Zenon DEF Others
    <3>2. ASSUME NEW k \in 1..Len(L)
          PROVE  L[k].parts # <<>> /\ L[k].parts[1][1] \in 1..runs'
      <4>1. L[k].parts # <<>> /\ L[k].parts[1][1] \in 1..runs
        BY <3>1, Zenon DEF Begun
      <4>2. \A x \in 1..runs : x \in 1..runs'
        BY <1>0
      <4> QED
        BY <4>1, <4>2, Zenon
    <3> QED
      BY <3>2, Zenon
  <2> QED
    BY <2>1 DEF Fresh, Begun
<1>4. Ordered'
  <2>1. OrderedAt(L, c, 0, size'[c], got'[c])
    BY DEF OrderedAt, Others, Begun
  <2> QED
    BY <1>1, <2>1 DEF Ordered, Others
<1>5. AllKept'
  BY <1>1 DEF AllKept, Others, Lists
<1>6. Numbered'
  <2> SUFFICES ASSUME NEW d \in Clients
               PROVE  /\ run'[d] <= runs'
                      /\ status'[d] # "free" => run'[d] > 0
                      /\ status'[d] # "WAITING_RESPONSE" => size'[d] = 0
    BY DEF Numbered
  <2>1. CASE d = c
    BY <1>0, <1>1, <2>1
  <2>2. CASE d # c
    <3>1. run[d] <= runs /\ (status[d] # "free" => run[d] > 0)
          /\ (status[d] # "WAITING_RESPONSE" => size[d] = 0)
      BY DEF Lists, Numbered
    <3>2. run[d] \in Nat
      BY <1>0
    <3> HIDE DEF L
    <3> QED
      BY <1>0, <1>1, <2>2, <3>1, <3>2
  <2> QED
    BY <2>1, <2>2
<1> QED
  BY <1>2, <1>3, <1>4, <1>5, <1>6 DEF Lists

\* The client at c waits on.
LEMMA WaitsLists ==
  ASSUME NEW c \in Clients, ClientInv, Lists, NEW n \in Sizes, Waits(c, n),
         status[c] = "WAITING_RESPONSE",
         spoiled' \in {spoiled, spoiled \cup {c}},
         Others(pending_responses', c), Len(pending_responses') <= MaxPending,
         OrderedAt(pending_responses', c, run[c], n, got[c] + 1),
         c \notin spoiled' => /\ got[c] + 1 < n
                              /\ KeptAt(pending_responses', c, run[c], n, got[c] + 1)
  PROVE  Lists'
<1> DEFINE L == pending_responses'
<1>0. runs \in Nat /\ run \in [Clients -> 0..MaxRuns] /\ status \in [Clients -> Statuses]
      /\ size \in [Clients -> Sizes \cup {0}] /\ got \in [Clients -> Nat]
  BY DEF ClientInv, ClientTypes
<1>1. /\ run' = run /\ runs' = runs /\ status' = status /\ answer' = NoAnswer
      /\ size'[c] = n /\ got'[c] = got[c] + 1
      /\ \A d \in Clients \ {c} : size'[d] = size[d] /\ got'[d] = got[d]
  BY <1>0 DEF Waits
<1>2. ListTypes'
  <2>1. NoAnswer \in [run : 0..MaxRuns, size : Nat, parts : Seq(Piece)]
    BY DEF NoAnswer
  <2> QED
    BY <1>1, <2>1 DEF ListTypes, Others, EntrySet
<1>3. Fresh'
  BY <1>1 DEF Fresh, Others, Begun
<1>4. Ordered'
  BY <1>1 DEF Ordered, Others
<1>5. AllKept'
  BY <1>1 DEF AllKept, Others, Lists
<1>6. Numbered'
  BY <1>0, <1>1 DEF Numbered, Lists
<1>7. AnswerWhole'
  BY <1>1 DEF AnswerWhole, NoAnswer
<1> QED
  BY <1>2, <1>3, <1>4, <1>5, <1>6, <1>7 DEF Lists

\* The user is called with the answer, whole if it was begun for this client.
LEMMA ReadyLists ==
  ASSUME NEW c \in Clients, ClientInv, Lists, status[c] = "WAITING_RESPONSE",
         NEW i \in Mine(c) \cup {0}, NEW n \in Sizes, NEW parts \in Seq(Piece),
         parts # <<>> /\ parts[1][1] = run[c] => parts = Whole(run[c], n),
         Ready(c, parts, n, i)
  PROVE  Lists'
<1>1. /\ Delete(c) /\ runs' = runs
      /\ answer' = [run |-> run[c], size |-> n, parts |-> parts]
      /\ pending_responses' = Without(pending_responses, i)
  BY DEF Ready
<1>2. Others(pending_responses', c) /\ Len(pending_responses') <= MaxPending
  BY <1>1, OthersWithout
<1>3. answer' \in [run : 0..MaxRuns, size : Nat, parts : Seq(Piece)]
  BY <1>1 DEF ClientInv, ClientTypes
<1>4. AnswerWhole'
  BY <1>1 DEF AnswerWhole
<1> QED
  BY <1>1, <1>2, <1>3, <1>4, DeletedLists

LEMMA RestartedLists == Restart => Lists'
<1> SUFFICES ASSUME Restart PROVE Lists'
  OBVIOUS
<1>1. pending_responses' = <<>> /\ Len(pending_responses') = 0 /\ answer' = NoAnswer
  BY DEF Restart
<1>2. ListTypes'
  BY <1>1 DEF ListTypes, NoAnswer
<1>3. Ordered' /\ Fresh'
  BY <1>1 DEF Ordered, OrderedAt, Fresh
<1>4. AllKept' /\ Numbered'
  BY DEF AllKept, Numbered, Restart
<1>5. AnswerWhole'
  BY <1>1 DEF AnswerWhole, NoAnswer
<1> QED
  BY <1>2, <1>3, <1>4, <1>5 DEF Lists

\* http_client_recv of a message with a header: the first piece, or a whole message put
\* together in entry i.
LEMMA MessageLists ==
  ASSUME NEW c \in Clients, ClientInv, Lists, status[c] = "WAITING_RESPONSE",
         NEW i \in Mine(c) \cup {0}, NEW n \in Sizes, NEW parts \in Seq(Piece),
         NEW whole \in BOOLEAN,
         parts # <<>>, parts[1][1] \in 1..runs,
         whole /\ parts[1][1] = run[c] => parts = Whole(run[c], n),
         ~whole => i = 0 /\ n > 1 /\ got[c] = 0 /\ parts = <<<<run[c], 1>>>>,
         OrderedAt(pending_responses, c, run[c], n, got[c] + 1),
         Message(c, parts, whole, n, i)
  PROVE  Lists'
<1> DEFINE L == pending_responses
<1>0. /\ L \in Seq(EntrySet) /\ n \in Nat /\ got[c] \in Nat
      /\ i # 0 => i \in 1..Len(L) /\ L[i].conn = c
  <2>1. L \in Seq(EntrySet) /\ got[c] \in Nat /\ n \in Nat
    BY DEF Lists, ListTypes, EntrySet, ClientInv, ClientTypes
  <2>2. DOMAIN L = 1..Len(L)
    BY <2>1
  <2> QED
    BY <2>1, <2>2 DEF Mine
\* The list without the handled message, with or without a new entry.
<1>1. OrderedAt(Without(L, i), c, run[c], n, got[c] + 1)
  BY <1>0, OrderedRemove DEF Without
<1>2. ASSUME NEW total \in Nat,
             total # Unreachable => total = n /\ InOrder(parts, run[c], got[c] + 1)
      PROVE  /\ Entry(c, total, parts) \in EntrySet /\ Entry(c, total, parts).conn = c
             /\ Begun(Entry(c, total, parts))
             /\ OrderedAt(Without(Append(L, Entry(c, total, parts)), i), c, run[c], n, got[c] + 1)
  <2> DEFINE e == Entry(c, total, parts)
  <2>1. e \in EntrySet /\ e.conn = c /\ e.parts = parts /\ e.total = total
    BY DEF Entry, EntrySet
  <2>2. Begun(e)
    BY <2>1 DEF Begun
  <2> HIDE DEF e
  <2>3. OrderedAt(Append(L, e), c, run[c], n, got[c] + 1)
    BY <1>0, <1>2, <2>1, OrderedAppend
  <2>4. Append(L, e) \in Seq(EntrySet) /\ (i # 0 => i \in 1..Len(Append(L, e)))
    BY <1>0, <2>1
  <2>5. OrderedAt(Without(Append(L, e), i), c, run[c], n, got[c] + 1)
    BY <2>3, <2>4, OrderedRemove DEF Without
  <2> QED
    BY <2>1, <2>2, <2>5 DEF e
\* The alternatives of the message.
<1>3. ASSUME spoiled' = spoiled \cup {c}, Waits(c, n), NotSaved(i)
      PROVE  Lists'
  BY <1>1, <1>3, OthersWithout, WaitsLists DEF NotSaved
<1>4. ASSUME spoiled' = spoiled \cup {c}, Waits(c, n), Len(L) < MaxPending,
             Saved(c, Unreachable, parts, i)
      PROVE  Lists'
  <2>1. Unreachable \in Nat
    BY DEF Unreachable
  <2> QED
    BY <1>2, <1>4, <2>1, OthersWithout, WaitsLists DEF Saved
<1>5. ASSUME ~whole, Waits(c, n), Len(L) < MaxPending, Saved(c, n, parts, i),
             spoiled' = IF Mine(c) = {} THEN spoiled ELSE spoiled \cup {c}
      PROVE  Lists'
  <2> DEFINE e == Entry(c, n, parts)
  <2>1. i = 0 /\ n > 1 /\ got[c] = 0 /\ parts = <<<<run[c], 1>>>>
    BY <1>5
  <2>2. InOrder(parts, run[c], got[c] + 1)
    BY <2>1 DEF InOrder
  <2>3. /\ e \in EntrySet /\ e.conn = c /\ Begun(e)
        /\ OrderedAt(Without(Append(L, e), i), c, run[c], n, got[c] + 1)
    BY <1>0, <1>2, <2>2
  <2>4. e.parts[1][1] = run[c] /\ e.total = n /\ Len(e.parts) = 1
    BY <2>1 DEF Entry
  <2> HIDE DEF e
  <2>5. pending_responses' = Append(L, e)
    BY <1>5, <2>1 DEF Saved, Without, e
  <2>6. ASSUME Mine(c) = {}
        PROVE  KeptAt(Append(L, e), c, run[c], n, got[c] + 1)
    <3>1. \A m \in 1..Len(L) : L[m].conn # c
      BY <1>0, <2>6 DEF Mine
    <3> DEFINE A == Append(L, e)
    <3>2. Len(A) = Len(L) + 1 /\ Len(L) \in Nat /\ A[Len(A)] = e
          /\ \A m \in 1..Len(L) : A[m] = L[m]
      BY <1>0, <2>3
    <3> HIDE DEF A
    <3>3. \A m \in 1..Len(A) : A[m].conn = c => m = Len(A)
      BY <3>1, <3>2
    <3>4. KeptAt(A, c, run[c], n, got[c] + 1)
      BY <2>1, <2>3, <2>4, <3>2, <3>3 DEF KeptAt
    <3> QED
      BY <3>4 DEF A
  <2>7. Others(pending_responses', c) /\ Len(pending_responses') <= MaxPending
    BY <1>5, <2>1, <2>3, <2>5, OthersWithout DEF Without
  <2>8. OrderedAt(pending_responses', c, run[c], n, got[c] + 1)
    BY <2>1, <2>3, <2>5 DEF Without
  <2>9. spoiled' \in {spoiled, spoiled \cup {c}} /\ (c \notin spoiled' => Mine(c) = {})
    BY <1>5
  <2>10. c \notin spoiled' => /\ got[c] + 1 < n
                              /\ KeptAt(pending_responses', c, run[c], n, got[c] + 1)
    BY <2>1, <2>5, <2>6, <2>9
  <2> QED
    BY <1>5, <2>7, <2>8, <2>9, <2>10, WaitsLists
<1>6. ASSUME whole, Ready(c, parts, n, i)
      PROVE  Lists'
  BY <1>6, ReadyLists
<1>7. ASSUME Ready(c, <<>>, n, i)
      PROVE  Lists'
  <2>1. <<>> \in Seq(Piece)
    OBVIOUS
  <2> QED
    BY <1>7, <2>1, ReadyLists
<1> QED
  BY <1>3, <1>4, <1>5, <1>6, <1>7, RestartedLists
     DEF Message, ParseFails, http_save_pending_response

\* No entry begun for a client that received nothing can become complete.
LEMMA NothingYet ==
  ASSUME NEW L, NEW c, NEW r, NEW m, NEW n, NEW g,
         \A k \in 1..Len(L) : L[k].parts \in Seq(Piece) /\ L[k].parts # <<>>,
         OrderedAt(L, c, r, m, 0)
  PROVE  OrderedAt(L, c, r, n, g)
<1> SUFFICES ASSUME NEW k \in 1..Len(L), L[k].conn = c, L[k].parts[1][1] = r,
                    L[k].total # Unreachable
             PROVE  FALSE
  BY DEF OrderedAt
<1> DEFINE p == L[k].parts
<1>1. Len(p) \in Nat /\ Len(p) > 0
  OBVIOUS
<1>2. p[1] \in Piece
  BY <1>1
<1>3. p[1][2] \in Nat
  BY <1>2 DEF Piece
<1>4. p[1][2] >= 1 /\ p[1][2] - 1 <= 0 - Len(p)
  BY <1>1 DEF OrderedAt, InOrder
<1> QED
  BY <1>1, <1>3, <1>4

\* One more piece was received, and the entries are as before.
LEMMA OneMore ==
  ASSUME NEW L, NEW c, NEW r, NEW n, NEW g \in Nat,
         \A k \in 1..Len(L) : L[k].parts \in Seq(Piece),
         OrderedAt(L, c, r, n, g)
  PROVE  OrderedAt(L, c, r, n, g + 1)
<1> SUFFICES ASSUME NEW k \in 1..Len(L), L[k].conn = c, L[k].parts[1][1] = r,
                    L[k].total # Unreachable
             PROVE  L[k].total = n /\ InOrder(L[k].parts, r, g + 1)
  BY DEF OrderedAt
<1>1. L[k].total = n /\ InOrder(L[k].parts, r, g)
  BY DEF OrderedAt
<1> DEFINE p == L[k].parts
<1>2. p \in Seq(Piece) /\ InOrder(p, r, g)
  BY <1>1
<1> HIDE DEF p
<1>3. ASSUME NEW j \in 1..Len(p)
      PROVE  p[j][1] = r /\ p[j][2] >= j /\ p[j][2] - j <= g + 1 - Len(p)
  <2>1. p[j] \in Piece /\ Len(p) \in Nat
    BY <1>2
  <2>2. p[j][2] \in Nat
    BY <2>1 DEF Piece
  <2>3. p[j][1] = r /\ p[j][2] >= j /\ p[j][2] - j <= g - Len(p)
    BY <1>2 DEF InOrder
  <2> QED
    BY <2>1, <2>2, <2>3
<1>4. InOrder(p, r, g + 1)
  BY <1>3 DEF InOrder
<1> QED
  BY <1>1, <1>4 DEF p

\* The next piece of its own response is added to an entry in order.
LEMMA InOrderAppend ==
  ASSUME NEW parts \in Seq(Piece), NEW r \in 1..MaxRuns, NEW g \in Nat, InOrder(parts, r, g)
  PROVE  InOrder(Append(parts, <<r, g + 1>>), r, g + 1)
<1> DEFINE q == Append(parts, <<r, g + 1>>)
<1>1. /\ Len(q) = Len(parts) + 1 /\ Len(parts) \in Nat
      /\ q[Len(q)] = <<r, g + 1>>
      /\ \A j \in 1..Len(parts) : q[j] = parts[j] /\ parts[j] \in Piece
  OBVIOUS
<1> HIDE DEF q
<1>2. ASSUME NEW j \in 1..Len(q), j # Len(q)
      PROVE  q[j][1] = r /\ q[j][2] >= j /\ q[j][2] - j <= g + 1 - Len(q)
  <2>1. j \in 1..Len(parts)
    BY <1>1, <1>2
  <2>2. q[j] = parts[j] /\ parts[j] \in Piece
    BY <1>1, <2>1
  <2>3. parts[j][2] \in Nat
    BY <2>2 DEF Piece
  <2>4. parts[j][1] = r /\ parts[j][2] >= j /\ parts[j][2] - j <= g - Len(parts)
    BY <2>1 DEF InOrder
  <2> QED
    BY <1>1, <2>2, <2>3, <2>4
<1>4. g >= Len(parts)
  <2>1. CASE parts = <<>>
    BY <2>1
  <2>2. CASE parts # <<>>
    <3>1. Len(parts) >= 1 /\ parts[1][2] \in Nat
      BY <1>1, <2>2 DEF Piece
    <3>2. parts[1][2] >= 1 /\ parts[1][2] - 1 <= g - Len(parts)
      BY <1>1, <3>1 DEF InOrder
    <3> QED
      BY <1>1, <3>1, <3>2
  <2> QED
    BY <2>1, <2>2
<1>5. q[Len(q)][1] = r /\ q[Len(q)][2] >= Len(q) /\ q[Len(q)][2] - Len(q) <= g + 1 - Len(q)
  BY <1>1, <1>4
<1>6. InOrder(q, r, g + 1)
  BY <1>2, <1>5 DEF InOrder
<1> QED
  BY <1>6 DEF q

\* An entry in order that misses nothing is the whole response.
LEMMA InOrderWhole ==
  ASSUME NEW parts \in Seq(Piece), NEW r \in Nat, NEW g \in Nat, InOrder(parts, r, g),
         g <= Len(parts)
  PROVE  parts = Whole(r, Len(parts))
<1>1. ASSUME NEW j \in 1..Len(parts)
      PROVE  parts[j] = <<r, j>>
  <2>1. parts[j] \in Piece /\ Len(parts) \in Nat
    OBVIOUS
  <2>2. parts[j] = <<parts[j][1], parts[j][2]>> /\ parts[j][2] \in Nat
    BY <2>1, SMTT(30) DEF Piece
  <2>3. parts[j][1] = r /\ parts[j][2] >= j /\ parts[j][2] - j <= g - Len(parts)
    BY DEF InOrder
  <2> QED
    BY <2>1, <2>2, <2>3
<1>2. parts = [j \in 1..Len(parts) |-> parts[j]]
  OBVIOUS
<1> QED
  BY <1>1, <1>2 DEF Whole

-----------------------------------------------------------------------------
\* What is known when a piece comes for the client at c.
LEMMA AtPiece ==
  ASSUME NEW c \in Clients, ClientInv, Lists, status[c] = "WAITING_RESPONSE"
  PROVE  /\ run[c] \in 1..runs /\ run[c] \in 1..MaxRuns /\ got[c] \in Nat /\ size[c] \in Nat
         /\ pending_responses \in Seq(EntrySet) /\ Len(pending_responses) <= MaxPending
         /\ OrderedAt(pending_responses, c, run[c], size[c], got[c])
         /\ \A k \in 1..Len(pending_responses) :
              pending_responses[k].parts \in Seq(Piece) /\ Begun(pending_responses[k])
<1>1. run \in [Clients -> 0..MaxRuns] /\ runs \in Nat /\ run[c] <= runs /\ run[c] > 0
  BY DEF Lists, Numbered, ClientInv, ClientTypes
<1>2. got[c] \in Nat /\ size[c] \in Nat
  <2>1. got \in [Clients -> Nat] /\ size \in [Clients -> Sizes \cup {0}]
    BY DEF ClientInv, ClientTypes
  <2>2. Sizes \cup {0} \subseteq Nat
    OBVIOUS
  <2> QED
    BY <2>1, <2>2
<1>3. pending_responses \in Seq(EntrySet) /\ Len(pending_responses) <= MaxPending
  BY DEF Lists, ListTypes, EntrySet
<1>4. ASSUME NEW k \in 1..Len(pending_responses)
      PROVE  pending_responses[k].parts \in Seq(Piece)
  <2>1. pending_responses[k] \in EntrySet
    BY <1>3
  <2> QED
    BY <2>1 DEF EntrySet
<1> QED
  BY <1>1, <1>2, <1>3, <1>4 DEF Lists, Ordered, Fresh

LEMMA FirstPieceLists ==
  ASSUME NEW c \in Clients, ClientInv, Lists, FirstPiece(c)
  PROVE  Lists'
<1>1. status[c] = "WAITING_RESPONSE" /\ got[c] = 0
  BY DEF FirstPiece
<1> DEFINE parts == <<<<run[c], 1>>>>
<1>2. PICK n \in Sizes : Message(c, parts, n = 1, n, 0)
  BY DEF FirstPiece
<1>3. /\ parts \in Seq(Piece) /\ parts # <<>> /\ parts[1][1] = run[c]
      /\ n = 1 => parts = Whole(run[c], n)
  BY <1>1, AtPiece DEF Piece, Whole
<1>4. OrderedAt(pending_responses, c, run[c], n, got[c] + 1)
  BY <1>1, AtPiece, NothingYet DEF Begun
<1>5. n \in Nat /\ (n # 1 => n > 1)
  OBVIOUS
<1> HIDE DEF parts
<1>6. parts[1][1] \in 1..runs
  BY <1>1, <1>3, AtPiece
<1>7. (n = 1) \in BOOLEAN /\ 0 \in Mine(c) \cup {0}
  OBVIOUS
<1>8. ~(n = 1) => 0 = 0 /\ n > 1 /\ got[c] = 0 /\ parts = <<<<run[c], 1>>>>
  BY <1>1, <1>5 DEF parts
<1> QED
  BY <1>1, <1>2, <1>3, <1>4, <1>6, <1>7, <1>8, MessageLists

\* The entry that http_check_pending_responses takes is the first of the list.
LEMMA FirstMine ==
  ASSUME NEW c, Mine(c) # {}, pending_responses \in Seq(EntrySet)
  PROVE  First(Mine(c)) \in Mine(c)
<1>1. Mine(c) \subseteq Nat
  BY DEF Mine
<1>2. PICK k \in Mine(c) : \A m \in Mine(c) : <<m, k>> \notin OpToRel(<, Nat)
  BY <1>1, WFMin, NatLessThanWellFounded, Zenon
<1>3. ASSUME NEW m \in Mine(c)
      PROVE  ~(m < k)
  BY <1>1, <1>2 DEF OpToRel
<1>4. \A m \in Mine(c) : k <= m
  BY <1>1, <1>3
<1> QED
  BY <1>4 DEF First

LEMMA NextPieceLists ==
  ASSUME NEW c \in Clients, ClientInv, Lists, NextPiece(c)
  PROVE  Lists'
<1> DEFINE L     == pending_responses
           i     == First(Mine(c))
           e     == L[i]
           parts == Append(e.parts, <<run[c], got[c] + 1>>)
           own   == e.parts[1][1] = run[c]
           n     == size[c]
<1>1. status[c] = "WAITING_RESPONSE" /\ 0 < got[c] /\ got[c] < n /\ n \in Sizes
  BY DEF NextPiece, ClientInv, ClientTypes
<1>2. /\ run[c] \in 1..runs /\ run[c] \in 1..MaxRuns /\ got[c] \in Nat /\ n \in Nat
      /\ L \in Seq(EntrySet) /\ Len(L) <= MaxPending /\ Len(L) \in Nat
      /\ OrderedAt(L, c, run[c], n, got[c])
      /\ \A k \in 1..Len(L) : L[k].parts \in Seq(Piece) /\ Begun(L[k])
  BY <1>1, AtPiece
<1>3. Others(L, c) /\ OrderedAt(L, c, run[c], n, got[c] + 1)
  BY <1>2, OthersNow, OneMore
<1>4. DOMAIN L = 1..Len(L)
  BY <1>2
<1>5. ASSUME c \notin spoiled
      PROVE  \E k \in Mine(c) : /\ L[k].parts[1][1] = run[c] /\ L[k].total = n
                                /\ Len(L[k].parts) = got[c]
                                /\ \A m \in Mine(c) : m = k
  <2>1. n > 0
    BY <1>1, <1>2
  <2>2. KeptAt(L, c, run[c], n, got[c])
    BY <1>5, <2>1 DEF Lists, AllKept
  <2> QED
    BY <1>4, <2>2 DEF KeptAt, Mine
<1>6. CASE Mine(c) = {} /\ UNCHANGED <<pending_responses, spoiled>> /\ Waits(c, n)
  <2>1. c \in spoiled
    BY <1>5, <1>6
  <2> QED
    BY <1>1, <1>2, <1>3, <1>6, <2>1, WaitsLists
<1>7. CASE Mine(c) # {} /\ http_check_pending_responses(c)
  <2>1. i \in Mine(c)
    BY <1>2, <1>7, FirstMine
  <2>2. i \in 1..Len(L) /\ e.conn = c
    BY <1>4, <2>1 DEF Mine
  <2>3. e \in EntrySet /\ e.parts \in Seq(Piece) /\ Begun(e)
    BY <1>2, <2>2
  <2>4. parts \in Seq(Piece) /\ parts # <<>> /\ parts[1] = e.parts[1]
        /\ Len(parts) = Len(e.parts) + 1
    <3>1. <<run[c], got[c] + 1>> \in Piece
      BY <1>2 DEF Piece
    <3> QED
      BY <2>3, <3>1 DEF Begun
  <2>5. parts[1][1] \in 1..runs
    BY <2>3, <2>4 DEF Begun
  <2>6. own /\ e.total # Unreachable => e.total = n /\ InOrder(parts, run[c], got[c] + 1)
    BY <1>2, <2>2, <2>3, InOrderAppend DEF OrderedAt
  <2>7. c \notin spoiled => own /\ e.total = n /\ Len(parts) = got[c] + 1
                            /\ \A m \in Mine(c) : m = i
    BY <1>5, <2>1, <2>4
  \* The entry is replaced by x.
  <2>8. ASSUME NEW x \in EntrySet, x.conn = c, Begun(x), Added(c, i, x),
               x.parts[1][1] = run[c] /\ x.total # Unreachable =>
                 x.total = n /\ InOrder(x.parts, run[c], got[c] + 1),
               c \notin spoiled => /\ got[c] + 1 < n /\ x.parts[1][1] = run[c]
                                   /\ x.total = n /\ Len(x.parts) = got[c] + 1
        PROVE  Lists'
    <3> DEFINE A == [L EXCEPT ![i] = x]
    <3>1. Others(A, c) /\ OrderedAt(A, c, run[c], n, got[c] + 1)
      BY <1>2, <1>3, <2>2, <2>8, OthersExcept, OrderedExcept
    <3>2. /\ Len(A) = Len(L) /\ A[i] = x
          /\ \A m \in 1..Len(L) : m # i => A[m] = L[m]
      BY <1>2, <2>2
    <3>3. pending_responses' = A /\ spoiled' = spoiled /\ Waits(c, n)
      BY <2>8 DEF Added
    <3> HIDE DEF A, i, e, n, L
    <3>4. ASSUME c \notin spoiled
          PROVE  KeptAt(A, c, run[c], n, got[c] + 1)
      <4>1. \A m \in 1..Len(A) : A[m].conn = c => m = i
        BY <1>4, <2>7, <3>2, <3>4 DEF Mine, L
      <4> QED
        BY <2>2, <2>8, <3>2, <3>4, <4>1 DEF KeptAt
    <3> QED
      BY <1>1, <1>2, <2>8, <3>1, <3>2, <3>3, <3>4, WaitsLists
  <2>9. ASSUME Message(c, parts, TRUE, n, i), own => parts = Whole(run[c], n)
        PROVE  Lists'
    <3> HIDE DEF parts, i, e, n, L
    <3>1. OrderedAt(pending_responses, c, run[c], n, got[c] + 1)
      BY <1>3 DEF L
    <3>2. parts[1][1] = run[c] => parts = Whole(run[c], n)
      BY <2>4, <2>9
    <3> QED
      BY <1>1, <2>1, <2>4, <2>5, <2>9, <3>1, <3>2, MessageLists
  <2> DEFINE longer == [e EXCEPT !.parts = parts]
             past   == [e EXCEPT !.total = Unreachable]
  <2>10. /\ longer \in EntrySet /\ longer.conn = c /\ longer.parts = parts
         /\ longer.total = e.total /\ Begun(longer)
    <3>1. longer \in EntrySet /\ longer.conn = c /\ longer.parts = parts
          /\ longer.total = e.total
      BY <2>2, <2>3, <2>4 DEF EntrySet
    <3> QED
      BY <2>4, <2>5, <3>1 DEF Begun
  <2>11. /\ past \in EntrySet /\ past.conn = c /\ past.parts = e.parts
         /\ past.total = Unreachable /\ Begun(past)
    <3>1. past \in EntrySet /\ past.conn = c /\ past.parts = e.parts
          /\ past.total = Unreachable
      BY <2>2, <2>3 DEF EntrySet, Unreachable
    <3> QED
      BY <2>3, <3>1 DEF Begun
  <2>12. n # Unreachable
    BY <1>1, <1>2 DEF Unreachable
  <2>13. CASE e.total = Unreachable /\ Added(c, i, e)
    BY <2>2, <2>3, <2>7, <2>8, <2>12, <2>13
  <2>14. CASE e.total # Unreachable /\ own /\ Len(parts) < e.total /\ Added(c, i, longer)
    <3> HIDE DEF i, e, parts, n, L, longer, past
    <3>1. c \notin spoiled => got[c] + 1 < n
      BY <2>7, <2>14
    <3> QED
      BY <2>4, <2>6, <2>7, <2>8, <2>10, <2>14, <3>1
  <2>15. CASE e.total # Unreachable /\ own /\ Len(parts) = e.total
              /\ Message(c, parts, TRUE, n, i)
    <3>1. parts = Whole(run[c], n)
      <4>1. e.total = n /\ InOrder(parts, run[c], got[c] + 1)
        BY <2>6, <2>15
      <4>2. got[c] + 1 <= Len(parts) /\ got[c] + 1 \in Nat /\ run[c] \in Nat
        BY <1>1, <1>2, <2>15, <4>1
      <4> HIDE DEF parts, e, i, n
      <4> QED
        BY <2>4, <2>15, <4>1, <4>2, InOrderWhole
    <3> QED
      BY <2>9, <2>15, <3>1
  <2>16. CASE ~own /\ Added(c, i, longer)
    BY <2>4, <2>7, <2>8, <2>10, <2>16
  <2>17. CASE ~own /\ Added(c, i, past)
    BY <2>7, <2>8, <2>11, <2>17
  <2>18. CASE ~own /\ Message(c, parts, TRUE, n, i)
    BY <2>9, <2>18
  <2> QED
    BY <1>7, <2>13, <2>14, <2>15, <2>16, <2>17, <2>18, RestartedLists
       DEF http_check_pending_responses
<1>8. CASE Restart
  BY <1>8, RestartedLists
<1> QED
  BY <1>6, <1>7, <1>8 DEF NextPiece

-----------------------------------------------------------------------------
LEMMA ListInit == Init => Lists
<1> SUFFICES ASSUME Init PROVE Lists
  OBVIOUS
<1>1. pending_responses = <<>> /\ Len(pending_responses) = 0 /\ answer = NoAnswer
  BY DEF Init
<1>2. ListTypes
  BY <1>1 DEF ListTypes, NoAnswer
<1>3. Ordered /\ Fresh
  BY <1>1 DEF Ordered, OrderedAt, Fresh
<1>4. AllKept /\ Numbered
  BY DEF AllKept, Numbered, Init
<1>5. AnswerWhole
  BY <1>1 DEF AnswerWhole, NoAnswer
<1> QED
  BY <1>2, <1>3, <1>4, <1>5 DEF Lists

\* A client is deleted, or was not created, and leaves the list as it is.
LEMMA ClientGone ==
  ASSUME NEW c \in Clients, ClientInv, Lists, Delete(c), UNCHANGED pending_responses,
         runs' \in {runs, runs + 1}, answer' = NoAnswer
  PROVE  Lists'
<1>1. Others(pending_responses', c) /\ Len(pending_responses') <= MaxPending
  BY OthersNow DEF Lists, ListTypes
<1>2. answer' \in [run : 0..MaxRuns, size : Nat, parts : Seq(Piece)] /\ AnswerWhole'
  BY DEF NoAnswer, AnswerWhole
<1> QED
  BY <1>1, <1>2, DeletedLists

\* Neither the list changes nor a client that receives.
LEMMA ListUnchanged ==
  ASSUME ClientInv, Lists, UNCHANGED <<pending_responses, size, got, spoiled>>,
         answer' \in {answer, NoAnswer}, Numbered',
         runs' \in {runs, runs + 1},
         \A d \in Clients : run'[d] = run[d] \/ (run'[d] = runs + 1 /\ size[d] = 0)
  PROVE  Lists'
<1>1. runs \in Nat
  BY DEF ClientInv, ClientTypes
<1>2. ListTypes'
  <2>1. NoAnswer \in [run : 0..MaxRuns, size : Nat, parts : Seq(Piece)]
    BY DEF NoAnswer
  <2>2. answer' \in [run : 0..MaxRuns, size : Nat, parts : Seq(Piece)]
    BY <2>1 DEF Lists, ListTypes
  <2> QED
    BY <2>2 DEF Lists, ListTypes
<1>3. Fresh'
  <2>1. \A k \in 1..Len(pending_responses) :
          Begun(pending_responses[k])
    BY DEF Lists, Fresh
  <2> QED
    BY <1>1, <2>1 DEF Fresh, Begun
<1>4. Ordered'
  <2>1. \A k \in 1..Len(pending_responses) :
          pending_responses[k].parts[1][1] \in 1..runs
    BY DEF Lists, Fresh, Begun
  <2>2. \A k \in 1..Len(pending_responses) :
          pending_responses[k].parts[1][1] # runs + 1
    BY <1>1, <2>1
  <2> QED
    BY <2>2 DEF Lists, Ordered, OrderedAt
<1>5. AllKept'
  BY DEF Lists, AllKept
<1>6. AnswerWhole'
  BY DEF Lists, AnswerWhole, NoAnswer
<1> QED
  BY <1>2, <1>3, <1>4, <1>5, <1>6 DEF Lists

LEMMA ListStep == ClientInv /\ Lists /\ [Next]_vars => Lists'
<1> SUFFICES ASSUME ClientInv, Lists, [Next]_vars PROVE Lists'
  OBVIOUS
<1>1. /\ run \in [Clients -> 0..MaxRuns] /\ status \in [Clients -> Statuses]
      /\ runs \in Nat /\ Numbered
  BY DEF ClientInv, ClientTypes, Lists
<1>2. ASSUME NEW c \in Clients, connect(c)
      PROVE  Lists'
  <2>1. size[c] = 0 /\ runs' = runs + 1 /\ answer' = NoAnswer
        /\ UNCHANGED <<pending_responses, size, got, spoiled>>
    BY <1>1, <1>2 DEF connect, Numbered
  <2>2. /\ run'[c] = runs + 1 /\ status'[c] = "CONNECTING"
        /\ \A d \in Clients \ {c} : run'[d] = run[d] /\ status'[d] = status[d]
    BY <1>1, <1>2 DEF connect
  <2>3. Numbered'
    BY <1>1, <2>1, <2>2 DEF Numbered
  <2> QED
    BY <2>1, <2>2, <2>3, ListUnchanged
<1>3. ASSUME NEW c \in Clients, http_client_connected(c)
      PROVE  Lists'
  <2>1. status[c] = "CONNECTING" /\ answer' = NoAnswer /\ runs' = runs
        /\ UNCHANGED pending_responses
    BY <1>3 DEF http_client_connected, ClientInv, Connects
  <2>2. CASE Delete(c)
    BY <2>1, <2>2, ClientGone
  <2>3. CASE status' \in {status, [status EXCEPT ![c] = "WAITING_RESPONSE"],
                                  [status EXCEPT ![c] = "CONNECTED"]}
             /\ UNCHANGED <<run, size, got, spoiled>>
    <3>1. \A d \in Clients \ {c} : status'[d] = status[d]
      BY <1>1, <2>3
    <3>2. size[c] = 0 /\ run[c] > 0 /\ run[c] <= runs
      BY <1>1, <2>1 DEF Numbered
    <3>3. Numbered'
      BY <1>1, <2>1, <2>3, <3>1, <3>2 DEF Numbered
    <3> QED
      BY <2>1, <2>3, <3>3, ListUnchanged
  <2> QED
    BY <1>3, <2>2, <2>3 DEF http_client_connected
<1>4. ASSUME NEW c \in Clients,
             \/ connect_Failure(c) \/ http_clt_connect_timeout(c)
             \/ http_clt_send_req_timeout_function(c)
      PROVE  Lists'
  BY <1>4, ClientGone
     DEF connect_Failure, http_clt_connect_timeout, http_clt_send_req_timeout_function
<1>5. CASE UNCHANGED vars
  <2>1. Numbered'
    BY <1>1, <1>5 DEF vars, client, Numbered
  <2> QED
    BY <1>5, <2>1, ListUnchanged DEF vars, client
<1> QED
  BY <1>2, <1>3, <1>4, <1>5, FirstPieceLists, NextPieceLists DEF Next

LEMMA ListCorrect == Spec => [](ClientInv /\ Lists)
<1>1. Init => Lists
  BY ListInit
<1>2. ClientInv /\ Lists /\ [Next]_vars => Lists'
  BY ListStep
<1> QED
  BY <1>1, <1>2, ClientCorrect, PTL DEF Spec

\* The variables keep their types and the list of incomplete responses never exceeds its
\* capacity (TypeOK), however many clients leave one behind.
THEOREM TypeCorrect == Spec => []TypeOK
<1>1. ClientInv /\ Lists => TypeOK
  BY DEF ClientInv, Lists, TypeOK
<1> QED
  BY <1>1, ListCorrect, PTL

\* A response that its reader gets with a body is whole and in order unless it was begun
\* for an earlier client at the same address (AnswerWhole), however its pieces are
\* interleaved with those of the other clients and whichever allocations fail.
THEOREM AnswerCorrect == Spec => []AnswerWhole
<1>1. Lists => AnswerWhole
  BY DEF Lists
<1> QED
  BY <1>1, ListCorrect, PTL

\* A response that came completely was given to its reader, unless something spoiled it
\* (NotLost): nobody waits for the time-out of an answer that is there.
THEOREM NotLostCorrect == Spec => []NotLost
<1>1. ClientInv /\ Lists => NotLost
  <2> SUFFICES ASSUME ClientInv, Lists, NEW c \in Clients,
                      size[c] > 0, got[c] = size[c], c \notin spoiled
               PROVE  FALSE
    BY DEF NotLost
  <2>1. got[c] \in Nat /\ got[c] < size[c]
    BY DEF Lists, AllKept, ClientInv, ClientTypes
  <2> QED
    BY <2>1
<1> QED
  BY <1>1, ListCorrect, PTL

HIDE ClientConstants

-----------------------------------------------------------------------------
(***************************************************************************)
(* The scanners of Json.                                                   *)
(***************************************************************************)
LEMMA LowestIs ==
  ASSUME NEW S, S \subseteq Nat, S # {}
  PROVE  \E k \in S : \A m \in S : k <= m
<1>1. PICK k \in S : \A m \in S : <<m, k>> \notin OpToRel(<, Nat)
  BY WFMin, NatLessThanWellFounded, Zenon
<1>2. k \in Nat /\ \A m \in S : m \in Nat /\ ~(m < k)
  BY <1>1 DEF OpToRel
<1>3. \A m \in S : k <= m
  BY <1>2
<1> QED
  BY <1>3

\* The blanks from p on end at a place that is no blank, or at e.
LEMMA SkipIs ==
  ASSUME NEW p \in Nat, NEW e \in Nat
  PROVE  /\ SkipSpace(p, e) \in Nat /\ p <= SkipSpace(p, e)
         /\ p <= e => SkipSpace(p, e) <= e
         /\ \A r \in p..(SkipSpace(p, e) - 1) : text[r] \in Space
         /\ SkipSpace(p, e) < e => text[SkipSpace(p, e)] \notin Space
<1>1. CASE p >= e
  <2>1. SkipSpace(p, e) = p
    BY <1>1 DEF SkipSpace
  <2> QED
    BY <1>1, <2>1
<1>2. CASE p < e
  <2> DEFINE stops == {q \in p..e : q = e \/ text[q] \notin Space}
  <2>1. stops \subseteq Nat /\ e \in stops
    BY <1>2
  <2>2. PICK k \in stops : \A m \in stops : k <= m
    BY <2>1, LowestIs
  <2>3. k \in p..e /\ (k = e \/ text[k] \notin Space)
    BY <2>2
  <2>4. \A r \in p..(k - 1) : text[r] \in Space
    <3> TAKE r \in p..(k - 1)
    <3>1. r \in p..e /\ ~(k <= r)
      BY <2>3
    <3> QED BY <2>2, <3>1
  <2> DEFINE P(q) == (q = e \/ text[q] \notin Space) /\ \A r \in p..(q - 1) : text[r] \in Space
  <2>5. SkipSpace(p, e) = CHOOSE q \in p..e : P(q)
    BY <1>2 DEF SkipSpace
  <2>6. \E q \in p..e : P(q)
    BY <2>3, <2>4
  <2> HIDE DEF P
  <2>7. SkipSpace(p, e) \in p..e /\ P(SkipSpace(p, e))
    BY <2>5, <2>6, Zenon
  <2>8. SkipSpace(p, e) \in Nat /\ p <= SkipSpace(p, e) /\ SkipSpace(p, e) <= e
    BY <2>7
  <2> QED
    BY <2>7, <2>8 DEF P
<1> QED
  BY <1>1, <1>2

LEMMA SkipNext ==
  ASSUME NEW q \in Nat, NEW e \in Nat
  PROVE  SkipSpace(q + 1, e) \in Nat /\ q + 1 <= SkipSpace(q + 1, e)
<1>1. q + 1 \in Nat
  OBVIOUS
<1> QED BY <1>1, SkipIs, Zenon

\* What a scanner finds is before the end of the stretch.
LEMMA FoundBefore ==
  ASSUME NEW p \in Nat, NEW e \in Nat, NEW S, S \subseteq p..e, S # {}
  PROVE  (CHOOSE x \in S : \A y \in S : x <= y) \in p..e
<1>1. S \subseteq Nat
  OBVIOUS
<1>2. \E x \in S : \A y \in S : x <= y
  BY <1>1, LowestIs, Zenon
<1> QED
  BY <1>2

LEMMA StringEndIs ==
  ASSUME NEW p \in Nat, NEW e \in Nat
  PROVE  StringEnd(p, e) = 0 \/ StringEnd(p, e) \in p..(e - 1)
<1> DEFINE ends == {q \in p..(e - 1) : text[q] \in Special \cup {Quote}}
           q == CHOOSE x \in ends : \A y \in ends : x <= y
<1>1. StringEnd(p, e) = IF ends # {} /\ text[q] = Quote THEN q ELSE 0
  BY DEF StringEnd
<1>2. ASSUME ends # {} PROVE q \in p..(e - 1)
  <2>1. e - 1 \in Nat /\ ends \subseteq p..(e - 1)
    BY <1>2
  <2> HIDE DEF ends
  <2> QED BY <1>2, <2>1, FoundBefore
<1> QED BY <1>1, <1>2

LEMMA NumberEndIs ==
  ASSUME NEW p \in Nat, NEW e \in Nat, NEW stops
  PROVE  NumberEnd(p, e, stops) = 0 \/ NumberEnd(p, e, stops) \in p..(e - 1)
<1> DEFINE ends == {q \in p..(e - 1) : text[q] \notin Digit \cup {"."}}
           q == CHOOSE x \in ends : \A y \in ends : x <= y
<1>1. NumberEnd(p, e, stops) = IF ends # {} /\ text[q] \in stops \cup Space THEN q ELSE 0
  BY DEF NumberEnd
<1>2. ASSUME ends # {} PROVE q \in p..(e - 1)
  <2>1. e - 1 \in Nat /\ ends \subseteq p..(e - 1)
    BY <1>2
  <2> HIDE DEF ends
  <2> QED BY <1>2, <2>1, FoundBefore
<1> QED BY <1>1, <1>2

\* The pair of a bracket is in the text, or there is none.
LEMMA PairedEndIs ==
  ASSUME text \in Seq(STRING), NEW p \in Nat, NEW open, NEW close
  PROVE  /\ PairedEnd(p, open, close) \in Nat
         /\ PairedEnd(p, open, close) # 0 =>
              p <= PairedEnd(p, open, close) /\ PairedEnd(p, open, close) <= Len(text)
<1> DEFINE ends == {q \in p..Len(text) : /\ text[q] = close
                                         /\ Count(open, p, q) = Count(close, p, q)}
           q == CHOOSE x \in ends : \A y \in ends : x <= y
<1>1. PairedEnd(p, open, close) = IF ends = {} THEN 0 ELSE q
  BY DEF PairedEnd
<1>2. Len(text) \in Nat /\ ends \subseteq p..Len(text)
  OBVIOUS
<1> HIDE DEF ends
<1>3. ends # {} => q \in p..Len(text)
  BY <1>2, FoundBefore
<1> HIDE DEF q
<1> QED BY <1>1, <1>2, <1>3

-----------------------------------------------------------------------------
(***************************************************************************)
(* What the scanners hand over.                                            *)
(***************************************************************************)
\* A stretch of the text.
Inside(v) == /\ v.from \in Nat /\ v.end \in Nat
             /\ 1 <= v.from /\ v.from <= v.end /\ v.end <= Len(text) + 1

\* Its bracket, if it begins with one, has a pair.
Closed(v) == v.type \in {"obj", "array"} => v.end > 1

LEMMA BracketIs ==
  ASSUME Len(text) \in Nat, NEW p \in Nat \ {0}, NEW q \in Nat, q # 0 => p <= q /\ q <= Len(text),
         NEW t \in {"obj", "array"}, NEW v, v = [type |-> t, from |-> p, end |-> q + 1, last |-> q]
  PROVE  /\ v.last \in Nat
         /\ Closed(v) => Inside(v) /\ p <= v.from /\ v.from <= v.last
<1>1. v.type = t /\ v.from = p /\ v.end = q + 1 /\ v.last = q
  OBVIOUS
<1>2. Closed(v) => q # 0
  BY <1>1 DEF Closed
<1> QED BY <1>1, <1>2 DEF Inside

LEMMA ValueIs ==
  ASSUME text \in Seq(STRING), NEW e \in 1..(Len(text) + 1), NEW p \in 1..(e - 1), NEW stops,
         Value(p, e, stops).type # "unknown"
  PROVE  /\ Value(p, e, stops).last \in Nat
         /\ Closed(Value(p, e, stops)) =>
              /\ Inside(Value(p, e, stops)) /\ p <= Value(p, e, stops).from
              /\ Value(p, e, stops).from <= Value(p, e, stops).last
<1> DEFINE c == text[p]
           v == Value(p, e, stops)
           close(q) == [type |-> IF c = "{" THEN "obj" ELSE "array",
                        from |-> p, end |-> q + 1, last |-> q]
           none == [type |-> "unknown", from |-> 0, end |-> 0, last |-> 0]
<1>0. p \in Nat /\ e \in Nat /\ p + 1 \in Nat /\ Len(text) \in Nat /\ p >= 1 /\ p < e
  OBVIOUS
<1>1. CASE c = Quote
  <2> DEFINE q == StringEnd(p + 1, e)
  <2>1. v = IF q = 0 THEN none ELSE [type |-> "str", from |-> p + 1, end |-> q, last |-> q]
    BY <1>1 DEF Value, StrValue, Unknown, Digit, Quote
  <2>2. q \in (p + 1)..(e - 1)
    BY <1>0, <2>1, StringEndIs
  <2> HIDE DEF q
  <2> QED BY <1>0, <2>1, <2>2 DEF Inside, Closed
<1>2. CASE c \in Digit \cup {"-"}
  <2> DEFINE q == NumberEnd(p + 1, e, stops)
  <2>1. v = IF q = 0 THEN none
            ELSE [type |-> "num", from |-> p, end |-> q,
                  last |-> IF text[q] \in Space THEN q ELSE q - 1]
    BY <1>2 DEF Value, NumValue, Unknown, Digit, Quote
  <2>2. q \in (p + 1)..(e - 1)
    BY <1>0, <2>1, NumberEndIs
  <2> HIDE DEF q
  <2> QED BY <1>0, <2>1, <2>2 DEF Inside, Closed
<1>3. ASSUME NEW q \in Nat, q # 0 => p <= q /\ q <= Len(text),
             NEW t \in {"obj", "array"}, v = [type |-> t, from |-> p, end |-> q + 1, last |-> q]
      PROVE  /\ v.last \in Nat
             /\ Closed(v) => Inside(v) /\ p <= v.from /\ v.from <= v.last
  <2> HIDE DEF v
  <2> QED BY <1>0, <1>3, BracketIs
<1>4. CASE c = "{"
  <2>1. v = [type |-> "obj", from |-> p, end |-> find_object_end(p) + 1,
             last |-> find_object_end(p)]
    BY <1>4 DEF Value, NestedValue, Digit, Quote
  <2>2. find_object_end(p) \in Nat
        /\ (find_object_end(p) # 0 => p <= find_object_end(p) /\ find_object_end(p) <= Len(text))
    BY <1>0, PairedEndIs, Zenon DEF find_object_end
  <2> QED BY <1>3, <2>1, <2>2
<1>5. CASE c = "["
  <2>1. v = [type |-> "array", from |-> p, end |-> find_array_end(p) + 1,
             last |-> find_array_end(p)]
    BY <1>5 DEF Value, NestedValue, Digit, Quote
  <2>2. find_array_end(p) \in Nat
        /\ (find_array_end(p) # 0 => p <= find_array_end(p) /\ find_array_end(p) <= Len(text))
    BY <1>0, PairedEndIs, Zenon DEF find_array_end
  <2> QED BY <1>3, <2>1, <2>2
<1>6. CASE c # Quote /\ c \notin Digit \cup {"-"} /\ c # "{" /\ c # "["
  <2>1. v = none
    BY <1>6 DEF Value, Unknown
  <2> QED BY <2>1
<1> QED BY <1>1, <1>2, <1>4, <1>5, <1>6

\* An item is behind where it was looked for, and what is after it behind its value.
Behind(item, p) ==
  Inside(item.value) /\ p <= item.value.from /\ item.value.from < item.next

LEMMA PairIs ==
  ASSUME text \in Seq(STRING), NEW e \in 1..(Len(text) + 1), NEW p \in Nat \ {0},
         Pair(p, e) # Nothing
  PROVE  /\ Pair(p, e).next \in Nat \ {0} /\ Pair(p, e).more = (Pair(p, e).next < e)
         /\ Pair(p, e).next # e
         /\ Pair(p, e).more => text[Pair(p, e).next] \in {",", "}"}
         /\ Closed(Pair(p, e).value) => Behind(Pair(p, e), p)
         /\ text[SkipSpace(p, e)] = Quote
<1> DEFINE n == SkipSpace(p, e)
           m == NameEnd(n + 1, e)
           c == SkipSpace(m + 1, e)
           v == SkipSpace(c + 1, e)
           val == Value(v, e, {",", "}"})
           d == SkipSpace(val.last + 1, e)
           more == d < e
           name == SubSeq(text, n + 1, m - 1)
           value == [type |-> val.type, from |-> val.from, end |-> val.end]
<1>1. /\ n < e /\ text[n] = Quote /\ m # 0 /\ v < e /\ val.type # "unknown" /\ d # e
      /\ d < e => text[d] \in {",", "}"}
      /\ Pair(p, e) = [name |-> name, value |-> value, next |-> d, more |-> more]
  BY Zenon DEF Pair, PairOf, Stretch
<1>0. e \in Nat /\ p \in Nat /\ 1 <= p
  OBVIOUS
<1>2. n \in Nat /\ p <= n
  BY <1>0, SkipIs, Zenon
<1>3. m \in Nat /\ n < m
  <2>0. n + 1 \in Nat
    <3> HIDE DEF n
    <3> QED BY <1>2
  <2>1. n + 1 \in Nat /\ e \in Nat
    BY <1>0, <2>0
  <2>2. StringEnd(n + 1, e) = 0 \/ StringEnd(n + 1, e) \in (n + 1)..(e - 1)
    BY <2>1, StringEndIs, Zenon
  <2>3. m = StringEnd(n + 1, e)
    BY <1>1 DEF NameEnd
  <2>4. m # 0
    BY <1>1
  <2> HIDE DEF n, m
  <2> QED BY <1>2, <2>1, <2>2, <2>3, <2>4
<1>4. c \in Nat /\ m + 1 <= c
  BY <1>0, <1>3, SkipNext, Zenon
<1>5. v \in Nat /\ c + 1 <= v
  BY <1>0, <1>4, SkipNext, Zenon
<1>6. v \in 1..(e - 1) /\ p <= v
  <2>1. v < e
    BY <1>1
  <2> HIDE DEF n, m, c, v
  <2> QED BY <1>0, <1>2, <1>3, <1>4, <1>5, <2>1
<1>7. /\ val.last \in Nat
      /\ Closed(val) => Inside(val) /\ v <= val.from /\ val.from <= val.last
  <2> HIDE DEF v
  <2> QED BY <1>1, <1>6, ValueIs
<1>8. d \in Nat /\ val.last + 1 <= d
  BY <1>0, <1>7, SkipNext, Zenon
<1> HIDE DEF n, m, c, v, val, d
<1>9. (Closed(value) <=> Closed(val)) /\ (Inside(value) <=> Inside(val)) /\ value.from = val.from
  BY DEF Closed, Inside
<1>10. Closed(value) => Inside(value) /\ p <= value.from /\ value.from < d
  BY <1>6, <1>7, <1>8, <1>9 DEF Inside
<1> HIDE DEF value
<1>11. Pair(p, e).value = value /\ Pair(p, e).next = d /\ Pair(p, e).more = more
  <2>1. Pair(p, e) = [name |-> name, value |-> value, next |-> d, more |-> more]
    BY <1>1
  <2> HIDE DEF more, name
  <2> QED BY <2>1
<1>12. d \in Nat \ {0}
  BY <1>7, <1>8
<1> QED BY <1>1, <1>10, <1>11, <1>12 DEF Behind, n

LEMMA ElemIs ==
  ASSUME text \in Seq(STRING), NEW e \in 1..(Len(text) + 1), NEW p \in Nat \ {0},
         Elem(p, e) # Nothing
  PROVE  /\ Elem(p, e).next \in Nat \ {0}
         /\ Elem(p, e).more = (Elem(p, e).next < e /\ text[Elem(p, e).next] = ",")
         /\ Closed(Elem(p, e).value) => Behind(Elem(p, e), p)
<1> DEFINE v == SkipSpace(p, e)
           val == Value(v, e, {",", "}", "]"})
           d == SkipSpace(val.last + 1, e)
           more == d < e /\ text[d] = ","
           value == [type |-> val.type, from |-> val.from, end |-> val.end]
<1>1. /\ v < e /\ val.type # "unknown"
      /\ Elem(p, e) = [value |-> value, next |-> d, more |-> more]
  BY Zenon DEF Elem, ElemOf, Stretch
<1>0. e \in Nat /\ p \in Nat /\ 1 <= p
  OBVIOUS
<1>2. v \in Nat /\ p <= v
  BY <1>0, SkipIs, Zenon
<1>6. v \in 1..(e - 1)
  <2>1. v < e
    BY <1>1
  <2> HIDE DEF v
  <2> QED BY <1>0, <1>2, <2>1
<1>7. /\ val.last \in Nat
      /\ Closed(val) => Inside(val) /\ v <= val.from /\ val.from <= val.last
  <2> HIDE DEF v
  <2> QED BY <1>1, <1>6, ValueIs
<1>8. d \in Nat /\ val.last + 1 <= d
  BY <1>0, <1>7, SkipNext, Zenon
<1> HIDE DEF v, val, d
<1>9. (Closed(value) <=> Closed(val)) /\ (Inside(value) <=> Inside(val)) /\ value.from = val.from
  BY DEF Closed, Inside
<1>10. Closed(value) => Inside(value) /\ p <= value.from /\ value.from < d
  BY <1>2, <1>7, <1>8, <1>9 DEF Inside
<1> HIDE DEF value
<1>11. Elem(p, e).value = value /\ Elem(p, e).next = d /\ Elem(p, e).more = more
  <2>1. Elem(p, e) = [value |-> value, next |-> d, more |-> more]
    BY <1>1
  <2> HIDE DEF more
  <2> QED BY <2>1
<1>12. d \in Nat \ {0}
  BY <1>7, <1>8
<1> QED BY <1>10, <1>11, <1>12 DEF Behind

LEMMA ItemIs ==
  ASSUME text \in Seq(STRING), NEW e \in 1..(Len(text) + 1), NEW p \in Nat \ {0}, NEW what,
         Item(what, p, e) # Nothing
  PROVE  /\ Item(what, p, e).next \in Nat \ {0}
         /\ Closed(Item(what, p, e).value) => Behind(Item(what, p, e), p)
  BY PairIs, ElemIs, Zenon DEF Item

-----------------------------------------------------------------------------
(***************************************************************************)
(* The loops.                                                              *)
(***************************************************************************)
LEMMA TurnsIs ==
  ASSUME text \in Seq(STRING)
  PROVE  Turns \in Nat \ {0}
<1>1. Len(text) \in Nat /\ IsFiniteSet(1..Len(text))
  BY FS_Interval
<1> DEFINE commas == {i \in 1..Len(text) : text[i] = ","}
<1>2. Cardinality(commas) \in Nat
  <2>1. commas \subseteq 1..Len(text)
    OBVIOUS
  <2> HIDE DEF commas
  <2> QED BY <1>1, <2>1, FS_Subset, FS_CardinalityType
<1>3. Turns = Cardinality(commas) + 1
  BY DEF Turns, Count
<1> HIDE DEF commas
<1> QED BY <1>2, <1>3

\* The loop's items after each of n turns.
Loops(what, p, e, n, after) ==
  after = [k \in 0..n |-> IF k = 0 THEN <<>> ELSE WithNext(what, p, e, after[k - 1])]

LEMMA LoopExists ==
  ASSUME NEW what, NEW p, NEW e, NEW n \in Nat
  PROVE  \E after : Loops(what, p, e, n, after)
<1> DEFINE Bad == {k \in Nat : ~ \E after : Loops(what, p, e, k, after)}
<1>1. SUFFICES ASSUME Bad # {} PROVE FALSE
  OBVIOUS
<1>2. PICK k \in Bad : \A m \in Bad : k <= m
  BY <1>1, LowestIs
<1>3. k \in Nat /\ \A m \in Nat : m < k => \E after : Loops(what, p, e, m, after)
  BY <1>2
<1>4. CASE k = 0
  <2> DEFINE after == [i \in 0..0 |-> <<>>]
  <2>1. Loops(what, p, e, 0, after)
    BY DEF Loops
  <2> QED BY <1>2, <1>4, <2>1
<1>5. CASE k # 0
  <2>1. k - 1 \in Nat /\ k - 1 < k
    BY <1>3, <1>5
  <2>2. PICK after : Loops(what, p, e, k - 1, after)
    BY <1>3, <2>1
  <2> DEFINE on == [i \in 0..k |-> IF i < k THEN after[i]
                                   ELSE WithNext(what, p, e, after[k - 1])]
             Turn(f, i) == IF i = 0 THEN <<>> ELSE WithNext(what, p, e, f[i - 1])
  <2>3. ASSUME NEW i \in 0..k PROVE on[i] = Turn(on, i)
    <3>1. i # 0 => on[i - 1] = after[i - 1]
      BY <1>3
    <3>2. ASSUME i < k PROVE after[i] = Turn(after, i)
      <4>1. i \in 0..(k - 1)
        BY <1>3, <3>2
      <4>2. after = [j \in 0..(k - 1) |-> Turn(after, j)]
        BY <2>2 DEF Loops
      <4> HIDE DEF Turn
      <4> QED BY <4>1, <4>2
    <3>3. i < k \/ i = k
      BY <1>3
    <3>4. Turn(on, i) = Turn(after, i)
      BY <3>1
    <3>5. on[i] = IF i < k THEN after[i] ELSE WithNext(what, p, e, after[k - 1])
      OBVIOUS
    <3> HIDE DEF on
    <3>6. CASE i < k
      BY <3>2, <3>4, <3>5, <3>6
    <3>7. CASE i = k
      <4>1. ~(i < k)
        BY <1>3, <3>7
      <4> QED BY <1>5, <3>4, <3>5, <3>7, <4>1
    <3> QED BY <3>3, <3>6, <3>7
  <2>4. on = [i \in 0..k |-> Turn(on, i)]
    BY <2>3
  <2>5. Loops(what, p, e, k, on)
    BY <2>4, Zenon DEF Loops
  <2> QED BY <1>2, <2>5
<1> QED BY <1>4, <1>5

LEMMA ItemsAre ==
  ASSUME text \in Seq(STRING), NEW what, NEW p, NEW e
  PROVE  \E after : Items(what, p, e) = after[Turns] /\ Loops(what, p, e, Turns, after)
<1> DEFINE after == CHOOSE f : Loops(what, p, e, Turns, f)
<1>1. Items(what, p, e) = after[Turns]
  BY Zenon DEF Items, Loops
<1>2. Loops(what, p, e, Turns, after)
  BY TurnsIs, LoopExists
<1> QED BY <1>1, <1>2, Zenon

\* Items each found behind the one before.
Found(what, e) == {Item(what, q, e) : q \in Nat \ {0}} \ {Nothing}
Chain(items, what, p, e) ==
  /\ items \in Seq(Found(what, e))
  /\ items # <<>> => items[1] = Item(what, p, e)
  /\ \A i \in 2..Len(items) : items[i - 1].more /\ items[i] = Item(what, items[i - 1].next + 1, e)

LEMMA ChainGrows ==
  ASSUME text \in Seq(STRING), NEW what, NEW p \in Nat \ {0}, NEW e \in 1..(Len(text) + 1),
         NEW items, Chain(items, what, p, e)
  PROVE  Chain(WithNext(what, p, e, items), what, p, e)
<1> DEFINE last == items[Len(items)]
           item == IF items = <<>> THEN Item(what, p, e)
                   ELSE IF last.more THEN Item(what, last.next + 1, e)
                   ELSE Nothing
<1>1. WithNext(what, p, e, items) = IF item = Nothing THEN items ELSE Append(items, item)
  <2>1. CASE items = <<>>
    BY <2>1, Zenon DEF WithNext, Longer
  <2>2. CASE items # <<>>
    BY <2>2, Zenon DEF WithNext, Longer
  <2> QED BY <2>1, <2>2
<1>2. CASE item = Nothing
  BY <1>1, <1>2
<1>3. CASE item # Nothing
  <2>1. Len(items) \in Nat /\ items \in Seq(Found(what, e))
    BY DEF Chain
  <2>2. items # <<>> => Len(items) \in 1..Len(items) /\ last.more /\ last.next \in Nat \ {0}
    <3>1. SUFFICES ASSUME items # <<>> PROVE Len(items) \in 1..Len(items) /\ last.next \in Nat \ {0}
      BY <1>3
    <3>2. Len(items) \in 1..Len(items)
      BY <2>1, <3>1
    <3>3. last \in Found(what, e)
      BY <2>1, <3>2
    <3>4. PICK q \in Nat \ {0} : last = Item(what, q, e) /\ last # Nothing
      BY <3>3 DEF Found
    <3> HIDE DEF last
    <3>5. last.next \in Nat \ {0}
      BY <3>4, ItemIs
    <3> QED BY <3>2, <3>5
  <2>3. item \in Found(what, e)
    <3>1. CASE items = <<>>
      BY <1>3, <3>1 DEF Found
    <3>2. CASE items # <<>>
      <4>1. last.next + 1 \in Nat \ {0} /\ item = Item(what, last.next + 1, e)
        BY <2>2, <3>2
      <4> HIDE DEF item, last
      <4> QED BY <1>3, <4>1 DEF Found
    <3> QED BY <3>1, <3>2
  <2>4. /\ items = <<>> => item = Item(what, p, e)
        /\ items # <<>> => last.more /\ item = Item(what, last.next + 1, e)
    BY <2>2
  <2> DEFINE on == Append(items, item)
  <2> HIDE DEF item
  <2>5. /\ on \in Seq(Found(what, e)) /\ Len(on) = Len(items) + 1 /\ on[Len(items) + 1] = item
        /\ \A i \in 1..Len(items) : on[i] = items[i]
    BY <2>1, <2>3
  <2>6. on[1] = Item(what, p, e)
    <3>1. CASE items = <<>>
      BY <2>4, <2>5, <3>1
    <3>2. CASE items # <<>>
      <4>1. 1 \in 1..Len(items)
        BY <2>1, <3>2
      <4> QED BY <2>5, <3>2, <4>1 DEF Chain
    <3> QED BY <3>1, <3>2
  <2>7. ASSUME NEW i \in 2..Len(on)
        PROVE  on[i - 1].more /\ on[i] = Item(what, on[i - 1].next + 1, e)
    <3>1. CASE i = Len(items) + 1
      <4>1. items # <<>> /\ i - 1 = Len(items) /\ Len(items) \in 1..Len(items)
        BY <2>1, <3>1
      <4>2. on[i - 1] = last /\ on[i] = item
        BY <2>5, <3>1, <4>1
      <4> HIDE DEF on, last
      <4> QED BY <2>4, <4>1, <4>2
    <3>2. CASE i # Len(items) + 1
      <4>1. i \in 2..Len(items) /\ i - 1 \in 1..Len(items) /\ i \in 1..Len(items)
        BY <2>1, <2>5, <3>2
      <4>2. on[i] = items[i] /\ on[i - 1] = items[i - 1]
        BY <2>5, <4>1
      <4> HIDE DEF on
      <4> QED BY <4>1, <4>2 DEF Chain
    <3> QED BY <3>1, <3>2
  <2> HIDE DEF on
  <2>8. Chain(on, what, p, e)
    BY <2>5, <2>6, <2>7 DEF Chain
  <2> QED BY <1>1, <1>3, <2>8 DEF on, item
<1> QED BY <1>2, <1>3

LEMMA ItemsChain ==
  ASSUME text \in Seq(STRING), NEW what, NEW p \in Nat \ {0}, NEW e \in 1..(Len(text) + 1)
  PROVE  Chain(Items(what, p, e), what, p, e)
<1>1. PICK after : Items(what, p, e) = after[Turns] /\ Loops(what, p, e, Turns, after)
  BY ItemsAre
<1>2. Turns \in Nat
  BY TurnsIs
<1>3. \A k \in 0..Turns : after[k] = IF k = 0 THEN <<>> ELSE WithNext(what, p, e, after[k - 1])
  BY <1>1, Zenon DEF Loops
<1> DEFINE Bad == {k \in 0..Turns : ~Chain(after[k], what, p, e)}
<1>4. ASSUME Bad # {} PROVE FALSE
  <2>1. PICK k \in Bad : \A m \in Bad : k <= m
    <3>1. Bad \subseteq Nat
      BY <1>2
    <3> QED BY <1>4, <3>1, LowestIs, Zenon
  <2>2. k \in 0..Turns /\ ~Chain(after[k], what, p, e)
    BY <2>1
  <2>3. CASE k = 0
    <3>1. Chain(<<>>, what, p, e)
      BY DEF Chain
    <3> QED BY <1>3, <2>2, <2>3, <3>1
  <2>4. CASE k # 0
    <3>1. k - 1 \in 0..Turns /\ ~(k <= k - 1)
      BY <1>2, <2>2, <2>4
    <3>2. Chain(after[k - 1], what, p, e)
      BY <2>1, <3>1
    <3> QED BY <1>3, <2>2, <2>4, <3>2, ChainGrows
  <2> QED BY <2>3, <2>4
<1>5. Turns \in 0..Turns
  BY <1>2
<1> QED BY <1>1, <1>4, <1>5

-----------------------------------------------------------------------------
(***************************************************************************)
(* What a right text has.                                                  *)
(***************************************************************************)
\* The items of a loop that goes through to its end: each value is in the text, behind
\* what was before it, and one more turn finds nothing.
Walked(what, p, e) ==
  LET items == Items(what, p, e)
  IN  /\ \A k \in 1..Len(items) : Inside(items[k].value) /\ items[k].value.from < items[k].next
      /\ \A k \in 2..Len(items) : items[k - 1].next < items[k].value.from
      /\ WithNext(what, p, e, items) = items

LEMMA ItemsInside ==
  ASSUME text \in Seq(STRING), NEW what, NEW p \in Nat \ {0}, NEW e \in 1..(Len(text) + 1),
         \A k \in 1..Len(Items(what, p, e)) : Closed(Items(what, p, e)[k].value)
  PROVE  LET items == Items(what, p, e)
         IN  /\ Len(items) \in Nat
             /\ \A k \in 1..Len(items) :
                  /\ Inside(items[k].value) /\ items[k].value.from < items[k].next
                  /\ items[k].next \in Nat \ {0}
             /\ \A k \in 2..Len(items) : items[k - 1].next < items[k].value.from
<1> DEFINE items == Items(what, p, e)
<1>1. Chain(items, what, p, e)
  BY ItemsChain
<1>2. \A k \in 1..Len(items) : Closed(items[k].value)
  OBVIOUS
<1> HIDE DEF items
<1>3. items \in Seq(Found(what, e)) /\ Len(items) \in Nat
  BY <1>1 DEF Chain
<1>4. ASSUME NEW k \in 1..Len(items)
      PROVE  /\ Inside(items[k].value) /\ items[k].value.from < items[k].next
             /\ items[k].next \in Nat \ {0}
  <2>1. items[k] \in Found(what, e)
    BY <1>3
  <2>2. PICK q \in Nat \ {0} : items[k] = Item(what, q, e) /\ items[k] # Nothing
    BY <2>1 DEF Found
  <2>3. items[k].next \in Nat \ {0} /\ Behind(items[k], q)
    BY <1>2, <2>2, ItemIs
  <2> QED BY <2>3 DEF Behind
<1>5. ASSUME NEW k \in 2..Len(items)
      PROVE  items[k - 1].next < items[k].value.from
  <2>1. k - 1 \in 1..Len(items) /\ k \in 1..Len(items)
    BY <1>3
  <2> DEFINE q == items[k - 1].next
  <2>2. q \in Nat /\ q + 1 \in Nat \ {0}
    BY <1>4, <2>1
  <2>3. items[k] = Item(what, q + 1, e)
    BY <1>1 DEF Chain
  <2>4. items[k] # Nothing
    <3>1. items[k] \in Found(what, e)
      BY <1>3, <2>1
    <3> QED BY <3>1 DEF Found
  <2> HIDE DEF q
  <2>5. Behind(items[k], q + 1)
    BY <1>2, <2>1, <2>2, <2>3, <2>4, ItemIs
  <2>6. items[k].value.from \in Nat /\ q + 1 <= items[k].value.from
    BY <2>5 DEF Behind, Inside
  <2> QED BY <2>2, <2>6 DEF q
<1> QED BY <1>3, <1>4, <1>5 DEF items

\* Behind nothing but blanks there is no item.
LEMMA RestIs ==
  ASSUME NEW p \in Nat, NEW e \in Nat, Rest(p, e), NEW what
  PROVE  Item(what, p, e) = Nothing
<1>1. ~(SkipSpace(p, e) < e)
  <2>1. SkipSpace(p, e) \in Nat /\ p <= SkipSpace(p, e)
    BY SkipIs, Zenon
  <2>2. SkipSpace(p, e) < e => text[SkipSpace(p, e)] \notin Space
    BY SkipIs, Zenon
  <2>3. SkipSpace(p, e) < e => SkipSpace(p, e) \in p..(e - 1)
    BY <2>1
  <2> QED BY <2>2, <2>3 DEF Rest
<1> QED BY <1>1, Zenon DEF Item, Pair, Elem

\* Nor where the object or the array is closed.
LEMMA ClosedIs ==
  ASSUME NEW p, NEW e
  PROVE  /\ Closes(p, e, "}") => Item("pairs", p, e) = Nothing
         /\ Closes(p, e, "]") => Item("elems", p, e) = Nothing
<1>1. ASSUME Closes(p, e, "}") PROVE Pair(p, e) = Nothing
  <2>1. text[SkipSpace(p, e)] # Quote
    BY <1>1 DEF Closes, Quote
  <2> QED BY <2>1, Zenon DEF Pair
<1>2. ASSUME Closes(p, e, "]") PROVE Elem(p, e) = Nothing
  <2> DEFINE v == SkipSpace(p, e)
  <2>1. text[v] = "]"
    BY <1>2 DEF Closes
  <2>2. Value(v, e, {",", "}", "]"}).type = "unknown"
    <3> HIDE DEF v
    <3> QED BY <2>1 DEF Value, Unknown, Quote, Digit
  <2> QED BY <2>2, Zenon DEF Elem, ElemOf
<1> QED BY <1>1, <1>2 DEF Item

LEMMA RightWalked ==
  ASSUME text \in Seq(STRING), NEW what, NEW p \in Nat \ {0}, NEW e \in 1..(Len(text) + 1),
         NEW right, NEW close, what = "pairs" \/ what = "elems",
         ItemsOk(right, Items(what, p, e), e, close)
  PROVE  Walked(what, p, e)
<1> DEFINE items == Items(what, p, e)
           n == Len(items)
<1>1. \A k \in 1..n : Closed(items[k].value)
  BY DEF ItemsOk, NestedOk, Closed
<1>2. /\ n \in Nat
      /\ \A k \in 1..n : /\ Inside(items[k].value) /\ items[k].value.from < items[k].next
                          /\ items[k].next \in Nat \ {0}
      /\ \A k \in 2..n : items[k - 1].next < items[k].value.from
  BY <1>1, ItemsInside
<1>3. /\ n > 0 /\ items[n].next # e
      /\ items[n].next < e => text[items[n].next] = close /\ Rest(items[n].next + 1, e)
  BY DEF ItemsOk
<1>4. Chain(items, what, p, e)
  BY ItemsChain
<1> HIDE DEF items
<1>5. Len(items) \in 1..Len(items) /\ items # <<>> /\ items \in Seq(Found(what, e))
  <2>1. items \in Seq(Found(what, e)) /\ Len(items) > 0
    BY <1>3, <1>4 DEF Chain
  <2> QED BY <2>1
<1> DEFINE last == items[Len(items)]
<1>6. last.more => last.next < e
  <2>1. last \in Found(what, e)
    BY <1>5, ElementOfSeq
  <2>2. PICK q \in Nat \ {0} : last = Item(what, q, e) /\ last # Nothing
    BY <2>1 DEF Found
  <2> HIDE DEF last
  <2>3. last.more => last.next < e
    <3>1. CASE what = "pairs"
      BY <2>2, <3>1, PairIs DEF Item
    <3>2. CASE what = "elems"
      BY <2>2, <3>2, ElemIs DEF Item
    <3> QED BY <3>1, <3>2
  <2> QED BY <2>3
<1>7. last.more => Item(what, last.next + 1, e) = Nothing
  <2>1. SUFFICES ASSUME last.more PROVE Item(what, last.next + 1, e) = Nothing
    OBVIOUS
  <2>2. Rest(last.next + 1, e)
    BY <1>3, <1>6, <2>1
  <2>3. last.next \in Nat /\ e \in Nat
    BY <1>2, <1>5
  <2>4. last.next + 1 \in Nat
    <3> HIDE DEF last
    <3> QED BY <2>3
  <2> HIDE DEF last
  <2> QED BY <2>2, <2>3, <2>4, RestIs
<1>8. WithNext(what, p, e, items) = items
  BY <1>5, <1>7 DEF WithNext, Longer
<1> QED BY <1>2, <1>8 DEF Walked, items

LEMMA NoneWalked ==
  ASSUME text \in Seq(STRING), NEW what, NEW p \in Nat \ {0}, NEW e \in 1..(Len(text) + 1),
         Item(what, p, e) = Nothing
  PROVE  Items(what, p, e) = <<>> /\ Walked(what, p, e)
<1>1. Chain(Items(what, p, e), what, p, e)
  BY ItemsChain
<1>2. ASSUME Items(what, p, e) # <<>> PROVE FALSE
  <2> DEFINE items == Items(what, p, e)
  <2>1. items \in Seq(Found(what, e)) /\ items # <<>> /\ items[1] = Nothing
    BY <1>1, <1>2 DEF Chain
  <2> HIDE DEF items
  <2>2. 1 \in 1..Len(items)
    BY <2>1
  <2>3. items[1] \in Found(what, e)
    BY <2>1, <2>2, ElementOfSeq
  <2> QED BY <2>1, <2>3 DEF Found
<1>3. WithNext(what, p, e, <<>>) = <<>>
  BY DEF WithNext, Longer
<1> QED BY <1>2, <1>3 DEF Walked

LEMMA PairsWalked ==
  ASSUME text \in Seq(STRING), NEW p \in Nat \ {0}, NEW e \in 1..(Len(text) + 1),
         NEW right, PairsOk(right, p, e)
  PROVE  Walked("pairs", p, e)
<1>1. CASE Closes(p, e, "}")
  BY <1>1, NoneWalked, ClosedIs
<1>2. CASE ItemsOk(right, Items("pairs", p, e), e, "}")
  BY <1>2, RightWalked, Zenon
<1> QED BY <1>1, <1>2 DEF PairsOk

LEMMA ElemsWalked ==
  ASSUME text \in Seq(STRING), NEW p \in Nat \ {0}, NEW e \in 1..(Len(text) + 1),
         NEW right, ElemsCount(right, p, e) >= 0
  PROVE  Walked("elems", p, e) /\ ElemsCount(right, p, e) = Len(Items("elems", p, e))
<1>1. CASE Closes(p, e, "]")
  <2>1. ElemsCount(right, p, e) = 0
    BY <1>1 DEF ElemsCount, CountOk
  <2>2. Items("elems", p, e) = <<>> /\ Walked("elems", p, e)
    BY <1>1, NoneWalked, ClosedIs
  <2> QED BY <2>1, <2>2
<1>2. CASE ~Closes(p, e, "]")
  <2> DEFINE items == Items("elems", p, e)
  <2>1. ElemsCount(right, p, e) = IF ItemsOk(right, items, e, "]") THEN Len(items) ELSE -1
    BY <1>2 DEF ElemsCount, CountOk
  <2>2. ItemsOk(right, items, e, "]")
    BY <2>1
  <2> QED BY <2>1, <2>2, RightWalked
<1> QED BY <1>1, <1>2

\* The loop over an object's pairs or an array's elements begins after its bracket.
Begin(from, e) == SkipSpace(from, e) + 1

LEMMA FirstIs ==
  ASSUME text \in Seq(STRING), NEW from \in Nat, NEW e \in 1..(Len(text) + 1), NEW what
  PROVE  /\ Begin(from, e) \in Nat \ {0}
         /\ Chain(Items(what, Begin(from, e), e), what, Begin(from, e), e)
<1>1. e \in Nat
  OBVIOUS
<1>2. SkipSpace(from, e) \in Nat
  BY <1>1, SkipIs, Zenon
<1>3. Begin(from, e) \in Nat \ {0}
  BY <1>2 DEF Begin
<1> QED BY <1>3, ItemsChain, Zenon

LEMMA ObjectWalked ==
  ASSUME text \in Seq(STRING), NEW from \in Nat, NEW e \in 1..(Len(text) + 1),
         ObjectOk(from, e)
  PROVE  Walked("pairs", Begin(from, e), e)
<1>1. PairsOk(Right, Begin(from, e), e)
  BY Zenon DEF ObjectOk, Begin
<1>2. Begin(from, e) \in Nat \ {0}
  BY FirstIs, Zenon
<1> QED BY <1>1, <1>2, PairsWalked, Zenon

LEMMA ArrayWalked ==
  ASSUME text \in Seq(STRING), NEW from \in Nat, NEW e \in 1..(Len(text) + 1),
         ArrayLen(from, e) >= 0
  PROVE  /\ Walked("elems", Begin(from, e), e)
         /\ ArrayLen(from, e) = Len(Items("elems", Begin(from, e), e))
         /\ SkipSpace(from, e) < e /\ text[SkipSpace(from, e)] = "["
<1> DEFINE p == SkipSpace(from, e)
<1>1. ArrayLen(from, e) = IF from > 0 /\ p < e /\ text[p] = "["
                          THEN ElemsCount(Right, Begin(from, e), e) ELSE -1
  BY Zenon DEF ArrayLen, Begin
<1>2. p < e /\ text[p] = "[" /\ ArrayLen(from, e) = ElemsCount(Right, Begin(from, e), e)
  BY <1>1
<1>3. Begin(from, e) \in Nat \ {0}
  BY FirstIs, Zenon
<1>4. ElemsCount(Right, Begin(from, e), e) >= 0
  BY <1>2
<1> QED BY <1>2, <1>3, <1>4, ElemsWalked, Zenon

LEMMA ArrayLenIs ==
  ASSUME text \in Seq(STRING), NEW from \in Nat, NEW e \in 1..(Len(text) + 1)
  PROVE  ArrayLen(from, e) \in Nat \cup {-1}
<1> DEFINE elems == Items("elems", Begin(from, e), e)
           count == ElemsCount(Right, Begin(from, e), e)
<1>1. Len(elems) \in Nat
  <2>1. Chain(elems, "elems", Begin(from, e), e)
    BY FirstIs, Zenon
  <2> HIDE DEF elems
  <2> QED BY <2>1 DEF Chain
<1>2. count \in Nat \cup {-1}
  BY <1>1 DEF ElemsCount, CountOk
<1>3. ArrayLen(from, e) = count \/ ArrayLen(from, e) = -1
  BY Zenon DEF ArrayLen, Begin
<1> HIDE DEF count
<1> QED BY <1>2, <1>3

\* find_key hands over nothing, or a stretch of the text.
LEMMA KeyIs ==
  ASSUME text \in Seq(STRING), NEW o, o.from \in Nat, o.end \in 1..(Len(text) + 1), NEW name
  PROVE  find_key(o, name) = NoValue \/ Inside(find_key(o, name))
<1> DEFINE pairs == Items("pairs", Begin(o.from, o.end), o.end)
           named == {k \in DOMAIN pairs : pairs[k].name = name}
           k == CHOOSE i \in named : \A m \in named : i <= m
<1>1. find_key(o, name) = IF ObjectOk(o.from, o.end) /\ named # {} THEN pairs[k].value ELSE NoValue
  <2>1. CASE ObjectOk(o.from, o.end)
    <3>1. find_key(o, name) = FirstNamed(pairs, name)
      BY <2>1, Zenon DEF find_key, Begin
    <3> HIDE DEF pairs
    <3>2. FirstNamed(pairs, name) = IF named = {} THEN NoValue ELSE pairs[k].value
      BY Zenon DEF FirstNamed
    <3> HIDE DEF named, k
    <3> QED BY <2>1, <3>1, <3>2
  <2>2. CASE ~ObjectOk(o.from, o.end)
    BY <2>2, Zenon DEF find_key
  <2> QED BY <2>1, <2>2
<1>2. ASSUME ObjectOk(o.from, o.end), named # {} PROVE Inside(pairs[k].value)
  <2>1. Walked("pairs", Begin(o.from, o.end), o.end)
    BY <1>2, ObjectWalked
  <2>2. Chain(pairs, "pairs", Begin(o.from, o.end), o.end)
    BY FirstIs, Zenon
  <2>3. \A i \in 1..Len(pairs) : Inside(pairs[i].value)
    BY <2>1 DEF Walked
  <2> HIDE DEF pairs
  <2>4. DOMAIN pairs = 1..Len(pairs) /\ Len(pairs) \in Nat
    BY <2>2 DEF Chain
  <2>5. named \subseteq Nat
    BY <2>4
  <2>6. \E i \in named : \A m \in named : i <= m
    BY <1>2, <2>5, LowestIs, Zenon
  <2>7. k \in named
    BY <2>6
  <2> HIDE DEF k
  <2> QED BY <2>3, <2>4, <2>7
<1> QED BY <1>1, <1>2

\* find_elem finds every element there is, and each is a stretch of the text.
LEMMA ElemFound ==
  ASSUME text \in Seq(STRING), NEW a, a.from \in Nat, a.end \in 1..(Len(text) + 1),
         NEW idx \in Nat, idx < ArrayLen(a.from, a.end)
  PROVE  find_elem(a, idx) # NoValue /\ Inside(find_elem(a, idx))
<1> DEFINE elems == Items("elems", Begin(a.from, a.end), a.end)
           p == SkipSpace(a.from, a.end)
<1>0. ArrayLen(a.from, a.end) \in Int
  BY ArrayLenIs
<1>1. ArrayLen(a.from, a.end) >= 0
  BY <1>0
<1>2. /\ Walked("elems", Begin(a.from, a.end), a.end) /\ ArrayLen(a.from, a.end) = Len(elems)
      /\ p < a.end /\ text[p] = "["
  BY <1>1, ArrayWalked
<1>3. find_elem(a, idx) = IF p < a.end /\ text[p] = "[" /\ idx + 1 \in DOMAIN elems
                          THEN elems[idx + 1].value ELSE NoValue
  BY Zenon DEF find_elem, ValueAt, Begin
<1>4. Chain(elems, "elems", Begin(a.from, a.end), a.end)
  BY FirstIs, Zenon
<1>5. \A i \in 1..Len(elems) : Inside(elems[i].value)
  BY <1>2 DEF Walked
<1>6. idx < Len(elems)
  BY <1>2
<1> HIDE DEF elems
<1>7. DOMAIN elems = 1..Len(elems) /\ Len(elems) \in Nat
  BY <1>4 DEF Chain
<1>8. idx + 1 \in 1..Len(elems)
  BY <1>6, <1>7
<1>9. find_elem(a, idx) = elems[idx + 1].value
  BY <1>2, <1>3, <1>7, <1>8
<1>10. Inside(find_elem(a, idx))
  BY <1>5, <1>8, <1>9
<1>11. ~Inside(NoValue)
  BY DEF Inside, NoValue
<1> QED BY <1>10, <1>11

-----------------------------------------------------------------------------
(***************************************************************************)
(* The parsers.                                                            *)
(***************************************************************************)
\* An array counts the elements of a right text, none of a wrong one; the element it
\* remembers is the one a search from the start would find.
ArrayInv(a) ==
  \/ a = NoArray
  \/ /\ a = [from |-> a.from, end |-> a.end, err |-> a.err, count |-> a.count,
              id |-> a.id, cur |-> a.cur]
     /\ Inside(a)
     /\ a.count \in Nat /\ a.id \in Int
     /\ a.count > 0 => a.count = ArrayLen(a.from, a.end)
     /\ a.id # -1 => a.id \in 0..(a.count - 1) /\ a.cur = find_elem(a, a.id)

Errors == {"noerr", "syntax", "empty", "notFound", "typeMismatch"}
Parser == [from : Nat, end : Nat, err : Errors]
JsonInv ==
  /\ text \in Seq(STRING)
  /\ objs \in [{"doc", "sub"} -> Parser]
  /\ \A h \in {"doc", "sub"} : objs[h] = NoJSONP \/ Inside(objs[h])
  /\ ArrayInv(arr)
  /\ objs["doc"] = NoJSONP => objs["sub"] = NoJSONP /\ arr = NoArray

\* What a getter of an object hands over.
LEMMA AnswerIs ==
  ASSUME text \in Seq(STRING), NEW o \in Parser, o = NoJSONP \/ Inside(o), NEW name, NEW for
  PROVE  LET given == Answer(o, name, for)
         IN  /\ given.err \in Errors
             /\ given.value = NoValue \/ (Inside(given.value) /\ Fits(given.value, for))
<1> DEFINE v == find_key(o, name)
<1>1. CASE o.err # "noerr"
  <2>1. Answer(o, name, for) = [err |-> o.err, value |-> NoValue] /\ o.err \in Errors
    BY <1>1 DEF Answer, Parser
  <2> QED BY <2>1
<1>2. CASE o.err = "noerr"
  <2>1. Inside(o)
    BY <1>2 DEF NoJSONP
  <2>2. v = NoValue \/ Inside(v)
    <3>1. o.from \in Nat /\ o.end \in 1..(Len(text) + 1)
      BY <2>1 DEF Inside
    <3> QED BY <3>1, KeyIs, Zenon
  <2>3. Answer(o, name, for) = Checked(v, for)
    BY <1>2 DEF Answer
  <2> HIDE DEF v
  <2>4. Checked(v, for) = IF v = NoValue THEN [err |-> "notFound", value |-> NoValue]
                          ELSE IF ~Fits(v, for) THEN [err |-> "typeMismatch", value |-> NoValue]
                          ELSE [err |-> "noerr", value |-> v]
    BY Zenon DEF Checked
  <2>5. CASE v = NoValue
    <3>1. Answer(o, name, for) = [err |-> "notFound", value |-> NoValue]
      BY <2>3, <2>4, <2>5
    <3> QED BY <3>1 DEF Errors
  <2>6. CASE v # NoValue /\ ~Fits(v, for)
    <3>1. Answer(o, name, for) = [err |-> "typeMismatch", value |-> NoValue]
      BY <2>3, <2>4, <2>6
    <3> QED BY <3>1 DEF Errors
  <2>7. CASE v # NoValue /\ Fits(v, for)
    <3>1. Answer(o, name, for) = [err |-> "noerr", value |-> v]
      BY <2>3, <2>4, <2>7
    <3> QED BY <2>2, <2>7, <3>1 DEF Errors
  <2> QED BY <2>5, <2>6, <2>7
<1> QED BY <1>1, <1>2

\* An array with another error, or with another element that a search would find.
LEMMA ArrayKeeps ==
  ASSUME NEW a, ArrayInv(a), a # NoArray, NEW err, NEW id \in Int, NEW cur,
         id # -1 => id \in 0..(a.count - 1) /\ cur = find_elem(a, id)
  PROVE  LET b == [from |-> a.from, end |-> a.end, err |-> err, count |-> a.count,
                   id |-> id, cur |-> cur]
         IN  ArrayInv(b) /\ b # NoArray
<1> DEFINE b == [from |-> a.from, end |-> a.end, err |-> err, count |-> a.count,
                 id |-> id, cur |-> cur]
<1>1. Inside(a) /\ a.count \in Nat /\ (a.count > 0 => a.count = ArrayLen(a.from, a.end))
  BY DEF ArrayInv
<1>2. /\ b.from = a.from /\ b.end = a.end /\ b.err = err /\ b.count = a.count /\ b.id = id
      /\ b.cur = cur
  OBVIOUS
<1>3. b = [from |-> b.from, end |-> b.end, err |-> b.err, count |-> b.count,
           id |-> b.id, cur |-> b.cur]
  BY <1>2
<1> HIDE DEF b
<1>4. Inside(b) /\ b # NoArray
  BY <1>1, <1>2 DEF Inside, NoArray
<1>5. find_elem(b, id) = find_elem(a, id)
  BY <1>2, Zenon DEF find_elem
<1>6. /\ b.count \in Nat /\ b.id \in Int
      /\ b.count > 0 => b.count = ArrayLen(b.from, b.end)
      /\ b.id # -1 => b.id \in 0..(b.count - 1) /\ b.cur = find_elem(b, b.id)
  BY <1>1, <1>2, <1>5
<1> QED BY <1>3, <1>4, <1>6 DEF ArrayInv, b

LEMMA Remembering ==
  ASSUME NEW a, NEW idx, NEW v,
         a = [from |-> a.from, end |-> a.end, err |-> a.err, count |-> a.count,
              id |-> a.id, cur |-> a.cur]
  PROVE  [a EXCEPT !.id = idx, !.cur = v]
           = [from |-> a.from, end |-> a.end, err |-> a.err, count |-> a.count,
              id |-> idx, cur |-> v]
<1> DEFINE R(id, cur) == [from |-> a.from, end |-> a.end, err |-> a.err, count |-> a.count,
                          id |-> id, cur |-> cur]
<1>1. ASSUME NEW s, s = R(a.id, a.cur) PROVE [s EXCEPT !.id = idx] = R(idx, a.cur)
  BY <1>1
<1>2. ASSUME NEW s, s = R(idx, a.cur) PROVE [s EXCEPT !.cur = v] = R(idx, v)
  BY <1>2
<1>3. [a EXCEPT !.id = idx, !.cur = v] = [[a EXCEPT !.id = idx] EXCEPT !.cur = v]
  OBVIOUS
<1>4. a = R(a.id, a.cur)
  OBVIOUS
<1> HIDE DEF R
<1>5. [a EXCEPT !.id = idx] = R(idx, a.cur)
  BY <1>1, <1>4
<1>6. [[a EXCEPT !.id = idx] EXCEPT !.cur = v] = R(idx, v)
  BY <1>2, <1>5
<1> QED BY <1>3, <1>6 DEF R

\* What a getter of an array hands over: what an array that remembers nothing would.
Forgetful(a) == [a EXCEPT !.id = -1]

LEMMA AnswerAtIs ==
  ASSUME text \in Seq(STRING), NEW a, ArrayInv(a), a # NoArray, NEW idx \in Int, NEW for
  PROVE  LET given == AnswerAt(a, idx, for)
         IN  /\ ArrayInv(given.arr) /\ given.arr # NoArray
             /\ given.value = NoValue \/ (Inside(given.value) /\ Fits(given.value, for))
             /\ given.value = AnswerAt(Forgetful(a), idx, for).value
<1> DEFINE f == Forgetful(a)
<1>1. /\ a = [from |-> a.from, end |-> a.end, err |-> a.err, count |-> a.count,
              id |-> a.id, cur |-> a.cur]
      /\ Inside(a) /\ a.count \in Nat /\ a.id \in Int
      /\ a.count > 0 => a.count = ArrayLen(a.from, a.end)
      /\ a.id # -1 => a.id \in 0..(a.count - 1) /\ a.cur = find_elem(a, a.id)
  BY DEF ArrayInv
<1>2. f = [from |-> a.from, end |-> a.end, err |-> a.err, count |-> a.count,
           id |-> -1, cur |-> a.cur]
  BY <1>1 DEF Forgetful
<1> DEFINE With(err, id, cur) == [from |-> a.from, end |-> a.end, err |-> err, count |-> a.count,
                                 id |-> id, cur |-> cur]
<1>3. CASE a.err # "noerr"
  <2>1. AnswerAt(a, idx, for) = [arr |-> a, value |-> NoValue]
    BY <1>3 DEF AnswerAt
  <2>2. AnswerAt(f, idx, for) = [arr |-> f, value |-> NoValue]
    <3>1. f.err # "noerr"
      BY <1>2, <1>3
    <3> HIDE DEF f
    <3> QED BY <3>1 DEF AnswerAt
  <2> HIDE DEF f
  <2> QED BY <2>1, <2>2 DEF f
<1>4. CASE a.err = "noerr" /\ (idx < 0 \/ idx >= a.count)
  <2>1. AnswerAt(a, idx, for) = [arr |-> [a EXCEPT !.err = "outOfBoundary"], value |-> NoValue]
    BY <1>4 DEF AnswerAt
  <2>2. AnswerAt(f, idx, for) = [arr |-> [f EXCEPT !.err = "outOfBoundary"], value |-> NoValue]
    <3>1. f.err = "noerr" /\ f.count = a.count
      BY <1>2, <1>4
    <3> HIDE DEF f
    <3> QED BY <1>4, <3>1 DEF AnswerAt
  <2>3. [a EXCEPT !.err = "outOfBoundary"] = With("outOfBoundary", a.id, a.cur)
    BY <1>1
  <2>4. /\ ArrayInv(With("outOfBoundary", a.id, a.cur))
        /\ With("outOfBoundary", a.id, a.cur) # NoArray
    BY <1>1, ArrayKeeps
  <2> HIDE DEF f, With
  <2> QED BY <2>1, <2>2, <2>3, <2>4 DEF f
<1>5. CASE a.err = "noerr" /\ ~(idx < 0 \/ idx >= a.count)
  <2> DEFINE v == find_elem(a, idx)
             b == With("noerr", idx, v)
             bad == With("typeMismatch", idx, v)
  <2>1. idx \in 0..(a.count - 1) /\ a.count = ArrayLen(a.from, a.end) /\ idx \in Nat
    BY <1>1, <1>5
  <2>2. v # NoValue /\ Inside(v)
    <3>1. a.from \in Nat /\ a.end \in 1..(Len(text) + 1)
      BY <1>1 DEF Inside
    <3>2. idx < ArrayLen(a.from, a.end)
      BY <1>1, <1>5, <2>1
    <3> QED BY <2>1, <3>1, <3>2, ElemFound, Zenon
  <2>3. find_elem(f, idx) = v
    <3>1. f.from = a.from /\ f.end = a.end
      BY <1>2
    <3> HIDE DEF f
    <3> QED BY <3>1, Zenon DEF find_elem
  <2>4. /\ ArrayInv(b) /\ b # NoArray /\ ArrayInv(bad) /\ bad # NoArray
    BY <2>1, ArrayKeeps
  <2> HIDE DEF v
  <2>5. Sought(a, idx) = b
    <3>1. CASE idx = a.id
      <4>1. a.cur = v
        BY <1>1, <2>1, <3>1 DEF v
      <4> QED BY <1>1, <1>5, <3>1, <4>1 DEF Sought
    <3>2. CASE idx # a.id
      <4>1. Sought(a, idx) = [a EXCEPT !.id = idx, !.cur = v]
        BY <2>2, <3>2 DEF Sought, Kept, v
      <4> QED BY <1>1, <1>5, <4>1
    <3> QED BY <3>1, <3>2
  <2>6. Sought(f, idx) = b
    <3>1. idx # f.id
      BY <1>2, <2>1
    <3>2. Sought(f, idx) = [f EXCEPT !.id = idx, !.cur = v]
      BY <2>2, <2>3, <3>1, Zenon DEF Sought, Kept
    <3>3. f = [from |-> a.from, end |-> a.end, err |-> "noerr", count |-> a.count,
               id |-> -1, cur |-> a.cur]
      BY <1>2, <1>5
    <3> HIDE DEF f
    <3>4. [f EXCEPT !.id = idx, !.cur = v]
            = [from |-> a.from, end |-> a.end, err |-> "noerr", count |-> a.count,
               id |-> idx, cur |-> v]
      <4>1. /\ f.from = a.from /\ f.end = a.end /\ f.err = "noerr" /\ f.count = a.count
            /\ f.id = -1 /\ f.cur = a.cur
        BY <3>3
      <4>2. f = [from |-> f.from, end |-> f.end, err |-> f.err, count |-> f.count,
                 id |-> f.id, cur |-> f.cur]
        BY <3>3, <4>1, SMTT(30)
      <4>3. [f EXCEPT !.id = idx, !.cur = v]
              = [from |-> f.from, end |-> f.end, err |-> f.err, count |-> f.count,
                 id |-> idx, cur |-> v]
        BY <4>2, Remembering, Zenon
      <4> QED BY <4>1, <4>3, Zenon
    <3> QED BY <3>2, <3>4, Zenon
  <2>7. AnswerAt(a, idx, for) = CheckedAt(b, idx, for)
    BY <1>5, <2>5 DEF AnswerAt
  <2>8. AnswerAt(f, idx, for) = CheckedAt(b, idx, for)
    <3>1. f.err = "noerr" /\ f.count = a.count
      BY <1>2, <1>5
    <3> HIDE DEF f, b
    <3> QED BY <1>5, <2>6, <3>1 DEF AnswerAt
  <2>9. b.id = idx /\ b.cur = v /\ [b EXCEPT !.err = "typeMismatch"] = bad
    OBVIOUS
  <2> HIDE DEF b, bad, f
  <2>10. CheckedAt(b, idx, for) = IF ~Fits(v, for) THEN [arr |-> bad, value |-> NoValue]
                                 ELSE [arr |-> b, value |-> v]
    BY <2>9, Zenon DEF CheckedAt
  <2> QED BY <2>2, <2>4, <2>7, <2>8, <2>10 DEF f
<1> QED BY <1>3, <1>4, <1>5

\* The array of a stretch of the text, which remembers nothing yet.
LEMMA NewArray ==
  ASSUME text \in Seq(STRING), NEW v, v = NoValue \/ Inside(v)
  PROVE  ArrayInv(ArrayOf(v))
<1>1. CASE v = NoValue
  BY <1>1 DEF ArrayOf, ArrayInv
<1>2. CASE v # NoValue
  <2> DEFINE n == ArrayLen(v.from, v.end)
             err == IF n >= 0 THEN "noerr" ELSE "syntax"
             count == IF n >= 0 THEN n ELSE 0
             a == [from |-> v.from, end |-> v.end, err |-> err, count |-> count,
                   id |-> -1, cur |-> NoValue]
  <2>1. ArrayOf(v) = a
    BY <1>2, Zenon DEF ArrayOf, JSONP_ARRAY, Counted
  <2>2. v.from \in Nat /\ v.end \in 1..(Len(text) + 1) /\ Inside(v)
    BY <1>2 DEF Inside
  <2>3. n \in Nat \cup {-1}
    BY <2>2, ArrayLenIs, Zenon
  <2>4. count \in Nat /\ (count > 0 => count = n)
    <3> HIDE DEF n
    <3> QED BY <2>3
  <2> HIDE DEF err, count
  <2>5. /\ a.from = v.from /\ a.end = v.end /\ a.err = err /\ a.count = count /\ a.id = -1
        /\ a.cur = NoValue
    OBVIOUS
  <2>6. a = [from |-> a.from, end |-> a.end, err |-> a.err, count |-> a.count,
             id |-> a.id, cur |-> a.cur]
    BY <2>5
  <2> HIDE DEF a
  <2>7. Inside(a)
    BY <2>2, <2>5 DEF Inside
  <2>8. a.count > 0 => a.count = ArrayLen(a.from, a.end)
    BY <2>4, <2>5
  <2>9. a.count \in Nat /\ a.id \in Int /\ a.id = -1
    BY <2>4, <2>5
  <2>10. ArrayInv(a)
    BY <2>6, <2>7, <2>8, <2>9 DEF ArrayInv
  <2> QED BY <2>1, <2>10
<1> QED BY <1>1, <1>2

\* The object of a stretch of the text.
LEMMA NewObject ==
  ASSUME text \in Seq(STRING), NEW v, v = NoValue \/ Inside(v)
  PROVE  ObjectOf(v) \in Parser /\ (ObjectOf(v) = NoJSONP \/ Inside(ObjectOf(v)))
<1>1. NoJSONP \in Parser
  BY DEF NoJSONP, Parser, Errors
<1>2. ASSUME Inside(v)
      PROVE  JSONP(v.from, v.end) \in Parser /\ Inside(JSONP(v.from, v.end))
  <2> DEFINE err == IF ObjectOk(v.from, v.end) THEN "noerr" ELSE "syntax"
  <2>1. JSONP(v.from, v.end) = [from |-> v.from, end |-> v.end, err |-> err]
    BY DEF JSONP
  <2>2. err \in Errors
    BY DEF Errors
  <2> HIDE DEF err
  <2> QED BY <1>2, <2>1, <2>2 DEF Parser, Inside
<1> QED BY <1>1, <1>2 DEF ObjectOf

LEMMA JsonStart ==
  ASSUME JsonInit
  PROVE  JsonInv
<1>1. text \in Seq(STRING)
  BY JsonConstants DEF JsonInit
<1>2. NoJSONP \in Parser
  BY DEF NoJSONP, Parser, Errors
<1> QED BY <1>1, <1>2 DEF JsonInit, JsonInv, ArrayInv

-----------------------------------------------------------------------------
(***************************************************************************)
(* While the text stays, so does whatever is scanned from it.              *)
(***************************************************************************)
LEMMA SameCount ==
  ASSUME UNCHANGED text
  PROVE  \A c, p, q : Count(c, p, q)' = Count(c, p, q)
  BY DEF Count

LEMMA SameSkip ==
  ASSUME UNCHANGED text
  PROVE  \A p, e : SkipSpace(p, e)' = SkipSpace(p, e)
  BY DEF SkipSpace

LEMMA SameString ==
  ASSUME UNCHANGED text
  PROVE  \A p, e : StringEnd(p, e)' = StringEnd(p, e)
  BY DEF StringEnd

LEMMA SameName ==
  ASSUME UNCHANGED text
  PROVE  \A p, e : NameEnd(p, e)' = NameEnd(p, e)
  BY SameString DEF NameEnd

LEMMA SameNumber ==
  ASSUME UNCHANGED text
  PROVE  \A p, e, stops : NumberEnd(p, e, stops)' = NumberEnd(p, e, stops)
  BY DEF NumberEnd

LEMMA SamePaired ==
  ASSUME UNCHANGED text
  PROVE  \A p, open, close : PairedEnd(p, open, close)' = PairedEnd(p, open, close)
<1> TAKE p, open, close
<1>1. \A c, i, q : Count(c, i, q)' = Count(c, i, q)
  BY SameCount, Zenon
<1> DEFINE ends == {q \in p..Len(text) : /\ text[q] = close
                                         /\ Count(open, p, q) = Count(close, p, q)}
           end == IF ends = {} THEN 0 ELSE CHOOSE x \in ends : \A y \in ends : x <= y
<1>2. ends' = ends
  BY <1>1
<1>3. PairedEnd(p, open, close) = end /\ PairedEnd(p, open, close)' = end'
  BY DEF PairedEnd
<1> HIDE DEF ends
<1>4. end' = end
  BY <1>2
<1> QED
  BY <1>3, <1>4

LEMMA SameEnds ==
  ASSUME UNCHANGED text
  PROVE  \A p : find_object_end(p)' = find_object_end(p) /\ find_array_end(p)' = find_array_end(p)
  BY SamePaired DEF find_object_end, find_array_end

LEMMA SameValue ==
  ASSUME UNCHANGED text, NEW p, NEW e, NEW stops
  PROVE  Value(p, e, stops)' = Value(p, e, stops)
<1>1. \A q : /\ StringEnd(q, e)' = StringEnd(q, e)
            /\ NumberEnd(q, e, stops)' = NumberEnd(q, e, stops)
            /\ find_object_end(q)' = find_object_end(q) /\ find_array_end(q)' = find_array_end(q)
  BY SameString, SameNumber, SameEnds
<1> QED
  BY <1>1, ZenonT(60) DEF Value, StrValue, NumValue, NestedValue, Unknown

LEMMA SamePair ==
  ASSUME UNCHANGED text, NEW p, NEW e
  PROVE  Pair(p, e)' = Pair(p, e)
<1>1. /\ \A x, y : SkipSpace(x, y)' = SkipSpace(x, y)
      /\ \A x, y : NameEnd(x, y)' = NameEnd(x, y)
      /\ \A x, y, z : Value(x, y, z)' = Value(x, y, z)
  BY SameSkip, SameName, SameValue
<1>2. text' = text
  OBVIOUS
<1> QED
  BY <1>1, <1>2, ZenonT(60) DEF Pair, PairOf, Stretch, Nothing

LEMMA SameElem ==
  ASSUME UNCHANGED text, NEW p, NEW e
  PROVE  Elem(p, e)' = Elem(p, e)
<1>1. /\ \A x, y : SkipSpace(x, y)' = SkipSpace(x, y)
      /\ \A x, y, z : Value(x, y, z)' = Value(x, y, z)
  BY SameSkip, SameValue
<1>2. text' = text
  OBVIOUS
<1> QED
  BY <1>1, <1>2, ZenonT(60) DEF Elem, ElemOf, Stretch, Nothing

LEMMA SameItem ==
  ASSUME UNCHANGED text, NEW what, NEW p, NEW e
  PROVE  Item(what, p, e)' = Item(what, p, e)
  BY SamePair, SameElem DEF Item

LEMMA SameNext ==
  ASSUME UNCHANGED text, NEW what, NEW p, NEW e, NEW items
  PROVE  WithNext(what, p, e, items)' = WithNext(what, p, e, items)
<1>1. \A x, y, z : Item(x, y, z)' = Item(x, y, z)
  BY SameItem, Zenon
<1> QED
  BY <1>1, SMT DEF WithNext, Longer, Nothing

LEMMA SameTurns ==
  ASSUME UNCHANGED text
  PROVE  Turns' = Turns
  BY SameCount, Zenon DEF Turns

LEMMA SameItems ==
  ASSUME UNCHANGED text, NEW what, NEW p, NEW e
  PROVE  Items(what, p, e)' = Items(what, p, e)
<1>1. \A x, y, z, u : WithNext(x, y, z, u)' = WithNext(x, y, z, u)
  BY SameNext, Zenon
<1>2. Turns' = Turns
  BY SameTurns, Zenon
<1> QED
  BY <1>1, <1>2, ZenonT(60) DEF Items

LEMMA SameRest ==
  ASSUME UNCHANGED text
  PROVE  \A p, e : Rest(p, e)' = Rest(p, e)
  BY DEF Rest

LEMMA SameOk ==
  ASSUME UNCHANGED text, NEW right, NEW items, NEW e, NEW close
  PROVE  ItemsOk(right, items, e, close)' = ItemsOk(right, items, e, close)
<1>1. \A x, y : Rest(x, y)' = Rest(x, y)
  BY SameRest, Zenon
<1>2. text' = text
  OBVIOUS
<1> QED
  BY <1>1, <1>2, ZenonT(60) DEF ItemsOk, NestedOk

LEMMA SameCloses ==
  ASSUME UNCHANGED text
  PROVE  \A p, e, close : Closes(p, e, close)' = Closes(p, e, close)
  BY SameSkip DEF Closes

LEMMA SamePairs ==
  ASSUME UNCHANGED text, NEW right, NEW p, NEW e
  PROVE  PairsOk(right, p, e)' = PairsOk(right, p, e)
<1>1. /\ \A x, y, z : Closes(x, y, z)' = Closes(x, y, z)
      /\ \A x, y, z : Items(x, y, z)' = Items(x, y, z)
      /\ \A x, y, z, u : ItemsOk(x, y, z, u)' = ItemsOk(x, y, z, u)
  BY SameCloses, SameOk, SameItems
<1> QED
  BY <1>1, Zenon DEF PairsOk

LEMMA SameElems ==
  ASSUME UNCHANGED text, NEW right, NEW p, NEW e
  PROVE  ElemsCount(right, p, e)' = ElemsCount(right, p, e)
<1>1. /\ \A x, y, z : Closes(x, y, z)' = Closes(x, y, z)
      /\ \A x, y, z : Items(x, y, z)' = Items(x, y, z)
      /\ \A x, y, z, u : ItemsOk(x, y, z, u)' = ItemsOk(x, y, z, u)
  BY SameCloses, SameOk, SameItems
<1> QED
  BY <1>1, ZenonT(60) DEF ElemsCount, CountOk

LEMMA SameRight ==
  ASSUME UNCHANGED text
  PROVE  Right' = Right
<1>1. /\ \A x, y, z : PairsOk(x, y, z)' = PairsOk(x, y, z)
      /\ \A x, y, z : ElemsCount(x, y, z)' = ElemsCount(x, y, z)
      /\ \A p : find_object_end(p)' = find_object_end(p) /\ find_array_end(p)' = find_array_end(p)
  BY SamePairs, SameElems, SameEnds
<1>2. text' = text
  OBVIOUS
<1> QED
  BY <1>1, <1>2, ZenonT(60) DEF Right

LEMMA SameArray ==
  ASSUME UNCHANGED text, NEW from, NEW e
  PROVE  ArrayLen(from, e)' = ArrayLen(from, e)
  BY SameSkip, SameElems, SameRight, Zenon DEF ArrayLen

LEMMA SameFound ==
  ASSUME UNCHANGED text, NEW a, NEW idx
  PROVE  find_elem(a, idx)' = find_elem(a, idx)
  BY SameSkip, SameItems, Zenon DEF find_elem, ValueAt
LEMMA ArrayStays ==
  ASSUME UNCHANGED text, ArrayInv(arr')
  PROVE  ArrayInv(arr)'
<1>1. \A f, e : ArrayLen(f, e)' = ArrayLen(f, e)
  BY SameArray
<1>2. \A a, i : find_elem(a, i)' = find_elem(a, i)
  BY SameFound
<1>3. CASE arr' = NoArray
  BY <1>3 DEF ArrayInv
<1>4. CASE arr' # NoArray
  <2>1. Inside(arr')
    BY <1>4 DEF ArrayInv
  <2>2. Inside(arr)'
    BY <2>1 DEF Inside
  <2>3. ArrayLen(arr.from, arr.end)' = ArrayLen(arr'.from, arr'.end)
    BY <1>1
  <2>4. find_elem(arr, arr.id)' = find_elem(arr', arr'.id)
    BY <1>2
  <2> QED BY <1>4, <2>2, <2>3, <2>4 DEF ArrayInv
<1> QED BY <1>3, <1>4
LEMMA ParsersKeep ==
  ASSUME JsonInv, UNCHANGED text, objs'["doc"] # NoJSONP,
         objs' \in [{"doc", "sub"} -> Parser],
         \A h \in {"doc", "sub"} : objs'[h] = NoJSONP \/ Inside(objs'[h]),
         ArrayInv(arr')
  PROVE  JsonInv'
<1>1. \A h \in {"doc", "sub"} : (objs[h] = NoJSONP \/ Inside(objs[h]))'
  BY DEF Inside
<1>2. ArrayInv(arr)'
  BY ArrayStays
<1> QED BY <1>1, <1>2 DEF JsonInv

LEMMA TwoIn ==
  ASSUME NEW S, NEW c, NEW d, c \in S, d \in S
  PROVE  <<c>> \in Seq(S) /\ <<c, d>> \in Seq(S)
  OBVIOUS

LEMMA TextDamaged ==
  ASSUME JsonInv, Damage
  PROVE  JsonInv'
<1>1. PICK i \in 1..Len(text) :
        LET before == SubSeq(text, 1, i - 1)
            after == SubSeq(text, i + 1, Len(text))
        IN  \/ text' = before \o after
            \/ \E c \in Edits : text' = before \o <<c>> \o after
            \/ \E c \in Edits : text' = before \o <<c, text[i]>> \o after
  BY DEF Damage
<1> DEFINE before == SubSeq(text, 1, i - 1)
           after == SubSeq(text, i + 1, Len(text))
<1>2. text \in Seq(STRING) /\ text[i] \in STRING
  BY DEF JsonInv
<1>3. before \in Seq(STRING) /\ after \in Seq(STRING)
  BY <1>2
<1>4. ASSUME NEW c \in STRING, NEW d \in STRING
      PROVE  <<c>> \in Seq(STRING) /\ <<c, d>> \in Seq(STRING)
  BY TwoIn, Zenon
<1>5. ASSUME NEW s \in Seq(STRING), NEW t \in Seq(STRING) PROVE s \o t \in Seq(STRING)
  BY ConcatProperties
<1>6. Edits \subseteq STRING
  BY JsonConstants
<1>7. \/ text' = before \o after
      \/ \E c \in Edits : text' = before \o <<c>> \o after
      \/ \E c \in Edits : text' = before \o <<c, text[i]>> \o after
  BY <1>1
<1> HIDE DEF before, after
<1>8. text' \in Seq(STRING)
  <2>1. CASE text' = before \o after
    BY <1>3, <1>5, <2>1, Zenon
  <2>2. ASSUME NEW c \in Edits, text' = before \o <<c>> \o after
        PROVE  text' \in Seq(STRING)
    <3>1. <<c>> \in Seq(STRING)
      BY <1>4, <1>6
    <3>2. before \o <<c>> \in Seq(STRING)
      BY <1>3, <1>5, <3>1, Zenon
    <3> QED BY <1>3, <1>5, <2>2, <3>2, Zenon
  <2>3. ASSUME NEW c \in Edits, text' = before \o <<c, text[i]>> \o after
        PROVE  text' \in Seq(STRING)
    <3>1. <<c, text[i]>> \in Seq(STRING)
      BY <1>2, <1>4, <1>6
    <3>2. before \o <<c, text[i]>> \in Seq(STRING)
      BY <1>3, <1>5, <3>1, Zenon
    <3> QED BY <1>3, <1>5, <2>3, <3>2, Zenon
  <2> QED BY <1>7, <2>1, <2>2, <2>3, Zenon
<1>9. /\ objs["doc"] = NoJSONP /\ objs["sub"] = NoJSONP /\ arr = NoArray
      /\ objs' = objs /\ arr' = arr
  BY DEF Damage, JsonInv
<1>10. ArrayInv(arr)'
  BY <1>9 DEF ArrayInv
<1> QED BY <1>8, <1>9, <1>10 DEF JsonInv


\* The parsers when one has another error.
LEMMA ErrorKeeps ==
  ASSUME JsonInv, NEW h \in {"doc", "sub"}, objs[h] # NoJSONP, NEW err \in Errors
  PROVE  LET o == [objs EXCEPT ![h].err = err]
         IN  /\ o \in [{"doc", "sub"} -> Parser] /\ o["doc"] # NoJSONP
             /\ \A k \in {"doc", "sub"} : o[k] = NoJSONP \/ Inside(o[k])
<1> DEFINE r == [objs[h] EXCEPT !.err = err]
           o == [objs EXCEPT ![h] = r]
<1>1. objs \in [{"doc", "sub"} -> Parser] /\ objs[h] \in Parser /\ Inside(objs[h])
  BY DEF JsonInv
<1>2. r \in Parser /\ Inside(r)
  BY <1>1 DEF Parser, Inside
<1>3. r # NoJSONP
  BY <1>2 DEF Inside, NoJSONP
<1>4. objs["doc"] # NoJSONP
  BY DEF JsonInv
<1>5. \A k \in {"doc", "sub"} : objs[k] = NoJSONP \/ Inside(objs[k])
  BY DEF JsonInv
<1> HIDE DEF r
<1>6. /\ o \in [{"doc", "sub"} -> Parser] /\ o["doc"] # NoJSONP
      /\ \A k \in {"doc", "sub"} : o[k] = NoJSONP \/ Inside(o[k])
  BY <1>1, <1>2, <1>3, <1>4, <1>5
<1> QED BY <1>6 DEF r

\* A parser in the place of the last one of getObj.
LEMMA SubKeeps ==
  ASSUME NEW o \in [{"doc", "sub"} -> Parser], o["doc"] # NoJSONP,
         \A k \in {"doc", "sub"} : o[k] = NoJSONP \/ Inside(o[k]),
         NEW s \in Parser, s = NoJSONP \/ Inside(s)
  PROVE  LET n == [o EXCEPT !["sub"] = s]
         IN  /\ n \in [{"doc", "sub"} -> Parser] /\ n["doc"] # NoJSONP
             /\ \A k \in {"doc", "sub"} : n[k] = NoJSONP \/ Inside(n[k])
  OBVIOUS

LEMMA Opened ==
  ASSUME JsonInv, Open
  PROVE  JsonInv'
<1> DEFINE v == [from |-> 1, end |-> Len(text) + 1]
           o == JSONP(1, Len(text) + 1)
<1>1. text \in Seq(STRING) /\ Inside(v)
  BY DEF JsonInv, Inside
<1>2. v # NoValue
  BY DEF NoValue
<1>3. ObjectOf(v) = o
  BY <1>2 DEF ObjectOf
<1>4. o \in Parser /\ (o = NoJSONP \/ Inside(o))
  BY <1>1, <1>3, NewObject
<1>5. o # NoJSONP
  BY DEF JSONP, NoJSONP
<1>6. objs' = [objs EXCEPT !["doc"] = o] /\ UNCHANGED text /\ arr' = arr
  BY DEF Open
<1>7. /\ objs \in [{"doc", "sub"} -> Parser] /\ ArrayInv(arr)
      /\ \A h \in {"doc", "sub"} : objs[h] = NoJSONP \/ Inside(objs[h])
  BY DEF JsonInv
<1> HIDE DEF o
<1>8. /\ objs' \in [{"doc", "sub"} -> Parser] /\ objs'["doc"] # NoJSONP
      /\ \A h \in {"doc", "sub"} : objs'[h] = NoJSONP \/ Inside(objs'[h])
  BY <1>4, <1>5, <1>6, <1>7
<1>9. ArrayInv(arr')
  BY <1>6, <1>7
<1> QED BY <1>1, <1>6, <1>8, <1>9, ParsersKeep

\* What a getter of objs[h] leaves.
LEMMA Gotten ==
  ASSUME JsonInv, NEW h \in {"doc", "sub"}, objs[h] # NoJSONP, NEW name, NEW for
  PROVE  LET a == Answer(objs[h], name, for)
             o == [objs EXCEPT ![h].err = a.err]
         IN  /\ o \in [{"doc", "sub"} -> Parser] /\ o["doc"] # NoJSONP
             /\ \A k \in {"doc", "sub"} : o[k] = NoJSONP \/ Inside(o[k])
             /\ a.value = NoValue \/ Inside(a.value)
<1> DEFINE a == Answer(objs[h], name, for)
<1>1. text \in Seq(STRING) /\ objs[h] \in Parser /\ (objs[h] = NoJSONP \/ Inside(objs[h]))
  BY DEF JsonInv
<1>2. a.err \in Errors /\ (a.value = NoValue \/ Inside(a.value))
  BY <1>1, AnswerIs, Zenon
<1> HIDE DEF a
<1> QED BY <1>2, ErrorKeeps DEF a

LEMMA GetKeeps ==
  ASSUME JsonInv, NEW h \in {"doc", "sub"}, NEW name, NEW for, Get(h, name, for)
  PROVE  JsonInv'
<1> DEFINE o == [objs EXCEPT ![h].err = Answer(objs[h], name, for).err]
<1>1. objs[h] # NoJSONP /\ objs' = o /\ UNCHANGED text /\ arr' = arr
  BY DEF Get
<1>2. /\ o \in [{"doc", "sub"} -> Parser] /\ o["doc"] # NoJSONP
      /\ \A k \in {"doc", "sub"} : o[k] = NoJSONP \/ Inside(o[k])
  BY <1>1, Gotten, Zenon
<1>3. ArrayInv(arr)
  BY DEF JsonInv
<1>4. ArrayInv(arr')
  BY <1>1, <1>3
<1>5. objs["doc"] # NoJSONP
  BY <1>1 DEF JsonInv
<1> HIDE DEF o
<1>6. /\ objs' \in [{"doc", "sub"} -> Parser] /\ objs'["doc"] # NoJSONP
      /\ \A k \in {"doc", "sub"} : objs'[k] = NoJSONP \/ Inside(objs'[k])
  BY <1>1, <1>2
<1> QED BY <1>1, <1>4, <1>5, <1>6, ParsersKeep

LEMMA ObjGotten ==
  ASSUME JsonInv, NEW h \in {"doc", "sub"}, NEW name, getObj(h, name)
  PROVE  JsonInv'
<1> DEFINE a == Answer(objs[h], name, ForObj)
           o == [objs EXCEPT ![h].err = a.err]
           s == ObjectOf(a.value)
           n == [o EXCEPT !["sub"] = s]
<1>1. objs[h] # NoJSONP /\ objs' = n /\ UNCHANGED text /\ arr' = arr
  BY DEF getObj
<1>2. /\ o \in [{"doc", "sub"} -> Parser] /\ o["doc"] # NoJSONP
      /\ \A k \in {"doc", "sub"} : o[k] = NoJSONP \/ Inside(o[k])
      /\ a.value = NoValue \/ Inside(a.value)
  BY <1>1, Gotten, Zenon
<1>3. ArrayInv(arr) /\ text \in Seq(STRING)
  BY DEF JsonInv
<1>4. ArrayInv(arr')
  BY <1>1, <1>3
<1>5. objs["doc"] # NoJSONP
  BY <1>1 DEF JsonInv
<1>6. s \in Parser /\ (s = NoJSONP \/ Inside(s))
  BY <1>2, <1>3, NewObject, Zenon
<1> HIDE DEF a, o, s
<1>7. /\ n \in [{"doc", "sub"} -> Parser] /\ n["doc"] # NoJSONP
      /\ \A k \in {"doc", "sub"} : n[k] = NoJSONP \/ Inside(n[k])
  BY <1>2, <1>6, SubKeeps
<1> HIDE DEF n
<1>8. /\ objs' \in [{"doc", "sub"} -> Parser] /\ objs'["doc"] # NoJSONP
      /\ \A k \in {"doc", "sub"} : objs'[k] = NoJSONP \/ Inside(objs'[k])
  BY <1>1, <1>7
<1> QED BY <1>1, <1>4, <1>5, <1>8, ParsersKeep

LEMMA ArrayGotten ==
  ASSUME JsonInv, NEW h \in {"doc", "sub"}, NEW name, getArray(h, name)
  PROVE  JsonInv'
<1> DEFINE a == Answer(objs[h], name, ForArray)
           o == [objs EXCEPT ![h].err = a.err]
<1>1. objs[h] # NoJSONP /\ objs' = o /\ UNCHANGED text /\ arr' = ArrayOf(a.value)
  BY DEF getArray
<1>2. /\ o \in [{"doc", "sub"} -> Parser] /\ o["doc"] # NoJSONP
      /\ \A k \in {"doc", "sub"} : o[k] = NoJSONP \/ Inside(o[k])
      /\ a.value = NoValue \/ Inside(a.value)
  BY <1>1, Gotten, Zenon
<1>3. text \in Seq(STRING)
  BY DEF JsonInv
<1>4. ArrayInv(ArrayOf(a.value))
  BY <1>2, <1>3, NewArray, Zenon
<1>5. objs["doc"] # NoJSONP
  BY <1>1 DEF JsonInv
<1> HIDE DEF a, o
<1>6. ArrayInv(arr')
  BY <1>1, <1>4
<1>8. /\ objs' \in [{"doc", "sub"} -> Parser] /\ objs'["doc"] # NoJSONP
      /\ \A k \in {"doc", "sub"} : objs'[k] = NoJSONP \/ Inside(objs'[k])
  BY <1>1, <1>2
<1> QED BY <1>1, <1>5, <1>6, <1>8, ParsersKeep

LEMMA ErrCleared ==
  ASSUME JsonInv, NEW h \in {"doc", "sub"}, clearErr(h)
  PROVE  JsonInv'
<1> DEFINE o == [objs EXCEPT ![h].err = "noerr"]
<1>1. objs[h] # NoJSONP /\ objs' = o /\ UNCHANGED text /\ arr' = arr
  BY DEF clearErr
<1>2. "noerr" \in Errors
  BY DEF Errors
<1>3. /\ o \in [{"doc", "sub"} -> Parser] /\ o["doc"] # NoJSONP
      /\ \A k \in {"doc", "sub"} : o[k] = NoJSONP \/ Inside(o[k])
  BY <1>1, <1>2, ErrorKeeps, Zenon
<1>4. ArrayInv(arr)
  BY DEF JsonInv
<1>5. ArrayInv(arr')
  BY <1>1, <1>4
<1>6. objs["doc"] # NoJSONP
  BY <1>1 DEF JsonInv
<1> HIDE DEF o
<1>7. /\ objs' \in [{"doc", "sub"} -> Parser] /\ objs'["doc"] # NoJSONP
      /\ \A k \in {"doc", "sub"} : objs'[k] = NoJSONP \/ Inside(objs'[k])
  BY <1>1, <1>3
<1> QED BY <1>1, <1>5, <1>6, <1>7, ParsersKeep

\* The getters of the elements.
LEMMA GetAtKeeps ==
  ASSUME JsonInv, NEW idx \in Int, NEW for, GetAt(idx, for)
  PROVE  JsonInv'
<1> DEFINE a == AnswerAt(arr, idx, for)
<1>1. arr # NoArray /\ arr' = a.arr /\ UNCHANGED text /\ objs' = objs
  BY DEF GetAt
<1>2. /\ text \in Seq(STRING) /\ ArrayInv(arr) /\ objs["doc"] # NoJSONP
      /\ objs \in [{"doc", "sub"} -> Parser]
      /\ \A k \in {"doc", "sub"} : objs[k] = NoJSONP \/ Inside(objs[k])
  BY <1>1 DEF JsonInv
<1>3. ArrayInv(a.arr)
  BY <1>1, <1>2, AnswerAtIs, Zenon
<1> HIDE DEF a
<1>4. ArrayInv(arr')
  BY <1>1, <1>3
<1>5. /\ objs' \in [{"doc", "sub"} -> Parser] /\ objs'["doc"] # NoJSONP
      /\ \A k \in {"doc", "sub"} : objs'[k] = NoJSONP \/ Inside(objs'[k])
  BY <1>1, <1>2
<1> QED BY <1>1, <1>2, <1>4, <1>5, ParsersKeep

LEMMA ElemObjGotten ==
  ASSUME JsonInv, NEW idx \in Int, elemObj(idx)
  PROVE  JsonInv'
<1> DEFINE a == AnswerAt(arr, idx, ForObj)
           s == ObjectOf(a.value)
           n == [objs EXCEPT !["sub"] = s]
<1>1. arr # NoArray /\ arr' = a.arr /\ UNCHANGED text /\ objs' = n
  BY DEF elemObj
<1>2. /\ text \in Seq(STRING) /\ ArrayInv(arr) /\ objs["doc"] # NoJSONP
      /\ objs \in [{"doc", "sub"} -> Parser]
      /\ \A k \in {"doc", "sub"} : objs[k] = NoJSONP \/ Inside(objs[k])
  BY <1>1 DEF JsonInv
<1>3. ArrayInv(a.arr) /\ (a.value = NoValue \/ Inside(a.value))
  BY <1>1, <1>2, AnswerAtIs, Zenon
<1>4. s \in Parser /\ (s = NoJSONP \/ Inside(s))
  BY <1>2, <1>3, NewObject, Zenon
<1> HIDE DEF a, s
<1>5. /\ n \in [{"doc", "sub"} -> Parser] /\ n["doc"] # NoJSONP
      /\ \A k \in {"doc", "sub"} : n[k] = NoJSONP \/ Inside(n[k])
  BY <1>2, <1>4, SubKeeps
<1> HIDE DEF n
<1>6. ArrayInv(arr')
  BY <1>1, <1>3
<1>7. /\ objs' \in [{"doc", "sub"} -> Parser] /\ objs'["doc"] # NoJSONP
      /\ \A k \in {"doc", "sub"} : objs'[k] = NoJSONP \/ Inside(objs'[k])
  BY <1>1, <1>5
<1> QED BY <1>1, <1>2, <1>6, <1>7, ParsersKeep

LEMMA ElemArrayGotten ==
  ASSUME JsonInv, NEW idx \in Int, elemArray(idx)
  PROVE  JsonInv'
<1> DEFINE a == AnswerAt(arr, idx, ForArray)
           b == IF a.value = NoValue THEN a.arr ELSE ArrayOf(a.value)
<1>1. arr # NoArray /\ arr' = b /\ UNCHANGED text /\ objs' = objs
  BY DEF elemArray
<1>2. /\ text \in Seq(STRING) /\ ArrayInv(arr) /\ objs["doc"] # NoJSONP
      /\ objs \in [{"doc", "sub"} -> Parser]
      /\ \A k \in {"doc", "sub"} : objs[k] = NoJSONP \/ Inside(objs[k])
  BY <1>1 DEF JsonInv
<1>3. ArrayInv(a.arr) /\ (a.value = NoValue \/ Inside(a.value))
  BY <1>1, <1>2, AnswerAtIs, Zenon
<1>4. ArrayInv(ArrayOf(a.value))
  BY <1>2, <1>3, NewArray, Zenon
<1> HIDE DEF a
<1>5. ArrayInv(arr')
  BY <1>1, <1>3, <1>4, Zenon
<1>6. /\ objs' \in [{"doc", "sub"} -> Parser] /\ objs'["doc"] # NoJSONP
      /\ \A k \in {"doc", "sub"} : objs'[k] = NoJSONP \/ Inside(objs'[k])
  BY <1>1, <1>2
<1> QED BY <1>1, <1>2, <1>5, <1>6, ParsersKeep

LEMMA ElemErrCleared ==
  ASSUME JsonInv, elemClearErr
  PROVE  JsonInv'
<1>1. arr # NoArray /\ arr' = [arr EXCEPT !.err = "noerr"] /\ UNCHANGED text /\ objs' = objs
  BY DEF elemClearErr
<1>2. /\ text \in Seq(STRING) /\ ArrayInv(arr) /\ objs["doc"] # NoJSONP
      /\ objs \in [{"doc", "sub"} -> Parser]
      /\ \A k \in {"doc", "sub"} : objs[k] = NoJSONP \/ Inside(objs[k])
  BY <1>1 DEF JsonInv
<1>3. /\ arr = [from |-> arr.from, end |-> arr.end, err |-> arr.err, count |-> arr.count,
                id |-> arr.id, cur |-> arr.cur]
      /\ arr.id \in Int
      /\ arr.id # -1 => arr.id \in 0..(arr.count - 1) /\ arr.cur = find_elem(arr, arr.id)
  BY <1>1, <1>2 DEF ArrayInv
<1> DEFINE b == [from |-> arr.from, end |-> arr.end, err |-> "noerr", count |-> arr.count,
                 id |-> arr.id, cur |-> arr.cur]
<1>4. arr' = b
  BY <1>1, <1>3
<1>5. ArrayInv(b)
  BY <1>1, <1>2, <1>3, ArrayKeeps, Zenon
<1> HIDE DEF b
<1>6. ArrayInv(arr')
  BY <1>4, <1>5
<1>7. /\ objs' \in [{"doc", "sub"} -> Parser] /\ objs'["doc"] # NoJSONP
      /\ \A k \in {"doc", "sub"} : objs'[k] = NoJSONP \/ Inside(objs'[k])
  BY <1>1, <1>2
<1> QED BY <1>1, <1>2, <1>6, <1>7, ParsersKeep

LEMMA JsonStays ==
  ASSUME JsonInv, UNCHANGED jsonVars
  PROVE  JsonInv'
<1>1. UNCHANGED text /\ objs' = objs /\ arr' = arr
  BY DEF jsonVars
<1>2. /\ text \in Seq(STRING) /\ ArrayInv(arr)
      /\ objs \in [{"doc", "sub"} -> Parser]
      /\ \A k \in {"doc", "sub"} : objs[k] = NoJSONP \/ Inside(objs[k])
      /\ objs["doc"] = NoJSONP => objs["sub"] = NoJSONP /\ arr = NoArray
  BY DEF JsonInv
<1>3. ArrayInv(arr')
  BY <1>1, <1>2
<1>4. ArrayInv(arr)'
  BY <1>1, <1>3, ArrayStays
<1>5. \A h \in {"doc", "sub"} : (objs[h] = NoJSONP \/ Inside(objs[h]))'
  BY <1>1, <1>2 DEF Inside
<1> QED BY <1>1, <1>2, <1>4, <1>5 DEF JsonInv

LEMMA JsonKeeps ==
  ASSUME JsonInv, [JsonNext]_jsonVars
  PROVE  JsonInv'
<1>1. CASE Damage
  BY <1>1, TextDamaged
<1>2. CASE Open
  BY <1>2, Opened
<1>3. ASSUME NEW h \in {"doc", "sub"}, NEW name \in Keys,
             getInt(h, name) \/ getFloat(h, name) \/ getStr(h, name) \/ getStrlen(h, name)
      PROVE  JsonInv'
  BY <1>3, GetKeeps, Zenon DEF getInt, getFloat, getStr, getStrlen
<1>4. ASSUME NEW h \in {"doc", "sub"}, NEW name \in Keys,
             getObj(h, name) \/ getArray(h, name)
      PROVE  JsonInv'
  BY <1>4, ObjGotten, ArrayGotten, Zenon
<1>5. ASSUME NEW h \in {"doc", "sub"}, clearErr(h) PROVE JsonInv'
  BY <1>5, ErrCleared
<1>6. Indexes \subseteq Int
  BY JsonConstants
<1>7. ASSUME NEW idx \in Indexes,
             elemInt(idx) \/ elemFloat(idx) \/ elemStr(idx) \/ elemStrlen(idx)
      PROVE  JsonInv'
  <2>1. idx \in Int
    BY <1>6
  <2> QED BY <1>7, <2>1, GetAtKeeps, Zenon DEF elemInt, elemFloat, elemStr, elemStrlen
<1>8. ASSUME NEW idx \in Indexes, elemObj(idx) \/ elemArray(idx) PROVE JsonInv'
  <2>1. idx \in Int
    BY <1>6
  <2> QED BY <1>8, <2>1, ElemObjGotten, ElemArrayGotten, Zenon
<1>9. CASE elemClearErr
  BY <1>9, ElemErrCleared
<1>10. CASE UNCHANGED jsonVars
  BY <1>10, JsonStays
<1> QED BY <1>1, <1>2, <1>3, <1>4, <1>5, <1>7, <1>8, <1>9, <1>10, Zenon DEF JsonNext

LEMMA JsonAlways == JsonSpec => []JsonInv
<1>1. JsonInit => JsonInv
  BY JsonStart
<1>2. JsonInv /\ [JsonNext]_jsonVars => JsonInv'
  BY JsonKeeps
<1> QED BY <1>1, <1>2, PTL DEF JsonSpec

-----------------------------------------------------------------------------
\* What a getter may hand over.
Handed(v, for) == v = NoValue \/ (Inside(v) /\ Fits(v, for))

\* The parsers lie in the text, and whatever their getters could be asked for next, they
\* would hand over a stretch of the text that fits, or nothing.
HandsInside ==
  /\ \A h \in {"doc", "sub"} :
       /\ objs[h] = NoJSONP \/ Inside(objs[h])
       /\ \A name, for : Handed(Answer(objs[h], name, for).value, for)
  /\ arr = NoArray \/ Inside(arr)
  /\ \A idx \in Int : \A for : Handed(AnswerAt(arr, idx, for).value, for)

\* For every text, damaged or not, and after any calls: the parsers lie in the text, and what
\* a getter of JSONP or of JSONP_ARRAY hands over, for any name and any index, is a stretch of
\* the text, of the type and the size that was asked for, or nothing at all.
THEOREM InsideCorrect == JsonSpec => []HandsInside
<1>1. ASSUME JsonInv PROVE HandsInside
  <2>1. /\ text \in Seq(STRING) /\ ArrayInv(arr)
        /\ \A h \in {"doc", "sub"} : objs[h] \in Parser /\ (objs[h] = NoJSONP \/ Inside(objs[h]))
    BY <1>1 DEF JsonInv
  <2>2. ASSUME NEW h \in {"doc", "sub"}, NEW name, NEW for
        PROVE  Handed(Answer(objs[h], name, for).value, for)
    BY <2>1, AnswerIs, Zenon DEF Handed
  <2>3. ASSUME NEW idx \in Int, NEW for
        PROVE  Handed(AnswerAt(arr, idx, for).value, for)
    <3>1. CASE arr = NoArray
      BY <3>1 DEF AnswerAt, NoArray, Handed
    <3>2. CASE arr # NoArray
      BY <2>1, <3>2, AnswerAtIs, Zenon DEF Handed
    <3> QED BY <3>1, <3>2
  <2>4. arr = NoArray \/ Inside(arr)
    BY <2>1 DEF ArrayInv
  <2> QED BY <2>1, <2>2, <2>3, <2>4, Zenon DEF HandsInside
<1> QED BY <1>1, JsonAlways, PTL

\* The element that a JSONP_ARRAY remembers from its last search (_current_elem of find_elem)
\* never shows in an answer: for every index a getter hands over what it would if nothing
\* were remembered and the array searched from its start.
RemembersRight ==
  \A idx \in Int : \A for :
    AnswerAt(arr, idx, for).value = AnswerAt(Forgetful(arr), idx, for).value

\* RemembersRight holds after any sequence of calls, errors and clearErr, on every text.
THEOREM RememberedCorrect == JsonSpec => []RemembersRight
<1>1. ASSUME JsonInv PROVE RemembersRight
  <2>1. text \in Seq(STRING) /\ ArrayInv(arr)
    BY <1>1 DEF JsonInv
  <2>2. ASSUME NEW idx \in Int, NEW for
        PROVE  AnswerAt(arr, idx, for).value = AnswerAt(Forgetful(arr), idx, for).value
    <3>1. CASE arr = NoArray
      <4>1. Forgetful(arr) = arr
        BY <3>1 DEF Forgetful, NoArray
      <4> QED BY <4>1
    <3>2. CASE arr # NoArray
      BY <2>1, <3>2, AnswerAtIs, Zenon
    <3> QED BY <3>1, <3>2
  <2> QED BY <2>2, Zenon DEF RemembersRight
<1> QED BY <1>1, JsonAlways, PTL

\* The loops of syntax_check, find_key and find_elem over a text that syntax_check lets through
\* come to an end: each turn finds a value of the text behind all the turns before it, and
\* there is a turn that finds nothing more.  What JSONP_ARRAY counts are those turns, and
\* every index below the count has an element.
LoopsEnd ==
  /\ \A h \in {"doc", "sub"} :
       ObjectOk(objs[h].from, objs[h].end)
         => Walked("pairs", Begin(objs[h].from, objs[h].end), objs[h].end)
  /\ arr.count > 0 =>
       /\ Walked("elems", Begin(arr.from, arr.end), arr.end)
       /\ arr.count = Len(Items("elems", Begin(arr.from, arr.end), arr.end))
  /\ \A idx \in 0..(arr.count - 1) : find_elem(arr, idx) # NoValue

\* LoopsEnd holds for every parser there is after any sequence of calls, on every text.
THEOREM LoopsCorrect == JsonSpec => []LoopsEnd
<1>1. ASSUME JsonInv PROVE LoopsEnd
  <2>1. /\ text \in Seq(STRING) /\ ArrayInv(arr)
        /\ \A h \in {"doc", "sub"} : objs[h] = NoJSONP \/ Inside(objs[h])
    BY <1>1 DEF JsonInv
  <2>2. ASSUME NEW h \in {"doc", "sub"}, ObjectOk(objs[h].from, objs[h].end)
        PROVE  Walked("pairs", Begin(objs[h].from, objs[h].end), objs[h].end)
    <3>1. objs[h].from > 0
      BY <2>2 DEF ObjectOk
    <3>2. Inside(objs[h])
      BY <2>1, <3>1 DEF NoJSONP
    <3>3. objs[h].from \in Nat /\ objs[h].end \in 1..(Len(text) + 1)
      BY <3>2 DEF Inside
    <3> QED BY <2>1, <2>2, <3>3, ObjectWalked, Zenon
  <2>3. ASSUME arr.count > 0
        PROVE  /\ arr.from \in Nat /\ arr.end \in 1..(Len(text) + 1)
               /\ arr.count \in Nat /\ arr.count = ArrayLen(arr.from, arr.end)
    <3>1. arr # NoArray
      BY <2>3 DEF NoArray
    <3>2. Inside(arr) /\ arr.count \in Nat /\ arr.count = ArrayLen(arr.from, arr.end)
      BY <2>1, <2>3, <3>1 DEF ArrayInv
    <3> QED BY <3>2 DEF Inside
  <2>4. ASSUME arr.count > 0
        PROVE  /\ Walked("elems", Begin(arr.from, arr.end), arr.end)
               /\ arr.count = Len(Items("elems", Begin(arr.from, arr.end), arr.end))
    <3>1. ArrayLen(arr.from, arr.end) >= 0
      BY <2>3, <2>4
    <3>2. arr.from \in Nat /\ arr.end \in 1..(Len(text) + 1)
      BY <2>3, <2>4
    <3>3. arr.count = ArrayLen(arr.from, arr.end)
      BY <2>3, <2>4
    <3> QED BY <2>1, <3>1, <3>2, <3>3, ArrayWalked, Zenon
  <2>5. ASSUME NEW idx \in 0..(arr.count - 1) PROVE find_elem(arr, idx) # NoValue
    <3>1. arr.count \in Nat
      BY <2>1 DEF ArrayInv, NoArray
    <3>2. arr.count > 0 /\ idx \in Nat /\ idx < arr.count
      BY <3>1
    <3>3. arr.from \in Nat /\ arr.end \in 1..(Len(text) + 1) /\ idx < ArrayLen(arr.from, arr.end)
      BY <2>3, <3>2
    <3> QED BY <2>1, <3>2, <3>3, ElemFound, Zenon
  <2> QED BY <2>2, <2>4, <2>5, Zenon DEF LoopsEnd
<1> QED BY <1>1, JsonAlways, PTL
===============================================================================
