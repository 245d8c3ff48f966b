------------------------------ MODULE HttpClient ------------------------------
(***************************************************************************)
(* The HTTP client (espbot_http_client.cpp) and the reassembly of          *)
(* responses that come in several pieces (espbot_http.cpp).                *)
(*                                                                         *)
(* Clients are the addresses the heap gives to Http_clt objects: an object *)
(* holds its espconn, so that an address names the connection too, and is  *)
(* given again once its object is deleted.  Every client is used as the    *)
(* header's example, ota.cpp and app_test.cpp use it: new and connect,     *)
(* send_req when called back CONNECTED, disconnect and delete at the next  *)
(* callback or at any other status.                                        *)
(*                                                                         *)
(* A response is its pieces, the first with the header and the length of   *)
(* the whole; a piece is the run (the client it answers) and its place.    *)
(* Pieces of two responses may differ in length.  What the SDK delivers    *)
(* depends on the network: it may stop at any time, without a word.        *)
(***************************************************************************)
EXTENDS Integers, FiniteSets, Sequences, SequencesExt

CONSTANTS
  Clients,     \* addresses of Http_clt objects
  Sizes,       \* pieces of a response
  MaxAssoc,    \* capacity of http_clt_espconn (4)
  MaxPending,  \* capacity of pending_responses (4)
  MaxRuns,     \* bound: clients created between two restarts
  MaxFaults    \* bound: allocations that fail between two restarts

ASSUME ClientConstants ==
  /\ Sizes \subseteq Nat \ {0}
  /\ MaxAssoc \in Nat /\ MaxPending \in Nat /\ MaxRuns \in Nat /\ MaxFaults \in Nat

VARIABLES
  status,             \* _status of the client at each address; "free" without one
  http_clt_espconn,   \* addresses that have an association
  connect_timer,      \* addresses whose _connect_timeout_timer is armed
  send_timer,         \* addresses whose _send_req_timeout_timer is armed
  link,               \* the SDK's connection
  run,                \* number of the client at each address, and of its response
  size, got,          \* pieces of that response, 0 before the first, and those received
  pending_responses,  \* list of incomplete responses
  runs, faults,       \* history: clients created, allocations failed
  spoiled,            \* history: addresses whose response cannot be put together
  answer              \* history: the RESPONSE_READY callback of this step

client == <<status, http_clt_espconn, connect_timer, send_timer, link, run, size, got>>
vars == <<client, pending_responses, runs, faults, spoiled, answer>>

Piece == (1..MaxRuns) \X (Nat \ {0})
Whole(r, n) == [i \in 1..n |-> <<r, i>>]

NoAnswer == [run |-> 0, size |-> 0, parts |-> <<>>]

\* The length of an entry that no sequence of pieces reaches: it was computed from a
\* header that could not be read to its end, or the pieces went past it.
Unreachable == 0

-----------------------------------------------------------------------------
Init ==
  /\ status = [c \in Clients |-> "free"]
  /\ http_clt_espconn = {} /\ connect_timer = {} /\ send_timer = {}
  /\ link = [c \in Clients |-> "none"]
  /\ run = [c \in Clients |-> 0]
  /\ size = [c \in Clients |-> 0] /\ got = [c \in Clients |-> 0]
  /\ pending_responses = <<>>
  /\ runs = 0 /\ faults = 0 /\ spoiled = {} /\ answer = NoAnswer

\* A NULL pointer is read: the processor stops and the watchdog restarts it.
Restart ==
  /\ status' = [c \in Clients |-> "free"]
  /\ http_clt_espconn' = {} /\ connect_timer' = {} /\ send_timer' = {}
  /\ link' = [c \in Clients |-> "none"]
  /\ run' = [c \in Clients |-> 0]
  /\ size' = [c \in Clients |-> 0] /\ got' = [c \in Clients |-> 0]
  /\ pending_responses' = <<>>
  /\ runs' = 0 /\ faults' = 0 /\ spoiled' = {} /\ answer' = NoAnswer

HeapFails == faults < MaxFaults /\ faults' = faults + 1
HeapHolds == UNCHANGED faults

\* disconnect, which calls the user back, which deletes the client: the destructor
\* drops the association and disarms no timer.
Delete_KeepsAssociation(c) ==     \* mutant: the association outlives the client
  /\ status' = [status EXCEPT ![c] = "free"]
  /\ link' = [link EXCEPT ![c] = "none"]
  /\ run' = [run EXCEPT ![c] = 0]
  /\ size' = [size EXCEPT ![c] = 0] /\ got' = [got EXCEPT ![c] = 0]
  /\ spoiled' = spoiled \ {c}
  /\ UNCHANGED http_clt_espconn

Delete(c) ==
  /\ status' = [status EXCEPT ![c] = "free"]
  /\ http_clt_espconn' = http_clt_espconn \ {c}
  /\ link' = [link EXCEPT ![c] = "none"]
  /\ run' = [run EXCEPT ![c] = 0]
  /\ size' = [size EXCEPT ![c] = 0] /\ got' = [got EXCEPT ![c] = 0]
  /\ spoiled' = spoiled \ {c}

-----------------------------------------------------------------------------
(***************************************************************************)
(* add_client_espconn_association: without heap, or when the table is      *)
(* full, the client goes on without an association.                        *)
(***************************************************************************)
add_client_espconn_association(c) ==
  \/ /\ Cardinality(http_clt_espconn) < MaxAssoc
     /\ http_clt_espconn' = http_clt_espconn \cup {c}
     /\ HeapHolds
  \/ /\ Cardinality(http_clt_espconn) >= MaxAssoc
     /\ UNCHANGED http_clt_espconn
     /\ HeapHolds
  \/ HeapFails /\ UNCHANGED http_clt_espconn

connect_TimerLate(c) ==     \* mutant: no timer for a client without association
  /\ status[c] = "free"
  /\ runs < MaxRuns
  /\ runs' = runs + 1
  /\ add_client_espconn_association(c)
  /\ run' = [run EXCEPT ![c] = runs + 1]
  /\ status' = [status EXCEPT ![c] = "CONNECTING"]
  /\ connect_timer' = IF c \in http_clt_espconn' THEN connect_timer \cup {c} ELSE connect_timer
  /\ link' = [link EXCEPT ![c] = "connecting"]
  /\ answer' = NoAnswer
  /\ UNCHANGED <<send_timer, size, got, pending_responses, spoiled>>

connect(c) ==
  /\ status[c] = "free"
  /\ runs < MaxRuns
  /\ runs' = runs + 1
  /\ add_client_espconn_association(c)
  /\ run' = [run EXCEPT ![c] = runs + 1]
  /\ status' = [status EXCEPT ![c] = "CONNECTING"]
  /\ connect_timer' = connect_timer \cup {c}
  /\ link' = [link EXCEPT ![c] = "connecting"]
  /\ answer' = NoAnswer
  /\ UNCHANGED <<send_timer, size, got, pending_responses, spoiled>>

\* espconn_connect fails: the timer is disarmed and the user called back, who deletes
\* the client before connect returns.
connect_Failure(c) ==
  /\ status[c] = "free"
  /\ runs < MaxRuns
  /\ runs' = runs + 1
  /\ connect_timer' = connect_timer \ {c}
  /\ Delete(c)
  /\ HeapHolds \/ HeapFails
  /\ answer' = NoAnswer
  /\ UNCHANGED <<send_timer, pending_responses>>

(***************************************************************************)
(* http_client_connected, and the user's request.  A client without        *)
(* association is not found and waits for its time-out.  The user may have *)
(* no heap for the request and gives up; or send_req has none, and returns *)
(* without a timer and without a word.                                     *)
(***************************************************************************)
http_client_connected(c) ==
  /\ link[c] = "connecting"
  /\ answer' = NoAnswer
  /\ UNCHANGED <<pending_responses, runs>>
  /\ \/ /\ c \notin http_clt_espconn
        /\ link' = [link EXCEPT ![c] = "connected"]
        /\ HeapHolds
        /\ UNCHANGED <<status, http_clt_espconn, connect_timer, send_timer, run, size, got, spoiled>>
     \/ /\ c \in http_clt_espconn
        /\ connect_timer' = connect_timer \ {c}
        /\ link' = [link EXCEPT ![c] = "connected"]
        /\ \/ HeapHolds /\ status' = [status EXCEPT ![c] = "WAITING_RESPONSE"]
                        /\ send_timer' = send_timer \cup {c}
           \/ HeapFails /\ status' = [status EXCEPT ![c] = "CONNECTED"]
                        /\ UNCHANGED send_timer
        /\ UNCHANGED <<http_clt_espconn, run, size, got, spoiled>>
     \/ /\ c \in http_clt_espconn
        /\ connect_timer' = connect_timer \ {c}
        /\ HeapFails /\ Delete(c)
        /\ UNCHANGED send_timer

http_clt_connect_timeout(c) ==
  /\ c \in connect_timer
  /\ connect_timer' = connect_timer \ {c}
  /\ Delete(c)
  /\ answer' = NoAnswer
  /\ UNCHANGED <<send_timer, pending_responses, runs, faults>>

http_clt_send_req_timeout_function_Silent(c) ==     \* mutant: the user is not called
  /\ c \in send_timer
  /\ send_timer' = send_timer \ {c}
  /\ status' = [status EXCEPT ![c] = "CONNECTED"]
  /\ answer' = NoAnswer
  /\ UNCHANGED <<connect_timer, pending_responses, runs, faults, http_clt_espconn, link,
                 run, size, got, spoiled>>

http_clt_send_req_timeout_function(c) ==
  /\ c \in send_timer
  /\ send_timer' = send_timer \ {c}
  /\ Delete(c)
  /\ answer' = NoAnswer
  /\ UNCHANGED <<connect_timer, pending_responses, runs, faults>>

-----------------------------------------------------------------------------
(***************************************************************************)
(* http_client_recv of a message that begins with a header: the first      *)
(* piece of a response of n, or the message put together in entry i of the *)
(* list (0: none), which is removed once the message was handled.          *)
(***************************************************************************)
Without(list, i) == IF i = 0 THEN list ELSE RemoveAt(list, i)
Entry(c, total, parts) == [conn |-> c, total |-> total, parts |-> parts]
Mine_AnyConnection(c) == DOMAIN pending_responses     \* mutant: the first entry is taken
Mine(c) == {i \in DOMAIN pending_responses : pending_responses[i].conn = c}

\* The user reads the answer and deletes the client: its time-out was disarmed.
Ready_TimerArmed(c, parts, n, i) ==     \* mutant: the time-out is not disarmed
  /\ Delete(c)
  /\ answer' = [run |-> run[c], size |-> n, parts |-> parts]
  /\ pending_responses' = Without(pending_responses, i)
  /\ UNCHANGED <<send_timer, connect_timer, runs>>

Ready(c, parts, n, i) ==
  /\ Delete(c)
  /\ send_timer' = send_timer \ {c}
  /\ answer' = [run |-> run[c], size |-> n, parts |-> parts]
  /\ pending_responses' = Without(pending_responses, i)
  /\ UNCHANGED <<connect_timer, runs>>

\* The client waits on, with its time-out armed again: n pieces are to come.
Waits(c, n) ==
  /\ size' = [size EXCEPT ![c] = n] /\ got' = [got EXCEPT ![c] = @ + 1]
  /\ answer' = NoAnswer
  /\ UNCHANGED <<status, http_clt_espconn, connect_timer, send_timer, link, run, runs>>

\* http_save_pending_response
Saved_TooLong(c, total, parts, i) ==     \* mutant: one for the terminator is counted in
  pending_responses' = Without(Append(pending_responses, Entry(c, total + 1, parts)), i)

Saved(c, total, parts, i) ==
  pending_responses' = Without(Append(pending_responses, Entry(c, total, parts)), i)
NotSaved(i) == pending_responses' = Without(pending_responses, i)

http_save_pending_response_Unbounded(c, parts, n, i) ==     \* mutant: no limit
  \/ /\ HeapHolds
     /\ Saved(c, n, parts, i)
     /\ spoiled' = IF Mine(c) = {} THEN spoiled ELSE spoiled \cup {c}
  \/ /\ HeapFails
     /\ NotSaved(i)
     /\ spoiled' = spoiled \cup {c}

http_save_pending_response(c, parts, n, i) ==
  \/ /\ HeapHolds
     /\ Len(pending_responses) < MaxPending
     /\ Saved(c, n, parts, i)
     /\ spoiled' = IF Mine(c) = {} THEN spoiled ELSE spoiled \cup {c}
  \/ /\ (HeapHolds /\ Len(pending_responses) >= MaxPending) \/ HeapFails
     /\ NotSaved(i)
     /\ spoiled' = spoiled \cup {c}

\* The allocations of http_parse_response fail before the length was read (an answer
\* without body), after it (the length of the content stays 0, so that even a whole
\* message is saved, for a length it will not reach), or the object itself is missing.
ParseFails(c, parts, n, i) ==
  \/ HeapFails /\ Ready(c, <<>>, n, i)
  \/ /\ HeapFails
     /\ \/ Len(pending_responses) < MaxPending /\ Saved(c, Unreachable, parts, i)
        \/ NotSaved(i)
     /\ spoiled' = spoiled \cup {c}
     /\ Waits(c, n)
  \/ faults < MaxFaults /\ Restart

Message(c, parts, whole, n, i) ==
  \/ whole /\ HeapHolds /\ Ready(c, parts, n, i)
  \/ ~whole /\ http_save_pending_response(c, parts, n, i) /\ Waits(c, n)
  \/ ParseFails(c, parts, n, i)

FirstPiece(c) ==
  /\ status[c] = "WAITING_RESPONSE" /\ got[c] = 0
  /\ \E n \in Sizes : Message(c, <<<<run[c], 1>>>>, n = 1, n, 0)

(***************************************************************************)
(* http_client_recv of a message without header, which is a later piece.   *)
(* http_check_pending_responses adds it to the first entry of the list     *)
(* that has the connection's address, whoever began it, and handles the    *)
(* message again once its length is exactly the entry's.  A piece that     *)
(* could not be allocated is read from NULL.                               *)
(***************************************************************************)
First(S) == CHOOSE i \in S : \A j \in S : i <= j

\* The entry's length is short of the total, as before, or goes past it: what lies
\* behind the buffer is overwritten, and the entry will never be complete.
Added(c, i, entry) ==
  /\ HeapHolds
  /\ pending_responses' = [pending_responses EXCEPT ![i] = entry]
  /\ UNCHANGED spoiled
  /\ Waits(c, size[c])

http_check_pending_responses(c) ==
  LET i     == First(Mine(c))
      e     == pending_responses[i]
      parts == Append(e.parts, <<run[c], got[c] + 1>>)
      own   == e.parts[1][1] = run[c]
  IN  \/ e.total = Unreachable /\ Added(c, i, e)
      \/ /\ e.total # Unreachable
         /\ \/ own /\ Len(parts) < e.total /\ Added(c, i, [e EXCEPT !.parts = parts])
            \/ own /\ Len(parts) = e.total /\ Message(c, parts, TRUE, size[c], i)
            \/ ~own /\ \/ Added(c, i, [e EXCEPT !.parts = parts])
                       \/ Added(c, i, [e EXCEPT !.total = Unreachable])
                       \/ Message(c, parts, TRUE, size[c], i)
                       \/ Restart

NextPiece(c) ==
  /\ status[c] = "WAITING_RESPONSE" /\ 0 < got[c] /\ got[c] < size[c]
  /\ \/ /\ Mine(c) = {}
        /\ HeapHolds \/ HeapFails
        /\ UNCHANGED <<pending_responses, spoiled>>
        /\ Waits(c, size[c])
     \/ Mine(c) # {} /\ http_check_pending_responses(c)
     \/ Mine(c) # {} /\ faults < MaxFaults /\ Restart

-----------------------------------------------------------------------------
Next == \E c \in Clients :
  \/ connect(c) \/ connect_Failure(c) \/ http_client_connected(c)
  \/ http_clt_connect_timeout(c) \/ http_clt_send_req_timeout_function(c)
  \/ FirstPiece(c) \/ NextPiece(c)

Spec == Init /\ [][Next]_vars

\* Armed timers fire; nobody obliges the network to anything.  A piece arms the
\* time-out of its client again, which it can do only as often as there are pieces.
Fairness == \A c \in Clients : /\ WF_vars(http_clt_connect_timeout(c))
                               /\ WF_vars(http_clt_send_req_timeout_function(c))
FairSpec == Spec /\ Fairness

-----------------------------------------------------------------------------
Statuses == {"free", "CONNECTING", "CONNECTED", "WAITING_RESPONSE"}

ClientTypes ==
  /\ status \in [Clients -> Statuses]
  /\ http_clt_espconn \subseteq Clients
  /\ connect_timer \subseteq Clients /\ send_timer \subseteq Clients
  /\ link \in [Clients -> {"none", "connecting", "connected"}]
  /\ run \in [Clients -> 0..MaxRuns]
  /\ size \in [Clients -> Sizes \cup {0}] /\ got \in [Clients -> Nat]
  /\ runs \in 0..MaxRuns /\ faults \in 0..MaxFaults
  /\ spoiled \subseteq Clients

ListTypes ==
  /\ pending_responses \in Seq([conn : Clients, total : Nat, parts : Seq(Piece)])
  /\ Len(pending_responses) <= MaxPending
  /\ answer \in [run : 0..MaxRuns, size : Nat, parts : Seq(Piece)]

\* The variables have their types, and the list of incomplete responses its capacity.
TypeOK == ClientTypes /\ ListTypes

\* A client that waits for something has exactly the time-out of what it waits for,
\* and no other client has one: in particular none that was deleted, whose time-out
\* would call into freed memory, and the destructor disarms nothing.
OneTimer ==
  \A c \in Clients : /\ c \in connect_timer <=> status[c] = "CONNECTING"
                     /\ c \in send_timer <=> status[c] = "WAITING_RESPONSE"

\* The associations are those of living clients, at most MaxAssoc, and whoever waits
\* for a response has one: http_client_recv finds it.
Associated ==
  /\ http_clt_espconn \subseteq {c \in Clients : status[c] # "free"}
  /\ {c \in Clients : status[c] = "WAITING_RESPONSE"} \subseteq http_clt_espconn
  /\ Cardinality(http_clt_espconn) <= MaxAssoc

\* A response that its reader gets with a body is the whole response, its pieces in
\* order, unless the message was begun for an earlier client at the same address.
AnswerWhole ==
  answer.parts # <<>> /\ answer.parts[1][1] = answer.run =>
    answer.parts = Whole(answer.run, answer.size)

\* A response that came completely does not wait for more: its reader was called,
\* unless a piece was not allocated, the list was full, or a piece of an earlier
\* client's response was left in the list.
NotLost ==
  \A c \in Clients :
    status[c] = "WAITING_RESPONSE" /\ size[c] > 0 /\ got[c] = size[c] => c \in spoiled

-----------------------------------------------------------------------------
\* Seen from its users each client is that of the contract.
Seen(s) == CASE s = "free" -> "none"
             [] s = "CONNECTING" -> "connecting"
             [] s = "CONNECTED" -> "mute"
             [] s = "WAITING_RESPONSE" -> "waiting"

Contract == INSTANCE ClientContract WITH client <- [c \in Clients |-> Seen(status[c])]

\* The code does what its users rely on, and they are always called back.
ContractKept == Contract!Spec
CalledBack   == Contract!CalledBack
===============================================================================
