------------------------------ MODULE HttpServer ------------------------------
(***************************************************************************)
(* Reception of requests: http_svr_recv (espbot_http_server.cpp), the      *)
(* parser and the reassembly of requests that come in several pieces       *)
(* (espbot_http.cpp).                                                      *)
(*                                                                         *)
(* A connection is the address of the espconn the SDK gives to an accepted *)
(* peer, given again after the peer has gone.  A peer sends one request    *)
(* after the other; each has the next number, and is a shape: how many     *)
(* pieces the network makes of it, and in which of them its header ends.   *)
(* A piece is the number of its request and its place.  Pieces of two      *)
(* requests may differ in length.                                          *)
(*                                                                         *)
(* The parser sets h_content_len, which no constructor does, only if it    *)
(* gets past the header and its allocations.  Otherwise http_svr_recv      *)
(* compares what the stack held: every outcome is modelled.                *)
(***************************************************************************)
EXTENDS Integers, FiniteSets, Sequences, SequencesExt

CONSTANTS
  Conns,       \* espconn addresses of accepted connections
  Shapes,      \* pairs: pieces of a request, the piece in which its header ends
  MaxPending,  \* capacity of pending_requests (4)
  MaxRequests, \* bound: requests begun between two restarts
  MaxFaults    \* bound: allocations that fail between two restarts

ASSUME ServerConstants ==
  /\ Shapes \subseteq {s \in Nat \X Nat : 1 <= s[2] /\ s[2] <= s[1]}
  /\ MaxPending \in Nat /\ MaxRequests \in Nat /\ MaxFaults \in Nat

VARIABLES
  req,                \* number of the request each connection carries, or carried last
  size, header, got,  \* its pieces, where its header ends, and the pieces received
  pending_requests,   \* list of incomplete requests
  requests, faults,   \* history: requests begun, allocations failed
  broken,             \* history: requests the reassembly cannot answer for
  elaborated,         \* history: requests given to the routes
  routed              \* history: the call of espbot_http_routes in this step

conns == <<req, size, header, got>>
vars == <<conns, pending_requests, requests, faults, broken, elaborated, routed>>

Piece == (1..MaxRequests) \X (Nat \ {0})
Whole(r, n) == [i \in 1..n |-> <<r, i>>]
NotRouted == [req |-> 0, size |-> 0, parts |-> <<>>]

\* The length of an entry that no sequence of pieces reaches: it comes from the
\* stack, or the pieces went past it.
Unreachable == 0

Start ==
  [req |-> [c \in Conns |-> 0], size |-> [c \in Conns |-> 0],
   header |-> [c \in Conns |-> 0], got |-> [c \in Conns |-> 0]]

Init ==
  /\ req = Start.req /\ size = Start.size /\ header = Start.header /\ got = Start.got
  /\ pending_requests = <<>> /\ requests = 0 /\ faults = 0
  /\ broken = {} /\ elaborated = {} /\ routed = NotRouted

\* NULL is read, or memory behind a buffer is overwritten: the watchdog restarts.
Restart ==
  /\ req' = Start.req /\ size' = Start.size /\ header' = Start.header /\ got' = Start.got
  /\ pending_requests' = <<>> /\ requests' = 0 /\ faults' = 0
  /\ broken' = {} /\ elaborated' = {} /\ routed' = NotRouted

HeapFails == faults < MaxFaults /\ faults' = faults + 1
HeapHolds == UNCHANGED faults

-----------------------------------------------------------------------------
Entry(c, total, parts) == [conn |-> c, total |-> total, parts |-> parts]
Mine_AnyConnection(c) == DOMAIN pending_requests     \* mutant: the first entry is taken
Mine(c) == {i \in DOMAIN pending_requests : pending_requests[i].conn = c}
Without_Kept(list, i) == list     \* mutant: a complete message stays in the list
Without(list, i) == IF i = 0 THEN list ELSE RemoveAt(list, i)

(***************************************************************************)
(* What becomes of a message that begins with a header: parts, which came  *)
(* on c and are in entry i of the list (0: in none, it is a first piece).  *)
(* The entry is removed after the message was handled.                     *)
(***************************************************************************)
Routed(n, parts, i) ==
  /\ routed' = [req |-> parts[1][1], size |-> n, parts |-> parts]
  /\ elaborated' = elaborated \cup {parts[1][1]}
  /\ pending_requests' = Without(pending_requests, i)

\* The routes are called without content.
RoutedBare(n, r, i) ==
  /\ routed' = [req |-> r, size |-> n, parts |-> <<>>]
  /\ elaborated' = elaborated \cup {r}
  /\ pending_requests' = Without(pending_requests, i)

Saved(c, total, parts, i) ==
  /\ pending_requests' = Without(Append(pending_requests, Entry(c, total, parts)), i)
  /\ routed' = NotRouted /\ UNCHANGED elaborated

Dropped(i) ==
  /\ pending_requests' = Without(pending_requests, i)
  /\ routed' = NotRouted /\ UNCHANGED elaborated

http_save_pending_request_Unbounded(c, total, parts, i) ==     \* mutant: no limit
  \/ HeapHolds /\ Saved(c, total, parts, i)
  \/ HeapFails /\ Dropped(i)

http_save_pending_request_TooLong(c, total, parts, i) ==     \* mutant: one is added for the terminator
  \/ HeapHolds /\ Len(pending_requests) < MaxPending /\ Saved(c, total + 1, parts, i)
  \/ HeapHolds /\ Len(pending_requests) >= MaxPending /\ Dropped(i)
  \/ HeapFails /\ Dropped(i)

http_save_pending_request(c, total, parts, i) ==
  \/ HeapHolds /\ Len(pending_requests) < MaxPending /\ Saved(c, total, parts, i)
  \/ HeapHolds /\ Len(pending_requests) >= MaxPending /\ Dropped(i)
  \/ HeapFails /\ Dropped(i)

\* h_content_len is not set: no route is found without a url, the routes get a request
\* without its content, or the message is saved for a length that means nothing.
Unset(c, n, parts, i) ==
  \/ Dropped(i)
  \/ RoutedBare(n, parts[1][1], i)
  \/ /\ Len(pending_requests) < MaxPending
     /\ \E total \in {Unreachable} \cup (Len(parts) + 1)..n : Saved(c, total, parts, i)

\* http_svr_recv of the request on c, whose first pieces are parts.
Message(c, n, h, parts, i) ==
  \/ /\ h <= Len(parts) /\ Len(parts) = n          \* whole
     /\ HeapHolds /\ Routed(n, parts, i)
     /\ UNCHANGED broken
  \/ /\ h <= Len(parts) /\ Len(parts) < n          \* waiting for completion
     /\ http_save_pending_request(c, n, parts, i)
     /\ broken' = IF Len(pending_requests') = Len(Without(pending_requests, i)) + 1
                     /\ Mine(c) \subseteq {i}
                  THEN broken ELSE broken \cup {parts[1][1]}
  \/ /\ \/ Len(parts) < h /\ HeapHolds             \* no end of the header
        \/ HeapFails                               \* no heap for url, headers or content
     /\ Unset(c, n, parts, i)
     /\ broken' = broken \cup {parts[1][1]}
  \/ /\ HeapFails /\ h <= Len(parts)               \* no heap for the Content-Length
     /\ Routed(n, parts, i)
     /\ broken' = broken \cup {parts[1][1]}

-----------------------------------------------------------------------------
\* The first piece of a new request.
FirstPiece(c) ==
  /\ got[c] = size[c]
  /\ requests < MaxRequests
  /\ requests' = requests + 1
  /\ req' = [req EXCEPT ![c] = requests + 1]
  /\ got' = [got EXCEPT ![c] = 1]
  /\ \E s \in Shapes :
       /\ size' = [size EXCEPT ![c] = s[1]] /\ header' = [header EXCEPT ![c] = s[2]]
       /\ Message(c, s[1], s[2], <<<<requests + 1, 1>>>>, 0)

(***************************************************************************)
(* A piece without header.  http_check_pending_requests adds it to the     *)
(* first entry of the list with its address, whoever began it, and handles *)
(* the message once its length is exactly the entry's.                     *)
(***************************************************************************)
First(S) == CHOOSE i \in S : \A j \in S : i <= j

Received(c) ==
  /\ got' = [got EXCEPT ![c] = @ + 1]
  /\ UNCHANGED <<req, size, header, requests>>

\* What lies behind the buffer is overwritten once the pieces go past its length.
Added(i, entry) ==
  /\ HeapHolds
  /\ pending_requests' = [pending_requests EXCEPT ![i] = entry]
  /\ routed' = NotRouted /\ UNCHANGED <<elaborated, broken>>

\* The entry was begun by a request that was given up: pieces of another one may stop
\* short of its length, reach it or go past it.
AddedToOther(c, i, e, parts) ==
  \/ Added(i, [e EXCEPT !.parts = parts])
  \/ Added(i, [e EXCEPT !.total = Unreachable])
  \/ HeapHolds /\ Routed(size[c], parts, i) /\ UNCHANGED broken
  \/ (HeapHolds \/ HeapFails) /\ Unset(c, size[c], parts, i) /\ UNCHANGED broken

http_check_pending_requests(c) ==
  LET i     == First(Mine(c))
      e     == pending_requests[i]
      parts == Append(e.parts, <<req[c], got[c] + 1>>)
      own   == e.parts[1][1] = req[c]
  IN  \/ e.total = Unreachable /\ Added(i, e)
      \/ e.total # Unreachable /\ own /\ Len(parts) < e.total
           /\ Added(i, [e EXCEPT !.parts = parts])
      \/ e.total # Unreachable /\ own /\ Len(parts) = e.total
           /\ Message(c, size[c], header[c], parts, i)
      \/ e.total # Unreachable /\ ~own /\ AddedToOther(c, i, e, parts)

\* The piece could not be allocated and is read from NULL, or it is longer than what
\* its entry waits for and overwrites what lies behind.
Faulty(c) ==
  LET e == pending_requests[First(Mine(c))]
  IN  faults < MaxFaults \/ e.total = Unreachable \/ e.parts[1][1] # req[c]

NextPiece(c) ==
  /\ got[c] < size[c]
  /\ \/ /\ Mine(c) = {}
        /\ HeapHolds \/ HeapFails
        /\ routed' = NotRouted
        /\ Received(c)
        /\ UNCHANGED <<pending_requests, broken, elaborated>>
     \/ Mine(c) # {} /\ http_check_pending_requests(c) /\ Received(c)
     \/ Mine(c) # {} /\ Faulty(c) /\ Restart

\* The connection ends in the middle of a request.  http_svr_discon only writes a log:
\* the pieces stay in the list.
http_svr_discon(c) ==
  /\ got[c] < size[c]
  /\ size' = [size EXCEPT ![c] = 0] /\ header' = [header EXCEPT ![c] = 0]
  /\ got' = [got EXCEPT ![c] = 0]
  /\ broken' = broken \cup {req[c]}
  /\ routed' = NotRouted
  /\ UNCHANGED <<req, pending_requests, requests, faults, elaborated>>

Next == \E c \in Conns : FirstPiece(c) \/ NextPiece(c) \/ http_svr_discon(c)
Spec == Init /\ [][Next]_vars

-----------------------------------------------------------------------------
\* The variables have their types, and the list of incomplete requests its capacity.
TypeOK ==
  /\ req \in [Conns -> 0..MaxRequests]
  /\ size \in [Conns -> Nat] /\ header \in [Conns -> Nat] /\ got \in [Conns -> Nat]
  /\ pending_requests \in Seq([conn : Conns, total : Nat, parts : Seq(Piece)])
  /\ Len(pending_requests) <= MaxPending
  /\ requests \in 0..MaxRequests /\ faults \in 0..MaxFaults
  /\ broken \subseteq 1..MaxRequests /\ elaborated \subseteq 1..MaxRequests
  /\ routed \in [req : 0..MaxRequests, size : Nat, parts : Seq(Piece)]

\* The routes get whole requests: all pieces of one, in order and nothing else, unless
\* it met a fault, its header was cut or its place in the list was another one's.
RequestWhole ==
  routed.req > 0 /\ routed.req \notin broken =>
    routed.parts = Whole(routed.req, routed.size)

\* A request that came whole was given to the routes, with the same exceptions.
Elaborated ==
  \A c \in Conns : got[c] = size[c] /\ req[c] > 0 => req[c] \in elaborated \cup broken

\* No request is given to the routes twice, broken or not: neither the message that
\* completes it nor a second parse of it stays in the list.
ElaboratedOnce == [][routed'.req \notin elaborated]_vars

\* espbot_http.hpp: "incomplete messages are queued and elaborated on completion":
\* without a fault, what one peer leaves unfinished costs no other its request.
ElaboratedOnCompletion ==
  \A c \in Conns : got[c] = size[c] /\ header[c] = 1 /\ faults = 0 => req[c] \in elaborated
===============================================================================
