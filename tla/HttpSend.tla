------------------------------ MODULE HttpSend ------------------------------
(***************************************************************************)
(* The transmission layer of espbot_http.cpp: every HTTP response and      *)
(* every client request goes out through http_send_buffer, which keeps at  *)
(* most one espconn_send outstanding (esp_busy_sending_data), queues what  *)
(* arrives meanwhile (pending_send), cuts long contents into pieces        *)
(* (pending_split_send) and relies on the coordinator's task queue to      *)
(* resume (SIG_http_checkPendingResponse).                                 *)
(*                                                                         *)
(* Handlers, task signals, timers and SDK callbacks run to completion, so  *)
(* each is one action.  A handler makes several calls that each change the *)
(* layer, and each call may fail: an operator takes the layer's state as a *)
(* record s and returns the SET of states the call can leave behind.       *)
(*                                                                         *)
(* A message is a response (or request) number, and a piece of it is the   *)
(* number the code calls `order': 0 is the header, 1, 2, ... the pieces of *)
(* at most http_msg_max_size bytes.  A heap buffer is named by the message *)
(* and the piece it holds.                                                 *)
(***************************************************************************)
EXTENDS Naturals, Sequences, FiniteSets

CONSTANTS
  Conn,          \* espconn structures of accepted and outgoing connections
  NoPiece,       \* send_buffer == NULL
  MaxPending,    \* capacity of pending_send (16 in http_init)
  MaxSplit,      \* capacity of pending_split_send (16 in http_init)
  TaskQueueLen,  \* ESPBOT_TASK_QUEUE_LEN (8)
  MaxMessages,   \* bound: messages the routes and the client start
  Sizes,         \* numbers of content pieces the messages may have
  MaxFaults,     \* bound: failed allocations, file reads and espconn_send calls
  LateSentCb     \* may the SDK call back a send the 20 s timer gave up on?

ASSUME SendConstants ==
  /\ MaxPending \in Nat \ {0} /\ MaxSplit \in Nat \ {0}
  /\ TaskQueueLen \in Nat \ {0}
  /\ Sizes \subseteq Nat /\ MaxMessages \in Nat
  /\ MaxFaults \in Nat /\ LateSentCb \in BOOLEAN
  /\ NoPiece \notin [conn : Conn, msg : Nat, order : Nat]

VARIABLES
  pending_send,           \* Queue<http_send>
  pending_split_send,     \* Queue<http_split_send>
  esp_busy_sending_data,
  send_buffer,
  clear_busy_timer,       \* clear_busy_sending_data_timer is armed
  tasks,                  \* the coordinator's event queue
  state,                  \* p_espconn->state of each connection
  awaiting,               \* espconn_send calls the SDK has not called back
  server,                 \* http_svr_state.status
  heap,                   \* live message and content buffers
  leaked,                 \* history: buffers no code will ever free
  bad_free,               \* history: delete[] of what is not a live buffer
  missed,                 \* history: the last wake-up was lost, see Post, GiveUp
  faults,                 \* history: calls that failed
  sent                    \* history: per message, 1 + last order transmitted

vars == <<pending_send, pending_split_send, esp_busy_sending_data, send_buffer,
          clear_busy_timer, tasks, state, awaiting, server, heap, leaked,
          bad_free, missed, faults, sent>>

(***************************************************************************)
(* The layer's state as a record, and the step to a given record.          *)
(***************************************************************************)
Layer ==
  [pending |-> pending_send, split |-> pending_split_send,
   busy |-> esp_busy_sending_data, buffer |-> send_buffer,
   timer |-> clear_busy_timer, tasks |-> tasks, state |-> state,
   awaiting |-> awaiting, heap |-> heap, leaked |-> leaked,
   bad |-> bad_free, missed |-> missed, faults |-> faults, sent |-> sent]

Become(t) ==
  /\ pending_send' = t.pending
  /\ pending_split_send' = t.split
  /\ esp_busy_sending_data' = t.busy
  /\ send_buffer' = t.buffer
  /\ clear_busy_timer' = t.timer
  /\ tasks' = t.tasks
  /\ state' = t.state
  /\ awaiting' = t.awaiting
  /\ heap' = t.heap
  /\ leaked' = t.leaked
  /\ bad_free' = t.bad
  /\ missed' = t.missed
  /\ faults' = t.faults
  /\ sent' = t.sent

(***************************************************************************)
(* Data.  What a split message still has to send is one record: `left'     *)
(* pieces starting at `order', cut from a content buffer.  The content of  *)
(* a diagnostic events message is the string literal "".                   *)
(***************************************************************************)
Piece(c, m, o) == [conn |-> c, msg |-> m, order |-> o]
Remaining(c, m, k, o, n) ==
  [conn |-> c, msg |-> m, kind |-> k, order |-> o, left |-> n]

PieceBuf(m, o) == <<m, "piece", o>>
BufferOf(p)    == PieceBuf(p.msg, p.order)
ContentOf(r)   == <<r.msg, IF r.kind = "diag" THEN "literal" ELSE "content", 0>>
TextOf(m, n)   == IF n = 1 THEN PieceBuf(m, 1) ELSE <<m, "content", 0>>
FirstOf(r)   == Piece(r.conn, r.msg, r.order)
RestOf(r)    == [r EXCEPT !.order = @ + 1, !.left = @ - 1]

Alloc(s, b) == [s EXCEPT !.heap = @ \cup {b}]
Leak(s, b)  == [s EXCEPT !.heap = @ \cup {b}, !.leaked = @ \cup {b}]
Free(s, b)  == [s EXCEPT !.heap = @ \ {b},
                         !.bad = IF b \in s.heap THEN @ ELSE @ \cup {b}]
Faulty(s)   == IF s.faults < MaxFaults THEN {[s EXCEPT !.faults = @ + 1]} ELSE {}
NewMessage(s) == [s EXCEPT !.sent = Append(@, 0)]

InUse(s, c) == s.state[c] \in {"CONNECT", "WRITE"}

(***************************************************************************)
(* system_os_post(SIG_http_checkPendingResponse): the result is never      *)
(* looked at, so a full task queue loses the signal.  GiveUp marks the     *)
(* branches of a split action that may end with neither a send nor a post; *)
(* a later send or post clears the mark.                                   *)
(***************************************************************************)
Post(s) == IF Len(s.tasks) < TaskQueueLen
           THEN [s EXCEPT !.tasks = Append(@, "check"), !.missed = FALSE]
           ELSE [s EXCEPT !.missed = TRUE]
GiveUp(s) == [s EXCEPT !.missed = TRUE]

(***************************************************************************)
(* http_send_buffer and push_pending_send.                                 *)
(***************************************************************************)
push_pending_send_Unbounded(s, p) ==          \* mutant: Queue_full ignored
  {[s EXCEPT !.pending = Append(@, p)]}

push_pending_send(s, p) ==
  {IF Len(s.pending) < MaxPending
   THEN [s EXCEPT !.pending = Append(@, p)]
   ELSE Free(s, BufferOf(p))} \cup
  {Leak(t, BufferOf(p)) : t \in Faulty(s)}   \* no heap for the http_send struct

EspconnSend_NoTimer(s, p) ==                  \* mutant: os_timer_arm missing
  [s EXCEPT !.busy = TRUE, !.buffer = p,
            !.state[p.conn] = "WRITE", !.awaiting = @ \cup {p.conn},
            !.missed = FALSE, !.sent[p.msg] = p.order + 1]

EspconnSend(s, p) ==
  [s EXCEPT !.busy = TRUE, !.buffer = p, !.timer = TRUE,
            !.state[p.conn] = "WRITE", !.awaiting = @ \cup {p.conn},
            !.missed = FALSE, !.sent[p.msg] = p.order + 1]

Discard_NoPost(s, p, timer) ==                \* mutant: nobody woken up
  [Free(s, BufferOf(p)) EXCEPT !.busy = FALSE, !.buffer = NoPiece,
                               !.timer = timer]

Discard(s, p, timer) ==
  Post([Free(s, BufferOf(p)) EXCEPT !.busy = FALSE, !.buffer = NoPiece,
                                    !.timer = timer])

http_send_buffer_NoFlag(s, p) ==              \* mutant: the flag is not tested
  IF s.state[p.conn] # "CONNECT"
  THEN {Discard(s, p, s.timer)}
  ELSE {EspconnSend(s, p)} \cup {Discard(t, p, FALSE) : t \in Faulty(s)}

http_send_buffer(s, p) ==
  IF s.busy
  THEN push_pending_send(s, p)
  ELSE IF s.state[p.conn] # "CONNECT"
       THEN {Discard(s, p, s.timer)}
       ELSE {EspconnSend(s, p)} \cup {Discard(t, p, FALSE) : t \in Faulty(s)}

(***************************************************************************)
(* http_send: send a content of n pieces, splitting it when n > 1.         *)
(* send_remaining_msg: the next piece of one.  A full split queue still    *)
(* sends the piece in hand, and nobody owns the content any more.          *)
(***************************************************************************)
PushSplit(s, r) == [s EXCEPT !.split = Append(@, r)]
SplitFull(s)    == Len(s.split) = MaxSplit

PushRemainingMsg(s, r) ==
  IF SplitFull(s) THEN Leak(s, ContentOf(r)) ELSE PushSplit(s, r)

http_send(s, c, m, n) ==
  IF n = 1
  THEN http_send_buffer(s, Piece(c, m, 1))
  ELSE LET r == Remaining(c, m, "msg", 1, n)
       IN  {Free(t, ContentOf(r)) : t \in Faulty(s)} \cup
           http_send_buffer(PushRemainingMsg(Alloc(s, PieceBuf(m, 1)), RestOf(r)),
                          FirstOf(r))

send_remaining_msg_NoFree(s, r) ==            \* mutant: content kept after the last piece
  LET withPiece == Alloc(s, BufferOf(FirstOf(r)))
  IN  IF ~InUse(s, r.conn)
      THEN {Post(Free(s, ContentOf(r)))}
      ELSE IF r.left > 1
      THEN http_send_buffer(PushRemainingMsg(withPiece, RestOf(r)), FirstOf(r))
      ELSE http_send_buffer(withPiece, FirstOf(r))

send_remaining_msg(s, r) ==
  LET withPiece == Alloc(s, BufferOf(FirstOf(r)))
  IN  IF ~InUse(s, r.conn)
      THEN {Post(Free(s, ContentOf(r)))}
      ELSE IF r.left > 1
      THEN {Post(Free(t, ContentOf(r))) : t \in Faulty(s)} \cup
           http_send_buffer(PushRemainingMsg(withPiece, RestOf(r)), FirstOf(r))
      ELSE {Free(t, ContentOf(r)) :
              t \in {Post(u) : u \in Faulty(s)} \cup http_send_buffer(withPiece, FirstOf(r))}

(***************************************************************************)
(* http_response: header first, then the content (n = 0: header only).     *)
(* error_response is its use on a failure: a short JSON text of its own.    *)
(***************************************************************************)
http_response(s, c, m, n) ==
  {IF n = 0 THEN t ELSE Leak(t, TextOf(m, n)) : t \in Faulty(s)} \cup
  UNION {IF n = 0 THEN {t} ELSE http_send(t, c, m, n) :
           t \in http_send_buffer(Alloc(s, PieceBuf(m, 0)), Piece(c, m, 0))}

error_response(s, c) ==
  LET m == Len(s.sent) + 1
  IN  Faulty(s) \cup
      http_response(Alloc(NewMessage(s), PieceBuf(m, 1)), c, m, 1)

Failure(s, c) == UNION {error_response(t, c) : t \in Faulty(s)}

(***************************************************************************)
(* return_file and send_remaining_file (espbot_http_routes.cpp).           *)
(***************************************************************************)
send_remaining_file(s, r) ==
  LET piece == BufferOf(FirstOf(r))
      freed == Free(s, ContentOf(r))
  IN  IF ~InUse(s, r.conn)
      THEN {Post(freed)}
      ELSE Failure(GiveUp(freed), r.conn) \cup
           Failure(GiveUp(Leak(freed, piece)), r.conn) \cup
           IF r.left > 1
           THEN IF SplitFull(s)
                THEN {GiveUp(freed)}
                ELSE http_send_buffer(PushSplit(Alloc(s, piece), RestOf(r)), FirstOf(r))
           ELSE {Free(t, ContentOf(r)) : t \in http_send_buffer(Alloc(s, piece), FirstOf(r))}

FileAfterHeader(s, c, m, n) ==
  LET r == Remaining(c, m, "file", 1, n)
  IN  IF n = 0
      THEN {s}
      ELSE Failure(s, c) \cup
           IF n = 1
           THEN Failure(Leak(s, PieceBuf(m, 1)), c) \cup
                http_send_buffer(Alloc(s, PieceBuf(m, 1)), Piece(c, m, 1))
           ELSE IF SplitFull(s)
                THEN {s}
                ELSE http_send_buffer(
                       PushSplit(Alloc(Alloc(s, ContentOf(r)), PieceBuf(m, 1)), RestOf(r)),
                       FirstOf(r))

return_file(s, c, m, n) ==
  Failure(s, c) \cup
  UNION {FileAfterHeader(t, c, m, n) :
           t \in http_send_buffer(Alloc(s, PieceBuf(m, 0)), Piece(c, m, 0))}

(***************************************************************************)
(* getDiagnosticEvents and getDiagnosticEvents_next.  After a failed       *)
(* header the first one goes on to the content all the same.               *)
(***************************************************************************)
getDiagnosticEvents_next(s, r) ==
  LET withPiece == Alloc(s, BufferOf(FirstOf(r)))
  IN  IF ~InUse(s, r.conn)
      THEN {Post(s)}
      ELSE Failure(GiveUp(s), r.conn) \cup
           IF r.left = 1
           THEN http_send_buffer(withPiece, FirstOf(r))
           ELSE IF SplitFull(s)
                THEN {GiveUp(s)}
                ELSE http_send_buffer(PushSplit(withPiece, RestOf(r)), FirstOf(r))

DiagContent(s, c, m, n) ==
  LET r == Remaining(c, m, "diag", 1, n)
      withPiece == Alloc(s, PieceBuf(m, 1))
  IN  IF n = 1
      THEN Failure(s, c) \cup http_send_buffer(withPiece, Piece(c, m, 1))
      ELSE Faulty(s) \cup
           IF SplitFull(s)
           THEN {s}
           ELSE http_send_buffer(PushSplit(withPiece, RestOf(r)), FirstOf(r))

getDiagnosticEvents(s, c, m, n) ==
  UNION {DiagContent(t, c, m, n) :
           t \in Failure(s, c) \cup
                 http_send_buffer(Alloc(s, PieceBuf(m, 0)), Piece(c, m, 0))}

(***************************************************************************)
(* http_check_pending_send and http_queues_clear.                          *)
(***************************************************************************)
SplitAction(s, r) ==
  CASE r.kind = "msg"  -> send_remaining_msg(s, r)
    [] r.kind = "file" -> send_remaining_file(s, r)
    [] r.kind = "diag" -> getDiagnosticEvents_next(s, r)

Elements(q) == {q[i] : i \in DOMAIN q}
Queued(s)   == {BufferOf(p) : p \in Elements(s.pending)} \cup
               {ContentOf(r) : r \in Elements(s.split)}

ClearQueues(s) ==
  [s EXCEPT !.pending = <<>>, !.split = <<>>,
            !.heap = @ \ Queued(s), !.bad = @ \cup (Queued(s) \ s.heap)]

http_check_pending_send_SplitFirst(s, up) ==  \* mutant: split queue served first
  IF ~up
  THEN {ClearQueues(s)}
  ELSE IF s.split # <<>>
  THEN {[t EXCEPT !.split = Tail(@)] : t \in SplitAction(s, Head(s.split))}
  ELSE IF s.pending # <<>> /\ ~s.busy
  THEN {[t EXCEPT !.pending = Tail(@)] : t \in http_send_buffer(s, Head(s.pending))}
  ELSE {s}

http_check_pending_send(s, up) ==
  IF ~up
  THEN {ClearQueues(s)}
  ELSE IF s.pending # <<>>
  THEN IF s.busy
       THEN {s}
       ELSE {[t EXCEPT !.pending = Tail(@)] : t \in http_send_buffer(s, Head(s.pending))}
  ELSE IF s.split # <<>>
  THEN {[t EXCEPT !.split = Tail(@)] : t \in SplitAction(s, Head(s.split))}
  ELSE {s}

(***************************************************************************)
(* http_sentcb and clear_busy_sending_data: neither looks at the           *)
(* connection it is called for.                                            *)
(***************************************************************************)
Completed_NoPost(s) ==                        \* mutant: the queue is not checked again
  [IF s.buffer = NoPiece THEN s ELSE Free(s, BufferOf(s.buffer))
     EXCEPT !.timer = FALSE, !.buffer = NoPiece, !.busy = FALSE]

Completed(s) ==
  Post([IF s.buffer = NoPiece THEN s ELSE Free(s, BufferOf(s.buffer))
          EXCEPT !.timer = FALSE, !.buffer = NoPiece, !.busy = FALSE])

-----------------------------------------------------------------------------
Init ==
  /\ pending_send = <<>>
  /\ pending_split_send = <<>>
  /\ esp_busy_sending_data = FALSE
  /\ send_buffer = NoPiece
  /\ clear_busy_timer = FALSE
  /\ tasks = <<>>
  /\ state = [c \in Conn |-> "CLOSE"]
  /\ awaiting = {}
  /\ server = "down"
  /\ heap = {}
  /\ leaked = {}
  /\ bad_free = {}
  /\ missed = FALSE
  /\ faults = 0
  /\ sent = <<>>

(***************************************************************************)
(* A route serves a request received on c with a file or the events; a     *)
(* route, or a delayed answer (the scan, the OTA, a one second timer)      *)
(* answers on c, whatever became of c since; the client sends a request.   *)
(***************************************************************************)
Fresh == Len(sent) + 1
More  == Len(sent) < MaxMessages

Respond(c, n) ==
  /\ More
  /\ LET s == NewMessage(Layer)
     IN  \E t \in http_response(IF n = 0 THEN s ELSE Alloc(s, TextOf(Fresh, n)),
                                c, Fresh, n) : Become(t)
  /\ UNCHANGED server

SendFile(c, n) ==
  /\ More /\ InUse(Layer, c)
  /\ \E t \in return_file(NewMessage(Layer), c, Fresh, n) : Become(t)
  /\ UNCHANGED server

SendEvents(c, n) ==
  /\ More /\ InUse(Layer, c)
  /\ n > 0
  /\ \E t \in getDiagnosticEvents(NewMessage(Layer), c, Fresh, n) : Become(t)
  /\ UNCHANGED server

SendRequest(c, n) ==
  /\ More
  /\ n > 0
  /\ \E t \in http_send(Alloc(NewMessage(Layer), TextOf(Fresh, n)), c, Fresh, n) :
       Become(t)
  /\ UNCHANGED server

(***************************************************************************)
(* espbot_coordinator_task: one signal per call.  Signals that do not      *)
(* reach this layer are "other" ones.                                      *)
(***************************************************************************)
RunTask ==
  /\ tasks # <<>>
  /\ LET s == [Layer EXCEPT !.tasks = Tail(@)]
     IN  \E t \in IF Head(tasks) = "check"
                  THEN http_check_pending_send(s, server = "up")
                  ELSE {s} : Become(t)
  /\ UNCHANGED server

PostOther ==
  /\ Len(tasks) < TaskQueueLen
  /\ Become([Layer EXCEPT !.tasks = Append(@, "other")])
  /\ UNCHANGED server

(***************************************************************************)
(* The SDK calls back a completed espconn_send; the 20 s timer fires.      *)
(***************************************************************************)
SentCb(c) ==
  /\ c \in awaiting
  /\ Become([Completed(Layer) EXCEPT !.awaiting = @ \ {c}, !.state[c] = "CONNECT"])
  /\ UNCHANGED server

Timeout ==
  /\ clear_busy_timer
  /\ Become([Completed(Layer) EXCEPT !.awaiting = IF LateSentCb THEN @ ELSE {}])
  /\ UNCHANGED server

(***************************************************************************)
(* Connections come and go, the client's own also while the server is      *)
(* down; the server is started and stopped.                                *)
(***************************************************************************)
Connect(c) ==
  /\ state[c] = "CLOSE"
  /\ Become([Layer EXCEPT !.state[c] = "CONNECT"])
  /\ UNCHANGED server

Close(c) ==
  /\ state[c] # "CLOSE"
  /\ Become([Layer EXCEPT !.state[c] = "CLOSE", !.awaiting = @ \ {c}])
  /\ UNCHANGED server

ServerStart ==
  /\ server = "down"
  /\ server' = "up"
  /\ Become(Layer)

ServerStop ==
  /\ server = "up"
  /\ server' = "down"
  /\ Become(ClearQueues(Layer))

Next ==
  \/ \E c \in Conn, n \in Sizes :
       Respond(c, n) \/ SendFile(c, n) \/ SendEvents(c, n) \/ SendRequest(c, n)
  \/ \E c \in Conn : SentCb(c) \/ Connect(c) \/ Close(c)
  \/ RunTask \/ PostOther \/ Timeout \/ ServerStart \/ ServerStop

Spec == Init /\ [][Next]_vars

\* The SDK runs every posted event and every armed timer; nothing obliges it
\* to call back a send.
Fairness == WF_vars(RunTask) /\ WF_vars(Timeout)
FairSpec == Spec /\ Fairness

-----------------------------------------------------------------------------
(***************************************************************************)
(* Properties.                                                             *)
(***************************************************************************)
Messages == 1..Len(sent)
Pieces == [conn : Conn, msg : Messages, order : Nat]
Remainders == [conn : Conn, msg : Messages, kind : {"msg", "file", "diag"},
               order : Nat, left : Nat \ {0}]

\* The layer's variables have their types and the queues their capacities.
Buffers == Messages \X {"piece", "content", "literal"} \X Nat
TypeOK ==
  /\ pending_send \in Seq(Pieces) /\ Len(pending_send) <= MaxPending
  /\ pending_split_send \in Seq(Remainders) /\ Len(pending_split_send) <= MaxSplit
  /\ esp_busy_sending_data \in BOOLEAN
  /\ send_buffer \in Pieces \cup {NoPiece}
  /\ clear_busy_timer \in BOOLEAN
  /\ tasks \in Seq({"check", "other"}) /\ Len(tasks) <= TaskQueueLen
  /\ state \in [Conn -> {"CONNECT", "WRITE", "CLOSE"}]
  /\ awaiting \subseteq Conn
  /\ server \in {"up", "down"}
  /\ heap \subseteq Buffers
  /\ leaked \subseteq Buffers
  /\ bad_free \subseteq Buffers
  /\ missed \in BOOLEAN
  /\ faults \in 0..MaxFaults
  /\ sent \in Seq(Nat)

\* The flag, the buffer and the timer go together: http_sentcb and
\* clear_busy_sending_data rely on it to free the one buffer being sent.
FlagOwnsBuffer ==
  /\ esp_busy_sending_data <=> send_buffer # NoPiece
  /\ esp_busy_sending_data <=> clear_busy_timer

\* "make sure espconn_send is called after espconn_sent_callback of the
\* previous packet": whatever connection the SDK still owes a sent callback is
\* the one whose piece holds the flag and the buffer, so there is at most one.
OneSendAtATime ==
  \A c \in awaiting :
    esp_busy_sending_data /\ send_buffer # NoPiece /\ send_buffer.conn = c

\* Every live buffer is held by exactly one of send_buffer, an entry of
\* pending_send and an entry of pending_split_send, or was lost by a branch that
\* leaks it; nothing held was freed, and only the literal is ever freed in error.
NoDangling ==
  /\ leaked \subseteq heap
  /\ \A p \in Elements(pending_send) : BufferOf(p) \in heap \ leaked
  /\ \A r \in Elements(pending_split_send) :
       r.kind # "diag" => ContentOf(r) \in heap \ leaked
  /\ send_buffer # NoPiece => BufferOf(send_buffer) \in heap \ leaked
  /\ \A b \in bad_free : b[2] = "literal"
NoSharing ==
  /\ \A i, j \in DOMAIN pending_send :
       BufferOf(pending_send[i]) = BufferOf(pending_send[j]) => i = j
  /\ \A i, j \in DOMAIN pending_split_send :
       pending_split_send[i].msg = pending_split_send[j].msg => i = j
  /\ send_buffer # NoPiece =>
       \A p \in Elements(pending_send) : BufferOf(p) # BufferOf(send_buffer)
Accounted ==
  heap \ leaked \subseteq
    Queued(Layer) \cup (IF send_buffer = NoPiece THEN {} ELSE {BufferOf(send_buffer)})
OwnedOnce == NoDangling /\ NoSharing /\ Accounted

\* Pieces of one message reach espconn_send in order and never twice, whatever
\* other messages, time-outs, failures and closed connections come between.
SentUpTo(m) == IF m \in DOMAIN sent THEN sent[m] ELSE 0
SentInOrder ==
  [][send_buffer' \notin {send_buffer, NoPiece} =>
       send_buffer'.order >= SentUpTo(send_buffer'.msg)]_vars

\* Something left to send is never forgotten: a send is outstanding or a check
\* of the queues is posted, unless that wake-up was refused by a full task queue
\* or not attempted by a file or event action that failed.
Work == pending_send # <<>> \/ pending_split_send # <<>>
Awake == esp_busy_sending_data \/ "check" \in Elements(tasks)
WakeUp == Work => Awake \/ missed

\* If from some time on no wake-up is lost, the queues empty again and again:
\* nothing waits in them for ever.
Drains == <>[]~missed => []<>~Work

\* A promise the code does not keep.

\* "there will be no send, so trigger a check of pending send": whatever a
\* split action does, the next entry gets its turn.
NeverStalls == Work => Awake
=============================================================================
