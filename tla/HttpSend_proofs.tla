--------------------------- MODULE HttpSend_proofs ---------------------------
(***************************************************************************)
(* Proofs about HttpSend.  The invariant is stated on the record the       *)
(* operators pass around (Good), each operator is shown to preserve it     *)
(* once, and an action is then a matter of citing the operators it calls.  *)
(***************************************************************************)
EXTENDS HttpSend, TLAPS

PieceT(k)     == [conn : Conn, msg : 1..k, order : Nat]
RemainderT(k) == [conn : Conn, msg : 1..k, kind : {"msg", "file", "diag"},
                  order : Nat, left : Nat \ {0}]
BufferT(k)    == (1..k) \X {"piece", "content", "literal"} \X Nat
LayerT(k) ==
  [pending : Seq(PieceT(k)), split : Seq(RemainderT(k)), busy : BOOLEAN,
   buffer : PieceT(k) \cup {NoPiece}, timer : BOOLEAN,
   tasks : Seq({"check", "other"}), state : [Conn -> {"CONNECT", "WRITE", "CLOSE"}],
   awaiting : SUBSET Conn, heap : SUBSET BufferT(k), leaked : SUBSET BufferT(k),
   bad : SUBSET BufferT(k), missed : BOOLEAN, faults : Nat, sent : Seq(Nat)]

Flags(s) == /\ s.busy <=> s.buffer # NoPiece
            /\ s.busy <=> s.timer
            /\ ~LateSentCb => \A c \in s.awaiting : s.busy /\ s.buffer.conn = c
Caps(s)  == /\ Len(s.pending) <= MaxPending
            /\ Len(s.split) <= MaxSplit
            /\ Len(s.tasks) <= TaskQueueLen
            /\ s.faults <= MaxFaults

\* The layer after k messages were started.
Good(s, k) == s \in LayerT(k) /\ Len(s.sent) = k /\ Flags(s) /\ Caps(s)

\* The same queues, flag and wake-up.
Same(s, t) == /\ t.split = s.split /\ t.pending = s.pending /\ t.busy = s.busy
              /\ t.tasks = s.tasks /\ t.missed = s.missed

\* The wake-up for what is queued: there is one (or it was lost), there is one if
\* anything is queued, or nothing is known of it, in the middle of a handler.
Alarm(s) == s.busy \/ "check" \in Elements(s.tasks) \/ s.missed
Idle(s)  == s.pending = <<>> /\ s.split = <<>>
Awoken(s, wake) == wake = "unknown" \/ Alarm(s) \/ (wake = "needed" /\ Idle(s))

\* What a call, or a whole handler, that started from k messages and n split
\* entries leaves.
Kept(t, k, n, wake)  == Good(t, k) /\ Len(t.split) >= n /\ Awoken(t, wake)
After(t, k, n, wake) == \E j \in Nat : j >= k /\ Kept(t, j, n, wake)

(***************************************************************************)
(* One lemma per kind of update.                                           *)
(***************************************************************************)
LEMMA HeapUpdate ==
  ASSUME NEW k \in Nat, NEW s, Good(s, k), NEW b \in BufferT(k)
  PROVE  /\ Good(Alloc(s, b), k) /\ Same(s, Alloc(s, b))
         /\ Good(Leak(s, b), k) /\ Same(s, Leak(s, b))
         /\ Good(Free(s, b), k) /\ Same(s, Free(s, b))
<1>1. Good(Alloc(s, b), k) /\ Same(s, Alloc(s, b))
  BY DEF Good, LayerT, Flags, Caps, Same, Alloc
<1>2. Good(Leak(s, b), k) /\ Same(s, Leak(s, b))
  BY DEF Good, LayerT, Flags, Caps, Same, Leak
<1>3. Good(Free(s, b), k) /\ Same(s, Free(s, b))
  <2>1. CASE b \in s.heap
    BY <2>1 DEF Good, LayerT, Flags, Caps, Same, Free
  <2>2. CASE b \notin s.heap
    BY <2>2 DEF Good, LayerT, Flags, Caps, Same, Free
  <2>. QED BY <2>1, <2>2
<1>. QED BY <1>1, <1>2, <1>3

LEMMA GiveUpGood ==
  ASSUME NEW k \in Nat, NEW s, Good(s, k)
  PROVE  Good(GiveUp(s), k) /\ GiveUp(s).split = s.split /\ Alarm(GiveUp(s))
BY DEF Good, LayerT, Flags, Caps, GiveUp, Alarm

LEMMA FaultyGood ==
  ASSUME NEW k \in Nat, NEW s, Good(s, k), NEW t \in Faulty(s)
  PROVE  Good(t, k) /\ Same(s, t)
<1>1. t = [s EXCEPT !.faults = @ + 1] /\ s.faults < MaxFaults
  BY DEF Faulty
<1>2. s.faults + 1 \in Nat /\ s.faults + 1 <= MaxFaults
  BY <1>1, SendConstants DEF Good, LayerT
<1>. QED BY <1>1, <1>2 DEF Good, LayerT, Flags, Caps, Same

LEMMA TasksUpdate ==
  ASSUME NEW k \in Nat, NEW s, Good(s, k), NEW q \in Seq({"check", "other"}),
         Len(q) <= TaskQueueLen
  PROVE  Good([s EXCEPT !.tasks = q], k)
BY DEF Good, LayerT, Flags, Caps

LEMMA PostGood ==
  ASSUME NEW k \in Nat, NEW s, Good(s, k)
  PROVE  Good(Post(s), k) /\ Post(s).split = s.split /\ Alarm(Post(s))
<1>1. CASE Len(s.tasks) < TaskQueueLen
  <2> DEFINE q == Append(s.tasks, "check")
             t == [s EXCEPT !.tasks = q, !.missed = FALSE]
  <2>1. q \in Seq({"check", "other"}) /\ Len(q) <= TaskQueueLen /\ "check" \in Elements(q)
    <3>1. s.tasks \in Seq({"check", "other"}) /\ Len(s.tasks) \in Nat
      BY DEF Good, LayerT
    <3>2. Len(s.tasks) + 1 \in DOMAIN q /\ q[Len(s.tasks) + 1] = "check"
      BY <3>1
    <3> QED BY <1>1, <3>1, <3>2, SendConstants DEF Elements
  <2> HIDE DEF q
  <2>2. Good(t, k) /\ t.split = s.split /\ t.tasks = q
    BY <2>1 DEF Good, LayerT, Flags, Caps
  <2>3. Post(s) = t
    BY <1>1 DEF Post, q
  <2>. QED BY <2>1, <2>2, <2>3 DEF Alarm
<1>2. CASE ~(Len(s.tasks) < TaskQueueLen)
  BY <1>2, GiveUpGood DEF Post, GiveUp
<1>. QED BY <1>1, <1>2

LEMMA PushSplitGood ==
  ASSUME NEW k \in Nat, NEW s, Good(s, k), NEW r \in RemainderT(k), ~SplitFull(s)
  PROVE  Good(PushSplit(s, r), k) /\ Len(PushSplit(s, r).split) >= Len(s.split)
<1> DEFINE q == Append(s.split, r)
<1>1. q \in Seq(RemainderT(k)) /\ Len(q) <= MaxSplit /\ Len(q) >= Len(s.split)
  BY SendConstants DEF Good, LayerT, Caps, SplitFull
<1> HIDE DEF q
<1>2. Good([s EXCEPT !.split = q], k)
  BY <1>1 DEF Good, LayerT, Flags, Caps
<1>3. [s EXCEPT !.split = q].split = q
  BY DEF Good, LayerT
<1>. QED BY <1>1, <1>2, <1>3 DEF PushSplit, q

LEMMA NewMessageGood ==
  ASSUME NEW k \in Nat, NEW s, Good(s, k)
  PROVE  Good(NewMessage(s), k + 1) /\ Same(s, NewMessage(s))
<1> DEFINE q == Append(s.sent, 0)
<1>1. q \in Seq(Nat) /\ Len(q) = k + 1
  BY DEF Good, LayerT
<1>2. 1..k \subseteq 1..(k + 1)
  OBVIOUS
<1>3. PieceT(k) \subseteq PieceT(k + 1) /\ BufferT(k) \subseteq BufferT(k + 1)
      /\ RemainderT(k) \subseteq RemainderT(k + 1)
  BY <1>2 DEF PieceT, BufferT, RemainderT
<1>4. Seq(PieceT(k)) \subseteq Seq(PieceT(k + 1))
      /\ Seq(RemainderT(k)) \subseteq Seq(RemainderT(k + 1))
  BY <1>3
<1>5. s \in LayerT(k + 1)
  BY <1>3, <1>4 DEF Good, LayerT
<1> HIDE DEF q
<1>6. [s EXCEPT !.sent = q] \in LayerT(k + 1)
  BY <1>1, <1>5 DEF LayerT
<1>7. Good([s EXCEPT !.sent = q], k + 1) /\ Same(s, [s EXCEPT !.sent = q])
  BY <1>1, <1>6 DEF Good, LayerT, Flags, Caps, Same
<1>. QED BY <1>7 DEF NewMessage, q

(***************************************************************************)
(* http_send_buffer and its two outcomes when nothing is being sent.       *)
(***************************************************************************)
LEMMA BufferOfType ==
  ASSUME NEW k \in Nat, NEW p \in PieceT(k)
  PROVE  BufferOf(p) \in BufferT(k)
BY DEF BufferOf, PieceBuf, PieceT, BufferT

LEMMA EspconnSendGood ==
  ASSUME NEW k \in Nat, NEW s, Good(s, k), ~s.busy, NEW p \in PieceT(k)
  PROVE  /\ Good(EspconnSend(s, p), k)
         /\ EspconnSend(s, p).split = s.split /\ EspconnSend(s, p).pending = s.pending
         /\ Alarm(EspconnSend(s, p))
<1> DEFINE st == [s.state EXCEPT ![p.conn] = "WRITE"]
           se == [s.sent EXCEPT ![p.msg] = p.order + 1]
           aw == s.awaiting \cup {p.conn}
           t  == [s EXCEPT !.busy = TRUE, !.buffer = p, !.timer = TRUE,
                           !.state = st, !.awaiting = aw, !.missed = FALSE, !.sent = se]
<1>1. st \in [Conn -> {"CONNECT", "WRITE", "CLOSE"}] /\ aw \in SUBSET Conn
  BY DEF Good, LayerT, PieceT
<1>2. se \in Seq(Nat) /\ Len(se) = k
  BY DEF Good, LayerT, PieceT
<1>3. p # NoPiece /\ (~LateSentCb => aw = {p.conn})
  BY SendConstants DEF PieceT, Good, Flags
<1> HIDE DEF st, se, aw
<1>4. t \in LayerT(k) /\ t.busy /\ t.timer /\ t.buffer = p /\ t.sent = se /\ t.awaiting = aw
      /\ t.split = s.split /\ t.pending = s.pending /\ t.tasks = s.tasks
      /\ t.faults = s.faults
  BY <1>1, <1>2 DEF Good, LayerT
<1>5. Good(t, k)
  BY <1>2, <1>3, <1>4 DEF Good, Flags, Caps
<1>6. EspconnSend(s, p) = t
  BY DEF EspconnSend, Good, LayerT, st, se, aw
<1>. QED BY <1>4, <1>5, <1>6 DEF Alarm

LEMMA DiscardGood ==
  ASSUME NEW k \in Nat, NEW s, Good(s, k), ~s.busy, NEW p \in PieceT(k),
         NEW timer, timer = FALSE
  PROVE  /\ Good(Discard(s, p, timer), k)
         /\ Discard(s, p, timer).split = s.split
         /\ Discard(s, p, timer).pending = s.pending
         /\ Alarm(Discard(s, p, timer))
<1> DEFINE f == Free(s, BufferOf(p))
           g == [f EXCEPT !.busy = FALSE, !.buffer = NoPiece, !.timer = timer]
<1>1. Good(f, k) /\ f.split = s.split /\ f.pending = s.pending /\ ~f.busy
  BY BufferOfType, HeapUpdate DEF Same
<1> HIDE DEF f
<1>2. Good(g, k) /\ g.split = f.split /\ g.pending = f.pending
  BY <1>1 DEF Good, LayerT, Flags, Caps
<1> HIDE DEF g
<1>3. Good(Post(g), k) /\ Post(g).split = g.split /\ Alarm(Post(g))
  BY <1>2, PostGood
<1>4. Post(g).pending = g.pending
  BY <1>2 DEF Post, Good, LayerT
<1>. QED BY <1>1, <1>2, <1>3, <1>4 DEF Discard, f, g

LEMMA PushPendingGood ==
  ASSUME NEW k \in Nat, NEW s, Good(s, k), NEW p \in PieceT(k)
  PROVE  \A t \in push_pending_send(s, p) :
           Good(t, k) /\ t.split = s.split /\ t.busy = s.busy
<1> DEFINE q == Append(s.pending, p)
<1>1. ASSUME Len(s.pending) < MaxPending
      PROVE  /\ Good([s EXCEPT !.pending = q], k) /\ [s EXCEPT !.pending = q].split = s.split
             /\ [s EXCEPT !.pending = q].busy = s.busy
  <2>1. q \in Seq(PieceT(k)) /\ Len(q) <= MaxPending
    BY <1>1, SendConstants DEF Good, LayerT
  <2> HIDE DEF q
  <2>. QED BY <2>1 DEF Good, LayerT, Flags, Caps
<1>2. /\ Good(Free(s, BufferOf(p)), k) /\ Free(s, BufferOf(p)).split = s.split
      /\ Free(s, BufferOf(p)).busy = s.busy
  BY BufferOfType, HeapUpdate DEF Same
<1>3. \A t \in Faulty(s) : /\ Good(Leak(t, BufferOf(p)), k)
                          /\ Leak(t, BufferOf(p)).split = s.split
                          /\ Leak(t, BufferOf(p)).busy = s.busy
  BY BufferOfType, HeapUpdate, FaultyGood DEF Same
<1>. QED BY <1>1, <1>2, <1>3 DEF push_pending_send

LEMMA SendBufferGood ==
  ASSUME NEW k \in Nat, NEW s, Good(s, k), NEW p \in PieceT(k)
  PROVE  \A t \in http_send_buffer(s, p) :
           /\ Good(t, k) /\ t.split = s.split
           /\ ~s.busy => t.pending = s.pending
           /\ Alarm(t)
<1>1. CASE s.busy
  BY <1>1, PushPendingGood DEF http_send_buffer, Alarm
<1>2. CASE ~s.busy
  <2>1. s.timer = FALSE
    BY <1>2 DEF Good, Flags, LayerT
  <2>2. \A t \in Faulty(s) : Good(t, k) /\ t.split = s.split /\ ~t.busy
                            /\ t.pending = s.pending
    BY <1>2, FaultyGood DEF Same
  <2>3. \A t \in Faulty(s) : /\ Good(Discard(t, p, FALSE), k)
                             /\ Discard(t, p, FALSE).split = s.split
                             /\ Discard(t, p, FALSE).pending = s.pending
                             /\ Alarm(Discard(t, p, FALSE))
    <3> TAKE t \in Faulty(s)
    <3>1. Good(t, k) /\ t.split = s.split /\ ~t.busy /\ t.pending = s.pending
      BY <2>2
    <3>. QED BY <3>1, DiscardGood
  <2>4. /\ Good(Discard(s, p, s.timer), k)
        /\ Discard(s, p, s.timer).split = s.split
        /\ Discard(s, p, s.timer).pending = s.pending
        /\ Alarm(Discard(s, p, s.timer))
    BY <1>2, <2>1, DiscardGood
  <2>. QED BY <1>2, <2>3, <2>4, EspconnSendGood DEF http_send_buffer
<1>. QED BY <1>1, <1>2

(***************************************************************************)
(* Contents and their remainders.                                          *)
(***************************************************************************)
LEMMA RemainderTypes ==
  ASSUME NEW k \in Nat, NEW r \in RemainderT(k)
  PROVE  /\ FirstOf(r) \in PieceT(k) /\ ContentOf(r) \in BufferT(k)
         /\ BufferOf(FirstOf(r)) \in BufferT(k)
         /\ r.left > 1 => RestOf(r) \in RemainderT(k)
         /\ r.conn \in Conn
<1>1. FirstOf(r) \in PieceT(k) /\ ContentOf(r) \in BufferT(k) /\ r.conn \in Conn
  BY DEF FirstOf, Piece, ContentOf, RemainderT, PieceT, BufferT
<1>2. BufferOf(FirstOf(r)) \in BufferT(k)
  BY <1>1, BufferOfType
<1>3. ASSUME r.left > 1 PROVE RestOf(r) \in RemainderT(k)
  <2>1. r.order + 1 \in Nat /\ r.left - 1 \in Nat \ {0}
    BY <1>3 DEF RemainderT
  <2>. QED BY <2>1 DEF RestOf, RemainderT
<1>. QED BY <1>1, <1>2, <1>3

LEMMA RemainingTypes ==
  ASSUME NEW k \in Nat, NEW c \in Conn, NEW m \in 1..k, NEW n \in Nat \ {0},
         NEW kind \in {"msg", "file", "diag"}
  PROVE  /\ Remaining(c, m, kind, 1, n) \in RemainderT(k)
         /\ Remaining(c, m, kind, 1, n).left = n
BY DEF Remaining, RemainderT

LEMMA MessageTypes ==
  ASSUME NEW k \in Nat, NEW c \in Conn, NEW m \in 1..k, NEW o \in Nat, NEW n \in Nat
  PROVE  /\ Piece(c, m, o) \in PieceT(k) /\ PieceBuf(m, o) \in BufferT(k)
         /\ TextOf(m, n) \in BufferT(k)
BY DEF Piece, PieceT, PieceBuf, BufferT, TextOf

LEMMA SameAwoken ==
  ASSUME NEW s, NEW t, Same(s, t), NEW wake, Awoken(s, wake)
  PROVE  Awoken(t, wake)
BY DEF Same, Awoken, Alarm, Idle

LEMMA AlarmAwoken ==
  ASSUME NEW s, Alarm(s), NEW wake
  PROVE  Awoken(s, wake)
BY DEF Awoken

\* Whatever was known before, http_send_buffer leaves an alarm.
LEMMA SendKept ==
  ASSUME NEW k \in Nat, NEW n \in Nat, NEW s, NEW was, Kept(s, k, n, was), NEW p \in PieceT(k),
         NEW wake
  PROVE  \A t \in http_send_buffer(s, p) : Kept(t, k, n, wake)
BY SendBufferGood, AlarmAwoken DEF Kept

LEMMA HeapKept ==
  ASSUME NEW k \in Nat, NEW n \in Nat, NEW wake, NEW s, Kept(s, k, n, wake), NEW b \in BufferT(k)
  PROVE  /\ Kept(Alloc(s, b), k, n, wake) /\ Kept(Leak(s, b), k, n, wake)
         /\ Kept(Free(s, b), k, n, wake)
<1>1. \A t : Good(t, k) /\ Same(s, t) => Kept(t, k, n, wake)
  BY SameAwoken DEF Kept, Same
<1> QED BY <1>1, HeapUpdate DEF Kept

\* So do the posts, and the marks of those that are not tried.
LEMMA CallKept ==
  ASSUME NEW k \in Nat, NEW n \in Nat, NEW was, NEW s, Kept(s, k, n, was)
  PROVE  /\ \A wake : Kept(Post(s), k, n, wake) /\ Kept(GiveUp(s), k, n, wake)
         /\ \A t \in Faulty(s) : Kept(t, k, n, was)
<1>1. \A t \in Faulty(s) : Kept(t, k, n, was)
  BY FaultyGood, SameAwoken DEF Kept, Same
<1>2. \A wake : Kept(Post(s), k, n, wake) /\ Kept(GiveUp(s), k, n, wake)
  BY PostGood, GiveUpGood, AlarmAwoken DEF Kept
<1> QED BY <1>1, <1>2

LEMMA SplitKept ==
  ASSUME NEW k \in Nat, NEW n \in Nat, NEW was, NEW s, Kept(s, k, n, was), NEW r \in RemainderT(k)
  PROVE  /\ Kept(PushRemainingMsg(s, r), k, n, "unknown")
         /\ ~SplitFull(s) => Kept(PushSplit(s, r), k, n, "unknown")
<1>1. ASSUME ~SplitFull(s) PROVE Kept(PushSplit(s, r), k, n, "unknown")
  <2>1. Good(PushSplit(s, r), k) /\ Len(PushSplit(s, r).split) >= Len(s.split)
    BY <1>1, PushSplitGood DEF Kept
  <2>2. Len(PushSplit(s, r).split) \in Nat /\ Len(s.split) \in Nat
    BY <2>1 DEF Kept, Good, LayerT
  <2>. QED BY <2>1, <2>2 DEF Kept, Awoken
<1>2. Kept(s, k, n, "unknown")
  BY DEF Kept, Awoken
<1>3. Kept(Leak(s, ContentOf(r)), k, n, "unknown")
  BY <1>2, HeapKept, RemainderTypes
<1>. QED BY <1>1, <1>3 DEF PushRemainingMsg

(***************************************************************************)
(* http_send, send_remaining_msg, http_response.                           *)
(***************************************************************************)
LEMMA HttpSendKept ==
  ASSUME NEW k \in Nat, NEW l \in Nat, NEW wake, NEW s, Kept(s, k, l, wake),
         NEW c \in Conn, NEW m \in 1..k, NEW n \in Nat \ {0}
  PROVE  \A t \in http_send(s, c, m, n) : Kept(t, k, l, wake)
<1>1. CASE n = 1
  BY <1>1, MessageTypes, SendKept DEF http_send
<1>2. CASE n # 1
  <2> DEFINE r == Remaining(c, m, "msg", 1, n)
  <2>1. r \in RemainderT(k) /\ r.left > 1
    BY <1>2, RemainingTypes
  <2>2. \A t \in Faulty(s) : Kept(Free(t, ContentOf(r)), k, l, wake)
    BY <2>1, CallKept, HeapKept, RemainderTypes
  <2>3. Kept(Alloc(s, PieceBuf(m, 1)), k, l, wake)
    BY MessageTypes, HeapKept
  <2>4. Kept(PushRemainingMsg(Alloc(s, PieceBuf(m, 1)), RestOf(r)), k, l, "unknown")
    BY <2>1, <2>3, RemainderTypes, SplitKept
  <2>5. \A t \in http_send_buffer(PushRemainingMsg(Alloc(s, PieceBuf(m, 1)), RestOf(r)),
                                  FirstOf(r)) : Kept(t, k, l, wake)
    BY <2>1, <2>4, RemainderTypes, SendKept
  <2>. QED BY <1>2, <2>2, <2>5 DEF http_send
<1>. QED BY <1>1, <1>2

LEMMA RemainingMsgKept ==
  ASSUME NEW k \in Nat, NEW l \in Nat, NEW was, NEW s, Kept(s, k, l, was),
         NEW r \in RemainderT(k), NEW wake
  PROVE  \A t \in send_remaining_msg(s, r) : Kept(t, k, l, wake)
<1> DEFINE w == Alloc(s, BufferOf(FirstOf(r)))
<1>1. Kept(w, k, l, was)
  BY HeapKept, RemainderTypes
<1>2. Kept(Post(Free(s, ContentOf(r))), k, l, wake)
  BY HeapKept, RemainderTypes, CallKept
<1>3. \A t \in Faulty(s) : Kept(Post(Free(t, ContentOf(r))), k, l, wake)
  BY HeapKept, RemainderTypes, CallKept
<1>4. ASSUME r.left > 1
      PROVE \A t \in http_send_buffer(PushRemainingMsg(w, RestOf(r)), FirstOf(r)) :
              Kept(t, k, l, wake)
  <2>1. Kept(PushRemainingMsg(w, RestOf(r)), k, l, "unknown")
    BY <1>1, <1>4, RemainderTypes, SplitKept
  <2>. QED BY <2>1, RemainderTypes, SendKept
<1>5. \A t \in {Post(u) : u \in Faulty(s)} \cup http_send_buffer(w, FirstOf(r)) :
        Kept(t, k, l, wake)
  BY <1>1, RemainderTypes, SendKept, CallKept
<1>6. \A t \in {Post(u) : u \in Faulty(s)} \cup http_send_buffer(w, FirstOf(r)) :
        Kept(Free(t, ContentOf(r)), k, l, wake)
  BY <1>5, RemainderTypes, HeapKept
<1>. QED BY <1>2, <1>3, <1>4, <1>6 DEF send_remaining_msg

LEMMA ResponseKept ==
  ASSUME NEW k \in Nat, NEW l \in Nat, NEW wake, NEW s, Kept(s, k, l, wake),
         NEW c \in Conn, NEW m \in 1..k, NEW n \in Nat
  PROVE  \A t \in http_response(s, c, m, n) : Kept(t, k, l, wake)
<1>1. \A t \in Faulty(s) : Kept(IF n = 0 THEN t ELSE Leak(t, TextOf(m, n)), k, l, wake)
  BY CallKept, HeapKept, MessageTypes
<1>2. Kept(Alloc(s, PieceBuf(m, 0)), k, l, wake) /\ Piece(c, m, 0) \in PieceT(k)
  BY HeapKept, MessageTypes
<1>3. \A t \in http_send_buffer(Alloc(s, PieceBuf(m, 0)), Piece(c, m, 0)) : Kept(t, k, l, wake)
  BY <1>2, SendKept
<1>4. \A t \in http_send_buffer(Alloc(s, PieceBuf(m, 0)), Piece(c, m, 0)) :
        \A u \in (IF n = 0 THEN {t} ELSE http_send(t, c, m, n)) : Kept(u, k, l, wake)
  BY <1>3, HttpSendKept
<1>. QED BY <1>1, <1>4 DEF http_response

LEMMA ErrorAfter ==
  ASSUME NEW k \in Nat, NEW l \in Nat, NEW wake, NEW s, Kept(s, k, l, wake), NEW c \in Conn
  PROVE  /\ \A t \in error_response(s, c) : After(t, k, l, wake)
         /\ \A t \in Failure(s, c) : After(t, k, l, wake)
<1>1. ASSUME NEW u, Kept(u, k, l, wake)
      PROVE  \A t \in error_response(u, c) : After(t, k, l, wake)
  <2> DEFINE w == Alloc(NewMessage(u), PieceBuf(k + 1, 1))
  <2>1. Len(u.sent) + 1 = k + 1 /\ k + 1 \in 1..(k + 1)
    BY <1>1 DEF Kept, Good
  <2>2. Kept(NewMessage(u), k + 1, l, wake)
    <3>1. Good(NewMessage(u), k + 1) /\ Same(u, NewMessage(u))
      BY <1>1, NewMessageGood DEF Kept
    <3>. QED BY <1>1, <3>1, SameAwoken DEF Kept, Same
  <2>3. PieceBuf(k + 1, 1) \in BufferT(k + 1)
    BY <2>1, MessageTypes
  <2>4. Kept(w, k + 1, l, wake)
    BY <2>2, <2>3, HeapKept
  <2>5. \A t \in http_response(w, c, k + 1, 1) : Kept(t, k + 1, l, wake)
    BY <2>1, <2>4, ResponseKept
  <2>6. \A t \in Faulty(u) : Kept(t, k, l, wake)
    BY <1>1, CallKept
  <2>. QED BY <2>1, <2>5, <2>6 DEF error_response, After
<1>2. \A t \in Faulty(s) : Kept(t, k, l, wake)
  BY CallKept
<1>. QED BY <1>1, <1>2 DEF Failure

(***************************************************************************)
(* return_file, getDiagnosticEvents and their continuations.               *)
(***************************************************************************)
LEMMA KeptAfter ==
  ASSUME NEW k \in Nat, NEW l \in Nat, NEW wake, NEW t, Kept(t, k, l, wake)
  PROVE  After(t, k, l, wake)
BY DEF After

LEMMA SplitSend ==
  ASSUME NEW k \in Nat, NEW l \in Nat, NEW was, NEW s, Kept(s, k, l, was), NEW wake, ~SplitFull(s),
         NEW r \in RemainderT(k), r.left > 1, NEW p \in PieceT(k)
  PROVE  \A t \in http_send_buffer(PushSplit(s, RestOf(r)), p) : After(t, k, l, wake)
<1>1. Kept(PushSplit(s, RestOf(r)), k, l, "unknown")
  BY RemainderTypes, SplitKept
<1>. QED BY <1>1, SendKept, KeptAfter

LEMMA RemainingFileAfter ==
  ASSUME NEW k \in Nat, NEW l \in Nat, NEW was, NEW s, Kept(s, k, l, was),
         NEW r \in RemainderT(k), NEW wake
  PROVE  \A t \in send_remaining_file(s, r) : After(t, k, l, wake)
<1> DEFINE b == BufferOf(FirstOf(r))
           f == Free(s, ContentOf(r))
           w == Alloc(s, b)
<1>1. b \in BufferT(k) /\ Kept(f, k, l, was) /\ Kept(w, k, l, was) /\ Kept(Leak(f, b), k, l, was)
  BY RemainderTypes, HeapKept
<1>2. After(Post(f), k, l, wake) /\ After(GiveUp(f), k, l, wake)
  BY <1>1, CallKept, KeptAfter
<1>3. /\ \A t \in Failure(GiveUp(f), r.conn) : After(t, k, l, wake)
      /\ \A t \in Failure(GiveUp(Leak(f, b)), r.conn) : After(t, k, l, wake)
  BY <1>1, CallKept, ErrorAfter, RemainderTypes
<1>4. ASSUME r.left > 1, ~SplitFull(s)
      PROVE  \A t \in http_send_buffer(PushSplit(w, RestOf(r)), FirstOf(r)) : After(t, k, l, wake)
  <2>1. ~SplitFull(w)
    BY <1>1, <1>4 DEF SplitFull, Alloc, Kept, Good, LayerT
  <2>. QED BY <1>1, <1>4, <2>1, SplitSend, RemainderTypes
<1>5. \A t \in http_send_buffer(w, FirstOf(r)) : After(Free(t, ContentOf(r)), k, l, wake)
  BY <1>1, SendKept, HeapKept, KeptAfter, RemainderTypes
<1>. QED BY <1>2, <1>3, <1>4, <1>5 DEF send_remaining_file

LEMMA FileContentAfter ==
  ASSUME NEW k \in Nat, NEW l \in Nat, NEW wake, NEW s, Kept(s, k, l, wake),
         NEW c \in Conn, NEW m \in 1..k, NEW n \in Nat
  PROVE  \A t \in FileAfterHeader(s, c, m, n) : After(t, k, l, wake)
<1> DEFINE r == Remaining(c, m, "file", 1, n)
           w == Alloc(Alloc(s, ContentOf(r)), PieceBuf(m, 1))
<1>1. After(s, k, l, wake)
  BY KeptAfter
<1>2. \A t \in Failure(s, c) : After(t, k, l, wake)
  BY ErrorAfter
<1>3. ASSUME n = 1
      PROVE  /\ \A t \in Failure(Leak(s, PieceBuf(m, 1)), c) : After(t, k, l, wake)
             /\ \A t \in http_send_buffer(Alloc(s, PieceBuf(m, 1)), Piece(c, m, 1)) :
                  After(t, k, l, wake)
  BY MessageTypes, HeapKept, ErrorAfter, SendKept, KeptAfter
<1>4. ASSUME n > 1, ~SplitFull(s)
      PROVE  \A t \in http_send_buffer(PushSplit(w, RestOf(r)), FirstOf(r)) : After(t, k, l, wake)
  <2>1. r \in RemainderT(k) /\ r.left > 1
    BY <1>4, RemainingTypes
  <2>2. Kept(w, k, l, wake)
    BY <2>1, RemainderTypes, MessageTypes, HeapKept
  <2>3. ~SplitFull(w)
    BY <1>4 DEF SplitFull, Alloc, Kept, Good, LayerT
  <2>. QED BY <2>1, <2>2, <2>3, SplitSend, RemainderTypes
<1>. QED BY <1>1, <1>2, <1>3, <1>4 DEF FileAfterHeader

LEMMA RemainingDiagAfter ==
  ASSUME NEW k \in Nat, NEW l \in Nat, NEW was, NEW s, Kept(s, k, l, was),
         NEW r \in RemainderT(k), NEW wake
  PROVE  \A t \in getDiagnosticEvents_next(s, r) : After(t, k, l, wake)
<1> DEFINE w == Alloc(s, BufferOf(FirstOf(r)))
<1>1. Kept(w, k, l, was)
  BY RemainderTypes, HeapKept
<1>2. After(Post(s), k, l, wake) /\ After(GiveUp(s), k, l, wake)
  BY CallKept, KeptAfter
<1>3. \A t \in Failure(GiveUp(s), r.conn) : After(t, k, l, wake)
  BY CallKept, ErrorAfter, RemainderTypes
<1>4. \A t \in http_send_buffer(w, FirstOf(r)) : After(t, k, l, wake)
  BY <1>1, SendKept, KeptAfter, RemainderTypes
<1>5. ASSUME r.left # 1, ~SplitFull(s)
      PROVE  \A t \in http_send_buffer(PushSplit(w, RestOf(r)), FirstOf(r)) : After(t, k, l, wake)
  <2>1. ~SplitFull(w)
    BY <1>5 DEF SplitFull, Alloc, Kept, Good, LayerT
  <2>2. r.left > 1
    BY <1>5 DEF RemainderT
  <2>. QED BY <1>1, <2>1, <2>2, SplitSend, RemainderTypes
<1>. QED BY <1>2, <1>3, <1>4, <1>5 DEF getDiagnosticEvents_next

LEMMA DiagContentAfter ==
  ASSUME NEW k \in Nat, NEW l \in Nat, NEW wake, NEW s, Kept(s, k, l, wake),
         NEW c \in Conn, NEW m \in 1..k, NEW n \in Nat \ {0}
  PROVE  \A t \in DiagContent(s, c, m, n) : After(t, k, l, wake)
<1> DEFINE r == Remaining(c, m, "diag", 1, n)
           w == Alloc(s, PieceBuf(m, 1))
<1>1. After(s, k, l, wake) /\ \A t \in Faulty(s) : After(t, k, l, wake)
  BY CallKept, KeptAfter
<1>2. \A t \in Failure(s, c) : After(t, k, l, wake)
  BY ErrorAfter
<1>3. Kept(w, k, l, wake)
  BY MessageTypes, HeapKept
<1>4. \A t \in http_send_buffer(w, Piece(c, m, 1)) : After(t, k, l, wake)
  BY <1>3, MessageTypes, SendKept, KeptAfter
<1>5. ASSUME n # 1, ~SplitFull(s)
      PROVE  \A t \in http_send_buffer(PushSplit(w, RestOf(r)), FirstOf(r)) : After(t, k, l, wake)
  <2>1. r \in RemainderT(k) /\ r.left > 1
    BY <1>5, RemainingTypes
  <2>2. ~SplitFull(w)
    BY <1>5 DEF SplitFull, Alloc, Kept, Good, LayerT
  <2>. QED BY <1>3, <2>1, <2>2, SplitSend, RemainderTypes
<1>. QED BY <1>1, <1>2, <1>4, <1>5 DEF DiagContent

LEMMA FileAfter ==
  ASSUME NEW k \in Nat, NEW l \in Nat, NEW wake, NEW s, Kept(s, k, l, wake),
         NEW c \in Conn, NEW m \in 1..k, NEW n \in Nat
  PROVE  \A t \in return_file(s, c, m, n) : After(t, k, l, wake)
<1>1. \A t \in Failure(s, c) : After(t, k, l, wake)
  BY ErrorAfter
<1>2. \A t \in http_send_buffer(Alloc(s, PieceBuf(m, 0)), Piece(c, m, 0)) : Kept(t, k, l, wake)
  BY MessageTypes, HeapKept, SendKept
<1>3. \A t \in http_send_buffer(Alloc(s, PieceBuf(m, 0)), Piece(c, m, 0)) :
        \A u \in FileAfterHeader(t, c, m, n) : After(u, k, l, wake)
  BY <1>2, FileContentAfter
<1>. QED BY <1>1, <1>3 DEF return_file

LEMMA DiagAfter ==
  ASSUME NEW k \in Nat, NEW l \in Nat, NEW wake, NEW s, Kept(s, k, l, wake),
         NEW c \in Conn, NEW m \in 1..k, NEW n \in Nat \ {0}
  PROVE  \A t \in getDiagnosticEvents(s, c, m, n) : After(t, k, l, wake)
<1> DEFINE headed == http_send_buffer(Alloc(s, PieceBuf(m, 0)), Piece(c, m, 0))
<1>1. \A t \in Failure(s, c) : After(t, k, l, wake)
  BY ErrorAfter
<1>2. \A t \in headed : After(t, k, l, wake)
  BY MessageTypes, HeapKept, SendKept, KeptAfter
<1>3. ASSUME NEW t, After(t, k, l, wake)
      PROVE  \A u \in DiagContent(t, c, m, n) : After(u, k, l, wake)
  <2>1. PICK j \in Nat : j >= k /\ Kept(t, j, l, wake)
    BY <1>3 DEF After
  <2>2. m \in 1..j
    BY <2>1
  <2>3. \A u \in DiagContent(t, c, m, n) : After(u, j, l, wake)
    BY <2>1, <2>2, DiagContentAfter
  <2>. QED BY <2>1, <2>3 DEF After
<1>. QED BY <1>1, <1>2, <1>3 DEF getDiagnosticEvents

(***************************************************************************)
(* The queues are served: what is taken off them is what was at the head.  *)
(***************************************************************************)
Sound(t) == \E j \in Nat : Good(t, j) /\ Awoken(t, "needed")

LEMMA SplitActionAfter ==
  ASSUME NEW k \in Nat, NEW l \in Nat, NEW was, NEW s, Kept(s, k, l, was),
         NEW r \in RemainderT(k), NEW wake
  PROVE  \A t \in SplitAction(s, r) : After(t, k, l, wake)
<1>1. CASE r.kind = "msg"
  BY <1>1, RemainingMsgKept, KeptAfter DEF SplitAction
<1>2. CASE r.kind = "file"
  BY <1>2, RemainingFileAfter DEF SplitAction
<1>3. CASE r.kind = "diag"
  BY <1>3, RemainingDiagAfter DEF SplitAction
<1>. QED BY <1>1, <1>2, <1>3 DEF RemainderT

LEMMA PopSplit ==
  ASSUME NEW k \in Nat, NEW t, Good(t, k), Len(t.split) >= 1, Alarm(t)
  PROVE  Good([t EXCEPT !.split = Tail(@)], k) /\ Alarm([t EXCEPT !.split = Tail(@)])
<1> DEFINE q == Tail(t.split)
<1>1. t.split \in Seq(RemainderT(k)) /\ t.split # <<>>
  BY DEF Good, LayerT
<1>2. q \in Seq(RemainderT(k)) /\ Len(q) = Len(t.split) - 1
  BY <1>1
<1>3. Len(q) <= MaxSplit
  BY <1>1, <1>2, SendConstants DEF Good, Caps
<1> HIDE DEF q
<1>4. Good([t EXCEPT !.split = q], k) /\ Alarm([t EXCEPT !.split = q])
  BY <1>2, <1>3 DEF Good, LayerT, Flags, Caps, Alarm
<1>. QED BY <1>4 DEF q

LEMMA PopPending ==
  ASSUME NEW k \in Nat, NEW t, Good(t, k), t.pending # <<>>, Alarm(t)
  PROVE  Good([t EXCEPT !.pending = Tail(@)], k) /\ Alarm([t EXCEPT !.pending = Tail(@)])
<1> DEFINE q == Tail(t.pending)
<1>1. t.pending \in Seq(PieceT(k))
  BY DEF Good, LayerT
<1>2. q \in Seq(PieceT(k)) /\ Len(q) = Len(t.pending) - 1
  BY <1>1
<1>3. Len(q) <= MaxPending
  BY <1>1, <1>2, SendConstants DEF Good, Caps
<1> HIDE DEF q
<1>4. Good([t EXCEPT !.pending = q], k) /\ Alarm([t EXCEPT !.pending = q])
  BY <1>2, <1>3 DEF Good, LayerT, Flags, Caps, Alarm
<1>. QED BY <1>4 DEF q

LEMMA ClearGood ==
  ASSUME NEW k \in Nat, NEW s, Good(s, k)
  PROVE  Good(ClearQueues(s), k) /\ Idle(ClearQueues(s))
<1>1. \A p \in Elements(s.pending) : BufferOf(p) \in BufferT(k)
  <2>1. \A i \in DOMAIN s.pending : s.pending[i] \in PieceT(k)
    BY DEF Good, LayerT
  <2>. QED BY <2>1, BufferOfType DEF Elements
<1>2. \A r \in Elements(s.split) : ContentOf(r) \in BufferT(k)
  <2>1. \A i \in DOMAIN s.split : s.split[i] \in RemainderT(k)
    BY DEF Good, LayerT
  <2>. QED BY <2>1, RemainderTypes DEF Elements
<1>3. Queued(s) \subseteq BufferT(k)
  BY <1>1, <1>2 DEF Queued
<1> DEFINE h == s.heap \ Queued(s)
           b == s.bad \cup (Queued(s) \ s.heap)
<1>4. h \in SUBSET BufferT(k) /\ b \in SUBSET BufferT(k)
  BY <1>3 DEF Good, LayerT
<1> HIDE DEF h, b
<1>5. <<>> \in Seq(PieceT(k)) /\ <<>> \in Seq(RemainderT(k)) /\ Len(<<>>) = 0
  OBVIOUS
<1>6. Good([s EXCEPT !.pending = <<>>, !.split = <<>>, !.heap = h, !.bad = b], k)
  <2> DEFINE t == [s EXCEPT !.pending = <<>>, !.split = <<>>, !.heap = h, !.bad = b]
  <2>1. t \in LayerT(k)
    BY <1>4, <1>5 DEF Good, LayerT
  <2>2. t.sent = s.sent /\ t.busy = s.busy /\ t.buffer = s.buffer /\ t.timer = s.timer
        /\ t.pending = <<>> /\ t.split = <<>> /\ t.tasks = s.tasks /\ t.faults = s.faults
    BY DEF Good, LayerT
  <2>. QED BY <1>5, <2>1, <2>2, SendConstants DEF Good, Flags, Caps
<1>7. ClearQueues(s) = [s EXCEPT !.pending = <<>>, !.split = <<>>, !.heap = h, !.bad = b]
  BY DEF ClearQueues, Good, LayerT, h, b
<1>8. Idle([s EXCEPT !.pending = <<>>, !.split = <<>>, !.heap = h, !.bad = b])
  BY DEF Idle, Good, LayerT
<1>. QED BY <1>6, <1>7, <1>8

LEMMA CheckSound ==
  ASSUME NEW k \in Nat, NEW s, Good(s, k), NEW up \in BOOLEAN
  PROVE  \A t \in http_check_pending_send(s, up) : Sound(t)
<1>1. /\ Sound(ClearQueues(s))
      /\ s.busy \/ (s.pending = <<>> /\ s.split = <<>>) => Sound(s)
  BY ClearGood DEF Sound, Awoken, Alarm, Idle
<1>2. ASSUME s.pending # <<>>, ~s.busy
      PROVE  \A t \in http_send_buffer(s, Head(s.pending)) :
               Sound([t EXCEPT !.pending = Tail(@)])
  <2>1. Head(s.pending) \in PieceT(k)
    BY <1>2 DEF Good, LayerT
  <2>2. \A t \in http_send_buffer(s, Head(s.pending)) : Good(t, k) /\ t.pending = s.pending /\ Alarm(t)
    BY <1>2, <2>1, SendBufferGood
  <2>. QED BY <1>2, <2>2, PopPending, AlarmAwoken DEF Sound
<1>3. ASSUME s.split # <<>>
      PROVE  \A t \in SplitAction(s, Head(s.split)) : Sound([t EXCEPT !.split = Tail(@)])
  <2>1. Head(s.split) \in RemainderT(k) /\ Len(s.split) >= 1
    BY <1>3 DEF Good, LayerT
  <2>2. Kept(s, k, 1, "unknown")
    BY <2>1 DEF Kept, Awoken
  <2>3. \A t \in SplitAction(s, Head(s.split)) : After(t, k, 1, "sure")
    BY <2>1, <2>2, SplitActionAfter
  <2>4. ASSUME NEW t, After(t, k, 1, "sure") PROVE Sound([t EXCEPT !.split = Tail(@)])
    <3>1. PICK j \in Nat : Kept(t, j, 1, "sure")
      BY <2>4 DEF After
    <3>2. Good(t, j) /\ Len(t.split) >= 1 /\ Alarm(t)
      BY <3>1 DEF Kept, Awoken
    <3>. QED BY <3>2, PopSplit, AlarmAwoken DEF Sound
  <2>. QED BY <2>3, <2>4
<1>. QED BY <1>1, <1>2, <1>3 DEF http_check_pending_send

\* The connections the SDK still owes a callback after a send has ended.
LEMMA CompletedGood ==
  ASSUME NEW k \in Nat, NEW s, Good(s, k), NEW aw \in SUBSET Conn,
         ~LateSentCb => aw = {}
  PROVE  /\ Good([Completed(s) EXCEPT !.awaiting = aw], k)
         /\ Alarm([Completed(s) EXCEPT !.awaiting = aw])
<1> DEFINE f == IF s.buffer = NoPiece THEN s ELSE Free(s, BufferOf(s.buffer))
           g == [f EXCEPT !.timer = FALSE, !.buffer = NoPiece, !.busy = FALSE]
           h == [g EXCEPT !.awaiting = aw]
<1>1. Good(f, k)
  <2>1. CASE s.buffer = NoPiece
    BY <2>1
  <2>2. CASE s.buffer # NoPiece
    <3>1. s.buffer \in PieceT(k)
      BY <2>2 DEF Good, LayerT
    <3>. QED BY <2>2, <3>1, BufferOfType, HeapUpdate
  <2>. QED BY <2>1, <2>2
<1> HIDE DEF f
<1>2. Good(h, k)
  BY <1>1 DEF Good, LayerT, Flags, Caps
<1>3. Good(Post(h), k) /\ Alarm(Post(h))
  BY <1>2, PostGood
<1>4. [Post(g) EXCEPT !.awaiting = aw] = Post(h)
  BY <1>1 DEF Post, Good, LayerT
<1>. QED BY <1>3, <1>4 DEF Completed, f

(***************************************************************************)
(* The inductive invariant of the specification.                           *)
(***************************************************************************)
Inv == Sound(Layer) /\ server \in {"up", "down"}

LEMMA Becomes ==
  ASSUME NEW t, Sound(t), Become(t)
  PROVE  Sound(Layer)'
<1>1. PICK k \in Nat : Good(t, k) /\ Awoken(t, "needed")
  BY DEF Sound
<1>2. t = [pending |-> t.pending, split |-> t.split, busy |-> t.busy,
           buffer |-> t.buffer, timer |-> t.timer, tasks |-> t.tasks,
           state |-> t.state, awaiting |-> t.awaiting, heap |-> t.heap,
           leaked |-> t.leaked, bad |-> t.bad, missed |-> t.missed,
           faults |-> t.faults, sent |-> t.sent]
  BY <1>1 DEF Good, LayerT
<1>3. Layer' = t
  BY <1>2 DEF Layer, Become
<1>. QED BY <1>1, <1>3 DEF Sound

LEMMA InitInv == Init => Inv
<1>. SUFFICES ASSUME Init PROVE Inv
  OBVIOUS
<1>1. Layer \in LayerT(0)
  <2>1. state \in [Conn -> {"CONNECT", "WRITE", "CLOSE"}]
    BY DEF Init
  <2>2. /\ pending_send \in Seq(PieceT(0)) /\ pending_split_send \in Seq(RemainderT(0))
        /\ tasks \in Seq({"check", "other"}) /\ sent \in Seq(Nat)
    BY DEF Init
  <2>3. /\ esp_busy_sending_data \in BOOLEAN /\ send_buffer \in PieceT(0) \cup {NoPiece}
        /\ clear_busy_timer \in BOOLEAN /\ awaiting \in SUBSET Conn
        /\ missed \in BOOLEAN /\ faults \in Nat
        /\ heap \in SUBSET BufferT(0) /\ leaked \in SUBSET BufferT(0)
        /\ bad_free \in SUBSET BufferT(0)
    BY DEF Init
  <2>. QED BY <2>1, <2>2, <2>3 DEF Layer, LayerT
<1>2. Good(Layer, 0)
  BY <1>1, SendConstants DEF Init, Layer, Good, Flags, Caps
<1>3. Awoken(Layer, "needed")
  BY DEF Init, Layer, Awoken, Idle
<1>. QED BY <1>2, <1>3 DEF Init, Inv, Sound

\* A route or the client starts message number Len(sent) + 1.
LEMMA MessageSound ==
  ASSUME NEW k \in Nat, Good(Layer, k), Awoken(Layer, "needed"), NEW c \in Conn, NEW n \in Nat,
         Respond(c, n) \/ SendFile(c, n) \/ SendEvents(c, n) \/ SendRequest(c, n)
  PROVE  Sound(Layer)'
<1> DEFINE s == NewMessage(Layer)
<1>1. Fresh = k + 1 /\ k + 1 \in 1..(k + 1)
  BY DEF Fresh, Good, Layer
<1>2. Kept(s, k + 1, 0, "needed")
  <2>1. Good(s, k + 1) /\ Same(Layer, s)
    BY NewMessageGood
  <2>2. Awoken(s, "needed")
    BY <2>1, SameAwoken
  <2>. QED BY <2>1, <2>2 DEF Kept, Good, LayerT
<1>3. Kept(Alloc(s, TextOf(Fresh, n)), k + 1, 0, "needed")
  BY <1>1, <1>2, MessageTypes, HeapKept
<1> HIDE DEF s
<1>4. ASSUME NEW t, After(t, k + 1, 0, "needed") PROVE Sound(t)
  BY <1>4 DEF After, Kept, Sound
<1>5. ASSUME NEW t, Kept(t, k + 1, 0, "needed") PROVE Sound(t)
  BY <1>5 DEF Kept, Sound
<1>6. CASE Respond(c, n)
  <2>1. Kept(IF n = 0 THEN s ELSE Alloc(s, TextOf(Fresh, n)), k + 1, 0, "needed")
    BY <1>2, <1>3
  <2>2. PICK t \in http_response(IF n = 0 THEN s ELSE Alloc(s, TextOf(Fresh, n)),
                                 c, Fresh, n) : Become(t)
    BY <1>6 DEF Respond, s
  <2>3. Kept(t, k + 1, 0, "needed")
    BY <1>1, <2>1, <2>2, ResponseKept
  <2>. QED BY <1>5, <2>2, <2>3, Becomes
<1>7. CASE SendFile(c, n)
  <2>1. PICK t \in return_file(s, c, Fresh, n) : Become(t)
    BY <1>7 DEF SendFile, s
  <2>2. After(t, k + 1, 0, "needed")
    BY <1>1, <1>2, <2>1, FileAfter
  <2>. QED BY <1>4, <2>1, <2>2, Becomes
<1>8. CASE SendEvents(c, n)
  <2>1. PICK t \in getDiagnosticEvents(s, c, Fresh, n) : Become(t)
    BY <1>8 DEF SendEvents, s
  <2>2. n \in Nat \ {0}
    BY <1>8 DEF SendEvents
  <2>3. After(t, k + 1, 0, "needed")
    BY <1>1, <1>2, <2>1, <2>2, DiagAfter
  <2>. QED BY <1>4, <2>1, <2>3, Becomes
<1>9. CASE SendRequest(c, n)
  <2>1. PICK t \in http_send(Alloc(s, TextOf(Fresh, n)), c, Fresh, n) : Become(t)
    BY <1>9 DEF SendRequest, s
  <2>2. n \in Nat \ {0}
    BY <1>9 DEF SendRequest
  <2>3. Kept(t, k + 1, 0, "needed")
    BY <1>1, <1>3, <2>1, <2>2, HttpSendKept
  <2>. QED BY <1>5, <2>1, <2>3, Becomes
<1>. QED BY <1>6, <1>7, <1>8, <1>9

LEMMA RunTaskSound ==
  ASSUME NEW k \in Nat, Good(Layer, k), Awoken(Layer, "needed"), RunTask
  PROVE  Sound(Layer)'
<1> DEFINE q == Tail(tasks)
           s == [Layer EXCEPT !.tasks = q]
           serve == IF Head(tasks) = "check"
                    THEN http_check_pending_send(s, server = "up") ELSE {s}
<1>1. q \in Seq({"check", "other"}) /\ Len(q) <= TaskQueueLen
  <2>1. tasks \in Seq({"check", "other"}) /\ tasks # <<>> /\ Len(tasks) <= TaskQueueLen
    BY DEF RunTask, Good, LayerT, Layer, Caps
  <2>2. q \in Seq({"check", "other"}) /\ Len(q) = Len(tasks) - 1
    BY <2>1
  <2>. QED BY <2>1, <2>2, SendConstants
<1>2. PICK t \in serve : Become(t)
  BY DEF RunTask, Layer
<1>5. ASSUME Head(tasks) # "check" PROVE Awoken(s, "needed")
  <2>1. tasks \in Seq({"check", "other"}) /\ tasks # <<>>
    BY DEF RunTask, Good, LayerT, Layer
  <2>2. ASSUME "check" \in Elements(tasks) PROVE "check" \in Elements(q)
    <3>1. PICK i \in 1..Len(tasks) : tasks[i] = "check"
      BY <2>1, <2>2 DEF Elements
    <3>2. i # 1
      BY <1>5, <2>1, <3>1
    <3>3. i - 1 \in 1..Len(q) /\ q[i - 1] = tasks[i] /\ DOMAIN q = 1..Len(q)
      BY <2>1, <3>1, <3>2
    <3> QED BY <3>1, <3>3 DEF Elements
  <2> HIDE DEF q
  <2> QED BY <2>2 DEF Awoken, Alarm, Idle, Layer
<1> HIDE DEF q
<1>3. Good(s, k)
  BY <1>1, TasksUpdate
<1> HIDE DEF s
<1>4. Sound(t)
  <2>1. \A u \in http_check_pending_send(s, server = "up") : Sound(u)
    BY <1>3, CheckSound
  <2>. QED BY <1>2, <1>3, <1>5, <2>1 DEF Sound
<1>. QED BY <1>2, <1>4, Becomes

LEMMA PostOtherSound ==
  ASSUME NEW k \in Nat, Good(Layer, k), Awoken(Layer, "needed"), PostOther
  PROVE  Sound(Layer)'
<1> DEFINE q == Append(tasks, "other")
<1>1. q \in Seq({"check", "other"}) /\ Len(q) <= TaskQueueLen
  BY SendConstants DEF PostOther, Good, LayerT, Layer
<1>4. ASSUME "check" \in Elements(tasks) PROVE "check" \in Elements(q)
  <2>1. tasks \in Seq({"check", "other"})
    BY DEF Good, LayerT, Layer
  <2>2. PICK i \in 1..Len(tasks) : tasks[i] = "check"
    BY <1>4, <2>1 DEF Elements
  <2>3. i \in DOMAIN q /\ q[i] = tasks[i]
    BY <2>1, <2>2
  <2> QED BY <2>2, <2>3 DEF Elements
<1>2. Become([Layer EXCEPT !.tasks = q])
  BY DEF PostOther, Layer
<1> HIDE DEF q
<1>3. Sound([Layer EXCEPT !.tasks = q])
  <2>1. Awoken([Layer EXCEPT !.tasks = q], "needed")
    BY <1>4 DEF Awoken, Alarm, Idle, Layer
  <2> QED BY <1>1, <2>1, TasksUpdate DEF Sound
<1>. QED BY <1>2, <1>3, Becomes

LEMMA StateUpdate ==
  ASSUME NEW k \in Nat, NEW s, Good(s, k),
         NEW st \in [Conn -> {"CONNECT", "WRITE", "CLOSE"}]
  PROVE  Good([s EXCEPT !.state = st], k) /\ Same(s, [s EXCEPT !.state = st])
BY DEF Good, LayerT, Flags, Caps, Same

LEMMA SentCbSound ==
  ASSUME NEW k \in Nat, Good(Layer, k), NEW c \in Conn, SentCb(c)
  PROVE  Sound(Layer)'
<1> DEFINE aw == awaiting \ {c}
           s  == [Completed(Layer) EXCEPT !.awaiting = aw]
           st == [s.state EXCEPT ![c] = "CONNECT"]
<1>1. aw \in SUBSET Conn /\ (~LateSentCb => aw = {})
  BY DEF SentCb, Good, LayerT, Flags, Layer
<1>2. Completed(Layer).awaiting = awaiting
  BY DEF Completed, Post, Free, Layer
<1>3. Become([Completed(Layer) EXCEPT !.awaiting = aw, !.state[c] = "CONNECT"])
  BY <1>2 DEF SentCb
<1> HIDE DEF aw
<1>4. Good(s, k) /\ Awoken(s, "needed")
  BY <1>1, CompletedGood, AlarmAwoken
<1>5. Become([s EXCEPT !.state = st])
  BY <1>3
<1> HIDE DEF s
<1>6. st \in [Conn -> {"CONNECT", "WRITE", "CLOSE"}]
  BY <1>4 DEF Good, LayerT
<1> HIDE DEF st
<1>7. Sound([s EXCEPT !.state = st])
  BY <1>4, <1>6, StateUpdate, SameAwoken DEF Sound
<1>. QED BY <1>5, <1>7, Becomes

LEMMA TimeoutSound ==
  ASSUME NEW k \in Nat, Good(Layer, k), Timeout
  PROVE  Sound(Layer)'
<1> DEFINE aw == IF LateSentCb THEN awaiting ELSE {}
           s  == [Completed(Layer) EXCEPT !.awaiting = aw]
<1>1. aw \in SUBSET Conn /\ (~LateSentCb => aw = {})
  BY DEF Good, LayerT, Layer
<1>2. Completed(Layer).awaiting = awaiting
  BY DEF Completed, Post, Free, Layer
<1>3. Become(s)
  BY <1>2 DEF Timeout
<1> HIDE DEF aw
<1>4. Good(s, k) /\ Awoken(s, "needed")
  BY <1>1, CompletedGood, AlarmAwoken
<1> HIDE DEF s
<1>. QED BY <1>3, <1>4, Becomes DEF Sound

LEMMA ConnectionSound ==
  ASSUME NEW k \in Nat, Good(Layer, k), Awoken(Layer, "needed"),
         NEW c \in Conn, Connect(c) \/ Close(c)
  PROVE  Sound(Layer)'
<1>1. /\ awaiting \in SUBSET Conn
      /\ state \in [Conn -> {"CONNECT", "WRITE", "CLOSE"}]
  BY DEF Good, LayerT, Layer
<1>2. CASE Connect(c)
  <2> DEFINE st == [state EXCEPT ![c] = "CONNECT"]
  <2>1. Become([Layer EXCEPT !.state = st])
    BY <1>2 DEF Connect, Layer
  <2>2. st \in [Conn -> {"CONNECT", "WRITE", "CLOSE"}]
    BY <1>1
  <2> HIDE DEF st
  <2>3. Good([Layer EXCEPT !.state = st], k) /\ Awoken([Layer EXCEPT !.state = st], "needed")
    BY <2>2, StateUpdate, SameAwoken
  <2>. QED BY <2>1, <2>3, Becomes DEF Sound
<1>3. CASE Close(c)
  <2> DEFINE st == [state EXCEPT ![c] = "CLOSE"]
             aw == awaiting \ {c}
  <2>1. Become([Layer EXCEPT !.awaiting = aw, !.state = st])
    BY <1>3 DEF Close, Layer, Become
  <2>2. st \in [Conn -> {"CONNECT", "WRITE", "CLOSE"}] /\ aw \in SUBSET Conn
    BY <1>1
  <2>3. aw \subseteq Layer.awaiting
    BY DEF Layer
  <2> HIDE DEF st, aw
  <2>4. /\ Good([Layer EXCEPT !.awaiting = aw, !.state = st], k)
        /\ Same(Layer, [Layer EXCEPT !.awaiting = aw, !.state = st])
    BY <2>2, <2>3 DEF Good, LayerT, Flags, Caps, Same
  <2>5. Awoken([Layer EXCEPT !.awaiting = aw, !.state = st], "needed")
    BY <2>4, SameAwoken
  <2>. QED BY <2>1, <2>4, <2>5, Becomes DEF Sound
<1>. QED BY <1>2, <1>3

LEMMA NextInv == Inv /\ [Next]_vars => Inv'
<1>. SUFFICES ASSUME Inv, [Next]_vars PROVE Inv'
  OBVIOUS
<1>1. PICK k \in Nat : Good(Layer, k) /\ Awoken(Layer, "needed")
  BY DEF Inv, Sound
<1>2. ASSUME NEW c \in Conn, NEW n \in Sizes,
             Respond(c, n) \/ SendFile(c, n) \/ SendEvents(c, n) \/ SendRequest(c, n)
      PROVE  Inv'
  <2>1. n \in Nat
    BY SendConstants
  <2>2. Sound(Layer)'
    BY <1>1, <1>2, <2>1, MessageSound
  <2>. QED BY <1>2, <2>2 DEF Inv, Respond, SendFile, SendEvents, SendRequest
<1>3. ASSUME NEW c \in Conn, SentCb(c) PROVE Inv'
  BY <1>1, <1>3, SentCbSound DEF Inv, SentCb
<1>4. ASSUME NEW c \in Conn, Connect(c) \/ Close(c) PROVE Inv'
  BY <1>1, <1>4, ConnectionSound DEF Inv, Connect, Close
<1>5. CASE RunTask
  BY <1>1, <1>5, RunTaskSound DEF Inv, RunTask
<1>6. CASE PostOther
  BY <1>1, <1>6, PostOtherSound DEF Inv, PostOther
<1>7. CASE Timeout
  BY <1>1, <1>7, TimeoutSound DEF Inv, Timeout
<1>8. CASE ServerStart
  BY <1>1, <1>8, Becomes DEF Inv, ServerStart, Sound
<1>9. CASE ServerStop
  <2>1. Sound(ClearQueues(Layer)) /\ Become(ClearQueues(Layer)) /\ server' = "down"
    BY <1>1, <1>9, ClearGood DEF ServerStop, Sound, Awoken
  <2>. QED BY <2>1, Becomes DEF Inv
<1>10. CASE UNCHANGED vars
  BY <1>10 DEF Inv, vars, Layer
<1>. QED BY <1>2, <1>3, <1>4, <1>5, <1>6, <1>7, <1>8, <1>9, <1>10 DEF Next

LEMMA AlwaysInv == Spec => []Inv
BY InitInv, NextInv, PTL DEF Spec

(***************************************************************************)
(* Order and ownership.  A handler has buffers in hand that no queue holds *)
(* yet (the set H), and takes the entry it serves off the split queue last *)
(* (d is 1 meanwhile: the first d entries do not count).                   *)
(*                                                                         *)
(* What makes every buffer have one owner is the order of the pieces: what *)
(* was sent of a message comes before what waits in pending_send, which is *)
(* in order, and that before what is still to be cut.                      *)
(***************************************************************************)
Behind(s, r) ==
  /\ s.sent[r.msg] <= r.order
  /\ \A i \in DOMAIN s.pending : s.pending[i].msg = r.msg => s.pending[i].order < r.order
  /\ \A b \in s.heap : b[1] = r.msg => b = ContentOf(r) \/ (b[2] = "piece" /\ b[3] < r.order)

Ord(s, d) ==
  /\ s.buffer # NoPiece => s.buffer.order < s.sent[s.buffer.msg]
  /\ \A i \in DOMAIN s.pending : s.sent[s.pending[i].msg] <= s.pending[i].order
  /\ \A i, j \in DOMAIN s.pending :
       i < j /\ s.pending[i].msg = s.pending[j].msg => s.pending[i].order < s.pending[j].order
  /\ \A i \in DOMAIN s.split : i > d => Behind(s, s.split[i])
  /\ \A i, j \in DOMAIN s.split : d < i /\ i < j => s.split[i].msg # s.split[j].msg

\* b has an owner among the layer's own variables.
Has(s, d, b) ==
  \/ s.buffer # NoPiece /\ b = BufferOf(s.buffer)
  \/ \E i \in DOMAIN s.pending : b = BufferOf(s.pending[i])
  \/ \E i \in DOMAIN s.split : i > d /\ b = ContentOf(s.split[i])

Mem(s, d, H) ==
  /\ s.leaked \subseteq s.heap /\ H \subseteq s.heap \ s.leaked
  /\ \A b : Has(s, d, b) /\ b[2] # "literal" => b \in s.heap \ s.leaked /\ b \notin H
  /\ \A b \in s.heap \ s.leaked : b \in H \/ Has(s, d, b)
  /\ \A b \in s.bad : b[2] = "literal"
  /\ \A b \in s.heap : b[2] # "literal"

\* From order o on, message m is in the hands of the handler, and all its buffers but
\* those of earlier pieces are in G.
Open(s, d, m, o, G) ==
  /\ s.sent[m] <= o
  /\ \A i \in DOMAIN s.pending : s.pending[i].msg = m => s.busy /\ s.pending[i].order < o
  /\ \A i \in DOMAIN s.split : i > d => s.split[i].msg # m
  /\ \A b \in s.heap : b[1] = m => b \in G \/ (b[2] = "piece" /\ b[3] < o)

\* p is the next piece of its message.
NextUp(s, d, p) ==
  /\ s.sent[p.msg] <= p.order
  /\ \A i \in DOMAIN s.pending :
       s.pending[i].msg = p.msg => IF s.busy THEN s.pending[i].order < p.order
                                   ELSE p.order < s.pending[i].order
  /\ \A i \in DOMAIN s.split : i > d /\ s.split[i].msg = p.msg => p.order < s.split[i].order

\* What was handed to espconn_send since s, if anything, came after all that was before.
UpTo(s, m) == IF m \in DOMAIN s.sent THEN s.sent[m] ELSE 0
InOrder(s, t) ==
  /\ \A m \in DOMAIN s.sent : m \in DOMAIN t.sent /\ s.sent[m] <= t.sent[m]
  /\ t.buffer \in {s.buffer, NoPiece} \/ t.buffer.order >= UpTo(s, t.buffer.msg)

State(s0, s, k, d, H) == /\ Good(s, k) /\ Len(s.split) >= d
                         /\ Ord(s, d) /\ Mem(s, d, H) /\ InOrder(s0, s)

LEMMA BufferFacts ==
  ASSUME NEW k \in Nat, NEW p \in PieceT(k), NEW q \in PieceT(k)
  PROVE  /\ BufferOf(p) = BufferOf(q) <=> p.msg = q.msg /\ p.order = q.order
         /\ BufferOf(p)[1] = p.msg /\ BufferOf(p)[2] = "piece" /\ BufferOf(p)[3] = p.order
BY DEF BufferOf, PieceBuf, PieceT

LEMMA ContentFacts ==
  ASSUME NEW k \in Nat, NEW r \in RemainderT(k)
  PROVE  /\ ContentOf(r)[1] = r.msg /\ ContentOf(r)[2] \in {"content", "literal"}
         /\ ContentOf(r)[2] = "literal" <=> r.kind = "diag"
         /\ ContentOf(RestOf(r)) = ContentOf(r) /\ RestOf(r).msg = r.msg
         /\ RestOf(r).order = r.order + 1 /\ RestOf(r).kind = r.kind
         /\ FirstOf(r).msg = r.msg /\ FirstOf(r).order = r.order
         /\ BufferOf(FirstOf(r)) = PieceBuf(r.msg, r.order)
         /\ r.msg \in 1..k /\ r.order \in Nat
BY DEF ContentOf, RestOf, FirstOf, Piece, RemainderT, BufferOf, PieceBuf

\* Appending to a queue.
LEMMA AppendIs ==
  ASSUME NEW S, NEW q \in Seq(S), NEW x \in S
  PROVE  /\ DOMAIN q = 1..Len(q) /\ Len(q) \in Nat
         /\ DOMAIN Append(q, x) = 1..(Len(q) + 1) /\ Append(q, x)[Len(q) + 1] = x
         /\ \A i \in 1..Len(q) : Append(q, x)[i] = q[i] /\ q[i] \in S
OBVIOUS

\* What an entry of the queues is.
LEMMA Entries ==
  ASSUME NEW k \in Nat, NEW s, Good(s, k)
  PROVE  /\ DOMAIN s.pending = 1..Len(s.pending) /\ Len(s.pending) \in Nat
         /\ \A i \in DOMAIN s.pending : s.pending[i] \in PieceT(k)
         /\ DOMAIN s.split = 1..Len(s.split) /\ Len(s.split) \in Nat
         /\ \A i \in DOMAIN s.split : s.split[i] \in RemainderT(k)
         /\ DOMAIN s.sent = 1..k /\ \A m \in 1..k : s.sent[m] \in Nat
         /\ s.buffer # NoPiece => s.buffer \in PieceT(k)
BY DEF Good, LayerT

(***************************************************************************)
(* How ownership moves.                                                    *)
(***************************************************************************)
\* A handler hands a buffer over to the layer.
LEMMA HandOver ==
  ASSUME NEW s, NEW t, NEW d, NEW H, Mem(s, d, H), NEW b, b \in H \/ b[2] = "literal",
         t.heap = s.heap, t.leaked = s.leaked, t.bad = s.bad,
         \A x : Has(t, d, x) <=> Has(s, d, x) \/ x = b
  PROVE  Mem(t, d, H \ {b})
BY DEF Mem

\* It frees one.
LEMMA Frees ==
  ASSUME NEW s, NEW t, NEW d, NEW H, Mem(s, d, H), NEW b \in H,
         t.heap = s.heap \ {b}, t.leaked = s.leaked, t.bad = s.bad,
         \A x : Has(t, d, x) <=> Has(s, d, x), b[2] # "literal"
  PROVE  Mem(t, d, H \ {b})
BY DEF Mem

\* It forgets one.
LEMMA Forgets ==
  ASSUME NEW s, NEW t, NEW d, NEW H, Mem(s, d, H), NEW b,
         b \in H \/ b \notin s.heap, b[2] # "literal",
         t.heap = s.heap \cup {b}, t.leaked = s.leaked \cup {b}, t.bad = s.bad,
         \A x : Has(t, d, x) <=> Has(s, d, x)
  PROVE  Mem(t, d, H \ {b})
BY DEF Mem

\* It allocates one.
LEMMA Takes ==
  ASSUME NEW s, NEW t, NEW d, NEW H, Mem(s, d, H), NEW b, b \notin s.heap, b[2] # "literal",
         t.heap = s.heap \cup {b}, t.leaked = s.leaked, t.bad = s.bad,
         \A x : Has(t, d, x) <=> Has(s, d, x)
  PROVE  Mem(t, d, H \cup {b})
BY DEF Mem

\* The layer frees one of its own.
LEMMA Drops ==
  ASSUME NEW s, NEW t, NEW d, NEW H, Mem(s, d, H), NEW b, Has(s, d, b), b[2] # "literal",
         t.heap = s.heap \ {b}, t.leaked = s.leaked, t.bad = s.bad,
         \A x : Has(t, d, x) <=> Has(s, d, x) /\ x # b
  PROVE  Mem(t, d, H)
BY DEF Mem

\* Flags and signals do not matter.
Store(s, t) == /\ t.pending = s.pending /\ t.split = s.split /\ t.busy = s.busy
               /\ t.buffer = s.buffer /\ t.heap = s.heap /\ t.leaked = s.leaked
               /\ t.bad = s.bad /\ t.sent = s.sent

LEMMA StoreKept ==
  ASSUME NEW s0, NEW s, NEW t, NEW k, NEW d, NEW H, State(s0, s, k, d, H), Good(t, k), Store(s, t)
  PROVE  /\ State(s0, t, k, d, H)
         /\ \A m, o, G : Open(s, d, m, o, G) => Open(t, d, m, o, G)
         /\ \A p : NextUp(s, d, p) => NextUp(t, d, p)
<1>1. Ord(t, d) /\ Mem(t, d, H) /\ InOrder(s0, t) /\ Len(t.split) >= d
  BY DEF State, Store, Ord, Behind, Mem, Has, InOrder, UpTo
<1>2. /\ \A m, o, G : Open(s, d, m, o, G) => Open(t, d, m, o, G)
      /\ \A p : NextUp(s, d, p) => NextUp(t, d, p)
  BY DEF Store, Open, NextUp
<1> QED BY <1>1, <1>2 DEF State

LEMMA InOrderAgain ==
  ASSUME NEW k \in Nat, NEW s0, NEW s, NEW t, NEW l \in Nat, Good(s0, l), Good(s, k), Good(t, k),
         InOrder(s0, s), InOrder(s, t)
  PROVE  InOrder(s0, t)
<1>1. ASSUME NEW m \in DOMAIN s0.sent
      PROVE  m \in DOMAIN t.sent /\ s0.sent[m] <= t.sent[m]
  BY Entries DEF InOrder
<1>2. \A m : UpTo(s0, m) <= UpTo(s, m) /\ UpTo(s0, m) \in Nat /\ UpTo(s, m) \in Nat
  BY Entries DEF InOrder, UpTo
<1>3. CASE t.buffer \in {s.buffer, NoPiece}
  BY <1>1, <1>3 DEF InOrder
<1>4. CASE t.buffer \notin {s.buffer, NoPiece}
  <2>1. t.buffer.order >= UpTo(s, t.buffer.msg) /\ t.buffer.order \in Nat
    BY <1>4, Entries DEF InOrder, PieceT
  <2>2. t.buffer.order >= UpTo(s0, t.buffer.msg)
    BY <1>2, <2>1
  <2> QED BY <1>1, <2>2 DEF InOrder
<1> QED BY <1>3, <1>4

(***************************************************************************)
(* Buffers of the handler.  Every message it does not touch stays open.    *)
(***************************************************************************)
Others(s, t, d, m) ==
  \A x \in DOMAIN s.sent : \A o \in Nat : \A G :
    x # m /\ Open(s, d, x, o, G) => Open(t, d, x, o, G)

LEMMA AllocOwn ==
  ASSUME NEW k \in Nat, NEW s0, NEW s, NEW d, NEW H, State(s0, s, k, d, H),
         NEW b \in BufferT(k), b \notin s.heap, b[2] # "literal",
         NEW e \in Nat, NEW F, Open(s, d, b[1], e, F)
  PROVE  /\ State(s0, Alloc(s, b), k, d, H \cup {b}) /\ Others(s, Alloc(s, b), d, b[1])
         /\ \A o \in Nat : \A G : Open(s, d, b[1], o, G) => Open(Alloc(s, b), d, b[1], o, G \cup {b})
         /\ \A o \in Nat : \A G : Open(s, d, b[1], o, G) /\ b[2] = "piece" /\ b[3] < o
                             => Open(Alloc(s, b), d, b[1], o, G)
<1> DEFINE t == Alloc(s, b)
<1>1. /\ Good(t, k) /\ t.pending = s.pending /\ t.split = s.split /\ t.busy = s.busy
      /\ t.buffer = s.buffer /\ t.heap = s.heap \cup {b} /\ t.leaked = s.leaked
      /\ t.bad = s.bad /\ t.sent = s.sent
  BY HeapUpdate DEF State, Good, LayerT, Alloc
<1> HIDE DEF t
<1>2. Ord(t, d)
  <2>1. \A i \in DOMAIN s.split : i > d => Behind(t, s.split[i])
    BY <1>1 DEF State, Ord, Behind, Open
  <2> QED BY <1>1, <2>1 DEF State, Ord
<1>3. Mem(t, d, H \cup {b})
  <2>1. \A x : Has(t, d, x) <=> Has(s, d, x)
    BY <1>1 DEF Has
  <2> QED BY <1>1, <2>1, Takes DEF State
<1>4. InOrder(s0, t) /\ Len(t.split) >= d
  BY <1>1 DEF State, InOrder
<1>5. Others(s, t, d, b[1])
  BY <1>1 DEF Others, Open
<1>6. /\ \A o \in Nat : \A G : Open(s, d, b[1], o, G) => Open(t, d, b[1], o, G \cup {b})
      /\ \A o \in Nat : \A G : Open(s, d, b[1], o, G) /\ b[2] = "piece" /\ b[3] < o
                          => Open(t, d, b[1], o, G)
  BY <1>1 DEF Open
<1> QED BY <1>1, <1>2, <1>3, <1>4, <1>5, <1>6 DEF State, t

LEMMA FreeOwn ==
  ASSUME NEW k \in Nat, NEW s0, NEW s, NEW d, NEW H, State(s0, s, k, d, H),
         NEW b \in H, b \in BufferT(k), b[2] # "literal"
  PROVE  /\ State(s0, Free(s, b), k, d, H \ {b})
         /\ \A m, o, G : Open(s, d, m, o, G) => Open(Free(s, b), d, m, o, G)
<1> DEFINE t == Free(s, b)
<1>0. b \in s.heap
  BY DEF State, Mem
<1>1. /\ Good(t, k) /\ t.pending = s.pending /\ t.split = s.split /\ t.busy = s.busy
      /\ t.buffer = s.buffer /\ t.heap = s.heap \ {b} /\ t.leaked = s.leaked
      /\ t.bad = s.bad /\ t.sent = s.sent
  <2>1. Good(s, k) /\ Good(t, k)
    BY HeapUpdate DEF State
  <2>2. s \in LayerT(k) /\ t = [s EXCEPT !.heap = s.heap \ {b}, !.bad = s.bad]
    BY <1>0, <2>1 DEF Free, Good
  <2> QED BY <2>1, <2>2 DEF LayerT
<1> HIDE DEF t
<1>2. Ord(t, d) /\ InOrder(s0, t) /\ Len(t.split) >= d
  BY <1>1 DEF State, Ord, Behind, InOrder
<1>3. Mem(t, d, H \ {b})
  <2>1. \A x : Has(t, d, x) <=> Has(s, d, x)
    BY <1>1 DEF Has
  <2> QED BY <1>1, <2>1, Frees DEF State
<1>4. \A m, o, G : Open(s, d, m, o, G) => Open(t, d, m, o, G)
  BY <1>1 DEF Open
<1> QED BY <1>1, <1>2, <1>3, <1>4 DEF State, t

LEMMA LeakOwn ==
  ASSUME NEW k \in Nat, NEW s0, NEW s, NEW d, NEW H, State(s0, s, k, d, H),
         NEW b \in BufferT(k), b[2] # "literal",
         \/ b \in H
         \/ b \notin s.heap /\ \E e \in Nat : \E F : Open(s, d, b[1], e, F)
  PROVE  /\ State(s0, Leak(s, b), k, d, H \ {b}) /\ Others(s, Leak(s, b), d, b[1])
         /\ b \in H => \A m, o, G : Open(s, d, m, o, G) => Open(Leak(s, b), d, m, o, G)
<1> DEFINE t == Leak(s, b)
<1>1. /\ Good(t, k) /\ t.pending = s.pending /\ t.split = s.split /\ t.busy = s.busy
      /\ t.buffer = s.buffer /\ t.heap = s.heap \cup {b} /\ t.leaked = s.leaked \cup {b}
      /\ t.bad = s.bad /\ t.sent = s.sent
  BY HeapUpdate DEF State, Good, LayerT, Leak
<1> HIDE DEF t
<1>0. b \in H => t.heap = s.heap
  BY <1>1 DEF State, Mem
<1>2. Ord(t, d)
  <2>1. \A i \in DOMAIN s.split : i > d => Behind(t, s.split[i])
    <3>1. CASE b \in H
      BY <1>0, <1>1, <3>1 DEF State, Ord, Behind
    <3>2. CASE b \notin s.heap /\ \E e \in Nat : \E F : Open(s, d, b[1], e, F)
      BY <1>1, <3>2 DEF State, Ord, Behind, Open
    <3> QED BY <3>1, <3>2
  <2> QED BY <1>1, <2>1 DEF State, Ord
<1>3. Mem(t, d, H \ {b})
  <2>1. \A x : Has(t, d, x) <=> Has(s, d, x)
    BY <1>1 DEF Has
  <2> QED BY <1>1, <2>1, Forgets DEF State
<1>4. InOrder(s0, t) /\ Len(t.split) >= d
  BY <1>1 DEF State, InOrder
<1>5. Others(s, t, d, b[1])
  BY <1>1 DEF Others, Open
<1>6. b \in H => \A m, o, G : Open(s, d, m, o, G) => Open(t, d, m, o, G)
  BY <1>0, <1>1 DEF Open
<1> QED BY <1>1, <1>2, <1>3, <1>4, <1>5, <1>6 DEF State, t

\* A new message is open from its header on.
LEMMA NewMessageOwn ==
  ASSUME NEW k \in Nat, NEW s0, NEW s, NEW d, NEW H, State(s0, s, k, d, H)
  PROVE  /\ State(s0, NewMessage(s), k + 1, d, H) /\ Open(NewMessage(s), d, k + 1, 0, {})
         /\ Others(s, NewMessage(s), d, k + 1)
<1> DEFINE t == NewMessage(s)
<1>0. Good(s, k) /\ s.sent \in Seq(Nat) /\ Len(s.sent) = k
  BY DEF State, Good, LayerT
<1>1. /\ t.pending = s.pending /\ t.split = s.split /\ t.busy = s.busy
      /\ t.buffer = s.buffer /\ t.heap = s.heap /\ t.leaked = s.leaked
      /\ t.bad = s.bad /\ t.sent = Append(s.sent, 0)
  BY <1>0 DEF Good, LayerT, NewMessage
<1>2. Good(t, k + 1)
  BY <1>0, NewMessageGood
<1> HIDE DEF t
<1>3. /\ t.sent[k + 1] = 0 /\ \A m \in 1..k : t.sent[m] = s.sent[m]
      /\ DOMAIN s.sent = 1..k /\ DOMAIN t.sent = 1..(k + 1)
  BY <1>0, <1>1
<1>4. /\ \A i \in DOMAIN s.pending : s.pending[i].msg \in 1..k
      /\ \A i \in DOMAIN s.split : s.split[i].msg \in 1..k
      /\ s.buffer # NoPiece => s.buffer.msg \in 1..k
  BY <1>0, Entries DEF PieceT, RemainderT
<1>5. \A b \in s.heap : b[1] \in 1..k
  BY <1>0 DEF Good, LayerT, BufferT
<1>6. Ord(t, d)
  BY <1>1, <1>3, <1>4 DEF State, Ord, Behind
<1>7. Mem(t, d, H)
  BY <1>1 DEF State, Mem, Has
<1>8. InOrder(s0, t) /\ Len(t.split) >= d
  <2>1. \A m \in DOMAIN s.sent : m \in DOMAIN t.sent /\ t.sent[m] = s.sent[m]
    BY <1>3
  <2> QED BY <1>1, <2>1 DEF State, InOrder
<1>9. Open(t, d, k + 1, 0, {})
  BY <1>1, <1>3, <1>4, <1>5 DEF Open
<1>10. Others(s, t, d, k + 1)
  BY <1>1, <1>3 DEF Others, Open
<1> QED BY <1>2, <1>6, <1>7, <1>8, <1>9, <1>10 DEF State, t

(***************************************************************************)
(* http_send_buffer.                                                       *)
(***************************************************************************)
\* The piece is queued, dropped or forgotten,
Queues(s, t, p) ==
  /\ t.split = s.split /\ t.busy = s.busy /\ t.buffer = s.buffer
  /\ t.bad = s.bad /\ t.sent = s.sent
  /\ \/ t.pending = Append(s.pending, p) /\ t.heap = s.heap /\ t.leaked = s.leaked
     \/ t.pending = s.pending /\ t.heap = s.heap \ {BufferOf(p)} /\ t.leaked = s.leaked
     \/ t.pending = s.pending /\ t.heap = s.heap /\ t.leaked = s.leaked \cup {BufferOf(p)}

\* or sent or dropped.
Sends(s, t, p) ==
  /\ t.split = s.split /\ t.pending = s.pending /\ t.leaked = s.leaked /\ t.bad = s.bad
  /\ \/ /\ t.buffer = p /\ t.heap = s.heap
        /\ t.sent = [s.sent EXCEPT ![p.msg] = p.order + 1]
     \/ t.buffer = NoPiece /\ t.heap = s.heap \ {BufferOf(p)} /\ t.sent = s.sent

LEMMA QueuesIs ==
  ASSUME NEW k \in Nat, NEW s, Good(s, k), NEW p \in PieceT(k), BufferOf(p) \in s.heap,
         NEW t \in push_pending_send(s, p)
  PROVE  Queues(s, t, p)
<1> DEFINE b == BufferOf(p)
           q == Append(s.pending, p)
<1>0. s \in LayerT(k)
  BY DEF Good
<1>1. CASE t = [s EXCEPT !.pending = q]
  <2> HIDE DEF q
  <2>1. /\ t.split = s.split /\ t.busy = s.busy /\ t.buffer = s.buffer /\ t.bad = s.bad
        /\ t.sent = s.sent /\ t.pending = q /\ t.heap = s.heap /\ t.leaked = s.leaked
    BY <1>0, <1>1 DEF LayerT
  <2> QED BY <2>1 DEF Queues, q
<1>2. CASE t = Free(s, b)
  <2>1. t = [s EXCEPT !.heap = s.heap \ {b}, !.bad = s.bad]
    BY <1>2, <1>0 DEF Free
  <2> HIDE DEF b
  <2>2. /\ t.split = s.split /\ t.busy = s.busy /\ t.buffer = s.buffer /\ t.bad = s.bad
        /\ t.sent = s.sent /\ t.pending = s.pending /\ t.heap = s.heap \ {b} /\ t.leaked = s.leaked
    BY <1>0, <2>1 DEF LayerT
  <2> QED BY <2>2 DEF Queues, b
<1>3. ASSUME NEW u \in Faulty(s), t = Leak(u, b) PROVE Queues(s, t, p)
  <2>1. u = [s EXCEPT !.faults = @ + 1]
    BY DEF Faulty
  <2> HIDE DEF b
  <2>2. /\ t.split = s.split /\ t.busy = s.busy /\ t.buffer = s.buffer /\ t.bad = s.bad
        /\ t.sent = s.sent /\ t.pending = s.pending /\ t.heap = s.heap \cup {b}
        /\ t.leaked = s.leaked \cup {b}
    BY <1>0, <1>3, <2>1 DEF LayerT, Leak
  <2>3. t.heap = s.heap
    BY <2>2 DEF b
  <2> QED BY <2>2, <2>3 DEF Queues, b
<1> QED BY <1>1, <1>2, <1>3 DEF push_pending_send

LEMMA DiscardIs ==
  ASSUME NEW k \in Nat, NEW s, Good(s, k), NEW p \in PieceT(k), BufferOf(p) \in s.heap, NEW timer
  PROVE  Sends(s, Discard(s, p, timer), p)
<1> DEFINE b == BufferOf(p)
           f == [s EXCEPT !.heap = s.heap \ {b}, !.bad = s.bad]
           g == [f EXCEPT !.busy = FALSE, !.buffer = NoPiece, !.timer = timer]
           t == Post(g)
<1>0. s \in LayerT(k)
  BY DEF Good
<1>1. Discard(s, p, timer) = t
  <2>1. Free(s, b) = f
    BY <1>0 DEF Free
  <2> QED BY <2>1 DEF Discard
<1> HIDE DEF b
<1>2. /\ g.split = s.split /\ g.pending = s.pending /\ g.leaked = s.leaked /\ g.bad = s.bad
      /\ g.buffer = NoPiece /\ g.heap = s.heap \ {b} /\ g.sent = s.sent
      /\ DOMAIN g = DOMAIN s
  BY <1>0 DEF LayerT
<1> HIDE DEF g
<1>3. /\ t.split = g.split /\ t.pending = g.pending /\ t.leaked = g.leaked /\ t.bad = g.bad
      /\ t.buffer = g.buffer /\ t.heap = g.heap /\ t.sent = g.sent
  BY <1>0, <1>2 DEF Post, LayerT
<1> HIDE DEF t
<1> QED BY <1>1, <1>2, <1>3 DEF Sends, b

LEMMA SendsIs ==
  ASSUME NEW k \in Nat, NEW s, Good(s, k), ~s.busy, NEW p \in PieceT(k), BufferOf(p) \in s.heap,
         NEW t \in http_send_buffer(s, p)
  PROVE  Sends(s, t, p)
<1>0. s \in LayerT(k)
  BY DEF Good
<1>1. CASE t = EspconnSend(s, p)
  <2>1. /\ t.split = s.split /\ t.pending = s.pending /\ t.leaked = s.leaked /\ t.bad = s.bad
        /\ t.buffer = p /\ t.heap = s.heap /\ t.sent = [s.sent EXCEPT ![p.msg] = p.order + 1]
    BY <1>0, <1>1 DEF LayerT, EspconnSend
  <2> QED BY <2>1 DEF Sends
<1>2. CASE t = Discard(s, p, s.timer)
  BY <1>2, DiscardIs
<1>3. ASSUME NEW u \in Faulty(s), t = Discard(u, p, FALSE) PROVE Sends(s, t, p)
  <2>1. u = [s EXCEPT !.faults = @ + 1]
    BY DEF Faulty
  <2>2. /\ u.split = s.split /\ u.pending = s.pending /\ u.leaked = s.leaked /\ u.bad = s.bad
        /\ u.heap = s.heap /\ u.sent = s.sent
    BY <1>0, <2>1 DEF LayerT
  <2>3. Sends(u, t, p)
    BY <1>3, <2>2, FaultyGood, DiscardIs
  <2> QED BY <2>2, <2>3 DEF Sends
<1> QED BY <1>1, <1>2, <1>3 DEF http_send_buffer

LEMMA Above ==
  ASSUME NEW a \in Nat, NEW b \in Nat, a < b
  PROVE  a + 1 <= b
OBVIOUS

\* A piece that is queued comes after those of its message that wait, and before what is
\* still to be cut.
LEMMA QueuesOwn ==
  ASSUME NEW k \in Nat, NEW s0, NEW s, NEW d, NEW H, State(s0, s, k, d, H), s.busy,
         NEW p \in PieceT(k), BufferOf(p) \in H, NextUp(s, d, p),
         NEW t, Good(t, k), Queues(s, t, p)
  PROVE  /\ State(s0, t, k, d, H \ {BufferOf(p)})
         /\ \A m, o, G : Open(s, d, m, o, G) /\ (m = p.msg => p.order < o) => Open(t, d, m, o, G)
<1> DEFINE b == BufferOf(p)
           n == Len(s.pending)
<1>0. /\ b[1] = p.msg /\ b[2] = "piece" /\ b[3] = p.order /\ b \in s.heap /\ b \in H
      /\ t.split = s.split /\ t.busy = s.busy /\ t.buffer = s.buffer
      /\ t.bad = s.bad /\ t.sent = s.sent
      /\ p.order \in Nat
  BY BufferFacts DEF State, Mem, Queues, PieceT
<1>1. InOrder(s0, t) /\ Len(t.split) >= d
  BY <1>0 DEF State, InOrder
<1>2. CASE t.pending = Append(s.pending, p) /\ t.heap = s.heap /\ t.leaked = s.leaked
  <2>1. s.pending \in Seq(PieceT(k))
    BY DEF State, Good, LayerT
  <2>2. /\ DOMAIN s.pending = 1..n /\ DOMAIN t.pending = 1..(n + 1) /\ t.pending[n + 1] = p
        /\ \A i \in 1..n : t.pending[i] = s.pending[i] /\ s.pending[i] \in PieceT(k)
        /\ n \in Nat
    BY <1>2, <2>1, AppendIs
  <2> HIDE DEF n, b
  <2>3. Ord(t, d)
    <3>1. \A i \in DOMAIN t.pending : t.sent[t.pending[i].msg] <= t.pending[i].order
      BY <1>0, <2>2 DEF State, Ord, NextUp
    <3>2. \A i, j \in DOMAIN t.pending :
            i < j /\ t.pending[i].msg = t.pending[j].msg => t.pending[i].order < t.pending[j].order
      <4> SUFFICES ASSUME NEW i \in 1..(n + 1), NEW j \in 1..(n + 1), i < j,
                          t.pending[i].msg = t.pending[j].msg
                   PROVE  t.pending[i].order < t.pending[j].order
        BY <2>2
      <4>1. i \in 1..n /\ (j \in 1..n \/ j = n + 1)
        BY <2>2
      <4> QED BY <2>2, <4>1 DEF State, Ord, NextUp
    <3>3. \A i \in DOMAIN t.split : i > d => Behind(t, t.split[i])
      <4> SUFFICES ASSUME NEW i \in DOMAIN s.split, i > d PROVE Behind(t, s.split[i])
        BY <1>0
      <4>1. Behind(s, s.split[i])
        BY DEF State, Ord
      <4>2. p.msg = s.split[i].msg => p.order < s.split[i].order
        BY DEF NextUp
      <4> QED BY <1>0, <1>2, <2>2, <4>1, <4>2 DEF Behind
    <3> QED BY <1>0, <3>1, <3>2, <3>3 DEF State, Ord
  <2>4. \A x : Has(t, d, x) <=> Has(s, d, x) \/ x = b
    <3>1. n + 1 \in 1..(n + 1) /\ \A i \in 1..n : i \in 1..(n + 1)
      BY <2>2
    <3>2. \A i \in 1..(n + 1) : i \in 1..n \/ i = n + 1
      BY <2>2
    <3> QED BY <1>0, <2>2, <3>1, <3>2 DEF Has, b
  <2>5. Mem(t, d, H \ {b})
    BY <1>0, <1>2, <2>4, HandOver DEF State
  <2>6. ASSUME NEW m, NEW o, NEW G, Open(s, d, m, o, G), m = p.msg => p.order < o
        PROVE  Open(t, d, m, o, G)
    <3>1. \A i \in DOMAIN t.pending : t.pending[i].msg = m => t.busy /\ t.pending[i].order < o
      BY <1>0, <2>2, <2>6 DEF Open
    <3> QED BY <1>0, <1>2, <2>6, <3>1 DEF Open
  <2> QED BY <1>1, <2>3, <2>5, <2>6 DEF State, b
<1>3. CASE t.pending = s.pending /\ t.heap = s.heap \ {b} /\ t.leaked = s.leaked
  <2> HIDE DEF b
  <2>1. Ord(t, d)
    BY <1>0, <1>3 DEF State, Ord, Behind
  <2>2. Mem(t, d, H \ {b})
    <3>1. \A x : Has(t, d, x) <=> Has(s, d, x)
      BY <1>0, <1>3 DEF Has
    <3> QED BY <1>0, <1>3, <3>1, Frees DEF State
  <2>3. \A m, o, G : Open(s, d, m, o, G) => Open(t, d, m, o, G)
    BY <1>0, <1>3 DEF Open
  <2> QED BY <1>1, <2>1, <2>2, <2>3 DEF State, b
<1>4. CASE t.pending = s.pending /\ t.heap = s.heap /\ t.leaked = s.leaked \cup {b}
  <2> HIDE DEF b
  <2>1. Ord(t, d)
    BY <1>0, <1>4 DEF State, Ord, Behind
  <2>2. Mem(t, d, H \ {b})
    <3>1. \A x : Has(t, d, x) <=> Has(s, d, x)
      BY <1>0, <1>4 DEF Has
    <3>2. t.heap = s.heap \cup {b}
      BY <1>0, <1>4
    <3> QED BY <1>0, <1>4, <3>1, <3>2, Forgets DEF State
  <2>3. \A m, o, G : Open(s, d, m, o, G) => Open(t, d, m, o, G)
    BY <1>0, <1>4 DEF Open
  <2> QED BY <1>1, <2>1, <2>2, <2>3 DEF State, b
<1> QED BY <1>2, <1>3, <1>4 DEF Queues

LEMMA SendsOwn ==
  ASSUME NEW k \in Nat, NEW l \in Nat, NEW s0, Good(s0, l), NEW s, NEW d, NEW H,
         State(s0, s, k, d, H), ~s.busy,
         NEW p \in PieceT(k), BufferOf(p) \in H, NextUp(s, d, p),
         NEW t, Good(t, k), Sends(s, t, p)
  PROVE  /\ State(s0, t, k, d, H \ {BufferOf(p)})
         /\ \A m \in 1..k : \A o \in Nat : \A G :
              Open(s, d, m, o, G) /\ (m = p.msg => p.order < o) => Open(t, d, m, o, G)
<1> DEFINE b == BufferOf(p)
<1>0. /\ b[1] = p.msg /\ b[2] = "piece" /\ b[3] = p.order /\ b \in s.heap /\ b \in H
      /\ t.split = s.split /\ t.pending = s.pending /\ t.leaked = s.leaked /\ t.bad = s.bad
      /\ p.order \in Nat /\ p.msg \in 1..k /\ s.buffer = NoPiece
      /\ DOMAIN s.sent = 1..k /\ \A m \in 1..k : s.sent[m] \in Nat
      /\ \A i \in DOMAIN s.pending : s.pending[i] \in PieceT(k)
      /\ \A i \in DOMAIN s.split : s.split[i] \in RemainderT(k)
  BY BufferFacts, Entries DEF State, Mem, Sends, PieceT, Good, Flags
<1>2. CASE /\ t.buffer = p /\ t.heap = s.heap
           /\ t.sent = [s.sent EXCEPT ![p.msg] = p.order + 1]
  <2> HIDE DEF b
  <2>1. /\ \A m \in 1..k : t.sent[m] = IF m = p.msg THEN p.order + 1 ELSE s.sent[m]
        /\ DOMAIN t.sent = 1..k /\ p # NoPiece
    BY <1>0, <1>2, SendConstants DEF PieceT
  <2>2. s.sent[p.msg] <= p.order /\ s.sent[p.msg] \in Nat
    BY <1>0 DEF NextUp
  <2>3. Ord(t, d)
    <3>1. t.buffer # NoPiece => t.buffer.order < t.sent[t.buffer.msg]
      BY <1>0, <1>2, <2>1
    <3>2. \A i \in DOMAIN s.pending : t.sent[s.pending[i].msg] <= s.pending[i].order
      <4> SUFFICES ASSUME NEW i \in DOMAIN s.pending
                   PROVE  t.sent[s.pending[i].msg] <= s.pending[i].order
        OBVIOUS
      <4>1. s.pending[i].msg \in 1..k /\ s.pending[i].order \in Nat
        BY <1>0 DEF PieceT
      <4>2. s.pending[i].msg = p.msg => p.order < s.pending[i].order
        BY DEF NextUp
      <4>3. s.sent[s.pending[i].msg] <= s.pending[i].order
        BY DEF State, Ord
      <4>4. CASE s.pending[i].msg = p.msg
        <5>1. p.order + 1 <= s.pending[i].order
          BY <1>0, <4>1, <4>2, <4>4, Above
        <5> QED BY <2>1, <4>1, <4>4, <5>1
      <4>5. CASE s.pending[i].msg # p.msg
        BY <2>1, <4>1, <4>3, <4>5
      <4> QED BY <4>4, <4>5
    <3>3. \A i \in DOMAIN s.split : i > d => Behind(t, s.split[i])
      <4> SUFFICES ASSUME NEW i \in DOMAIN s.split, i > d PROVE Behind(t, s.split[i])
        OBVIOUS
      <4>1. Behind(s, s.split[i]) /\ s.split[i].msg \in 1..k /\ s.split[i].order \in Nat
        BY <1>0 DEF State, Ord, RemainderT
      <4>2. p.msg = s.split[i].msg => p.order < s.split[i].order
        BY DEF NextUp
      <4>3. t.sent[s.split[i].msg] <= s.split[i].order
        <5>1. CASE s.split[i].msg = p.msg
          <6>1. p.order + 1 <= s.split[i].order
            BY <1>0, <4>1, <4>2, <5>1, Above
          <6> QED BY <2>1, <4>1, <5>1, <6>1
        <5>2. CASE s.split[i].msg # p.msg
          BY <2>1, <4>1, <5>2 DEF Behind
        <5> QED BY <5>1, <5>2
      <4> QED BY <1>0, <1>2, <4>1, <4>3 DEF Behind
    <3> QED BY <1>0, <3>1, <3>2, <3>3 DEF State, Ord
  <2>4. Mem(t, d, H \ {b})
    <3>1. \A x : Has(t, d, x) <=> Has(s, d, x) \/ x = b
      BY <1>0, <1>2, <2>1 DEF Has, b
    <3> QED BY <1>0, <1>2, <3>1, HandOver DEF State
  <2>5. InOrder(s0, t)
    <3>1. \A m \in DOMAIN s0.sent : m \in DOMAIN t.sent /\ s0.sent[m] <= t.sent[m]
      <4> SUFFICES ASSUME NEW m \in DOMAIN s0.sent
                   PROVE  m \in DOMAIN t.sent /\ s0.sent[m] <= t.sent[m]
        OBVIOUS
      <4>1. m \in 1..k /\ s0.sent[m] <= s.sent[m] /\ s0.sent[m] \in Nat
        BY <1>0, Entries DEF State, InOrder
      <4>2. CASE m = p.msg
        <5>1. s0.sent[m] <= p.order + 1
          BY <1>0, <2>2, <4>1, <4>2
        <5> QED BY <2>1, <4>1, <4>2, <5>1
      <4>3. CASE m # p.msg
        BY <2>1, <4>1, <4>3
      <4> QED BY <4>2, <4>3
    <3>2. p.order >= UpTo(s0, p.msg)
      <4>1. CASE p.msg \in DOMAIN s0.sent
        <5>1. s0.sent[p.msg] <= s.sent[p.msg] /\ s0.sent[p.msg] \in Nat
          BY <4>1, Entries DEF State, InOrder
        <5> QED BY <1>0, <2>2, <4>1, <5>1 DEF UpTo
      <4>2. CASE p.msg \notin DOMAIN s0.sent
        BY <1>0, <4>2 DEF UpTo
      <4> QED BY <4>1, <4>2
    <3> QED BY <1>2, <3>1, <3>2 DEF InOrder
  <2>6. ASSUME NEW m \in 1..k, NEW o \in Nat, NEW G, Open(s, d, m, o, G), m = p.msg => p.order < o
        PROVE  Open(t, d, m, o, G)
    <3>1. \A i \in DOMAIN s.pending : s.pending[i].msg # m
      BY <2>6 DEF Open
    <3>2. t.sent[m] <= o
      <4>1. CASE m = p.msg
        <5>1. p.order + 1 <= o
          BY <1>0, <2>6, <4>1, Above
        <5> QED BY <2>1, <4>1, <5>1
      <4>2. CASE m # p.msg
        BY <2>1, <2>6, <4>2 DEF Open
      <4> QED BY <4>1, <4>2
    <3> QED BY <1>0, <1>2, <2>6, <3>1, <3>2 DEF Open
  <2> QED BY <1>0, <2>3, <2>4, <2>5, <2>6 DEF State, b
<1>3. CASE t.buffer = NoPiece /\ t.heap = s.heap \ {b} /\ t.sent = s.sent
  <2> HIDE DEF b
  <2>1. Ord(t, d)
    BY <1>0, <1>3 DEF State, Ord, Behind
  <2>2. Mem(t, d, H \ {b})
    <3>1. \A x : Has(t, d, x) <=> Has(s, d, x)
      BY <1>0, <1>3 DEF Has
    <3> QED BY <1>0, <1>3, <3>1, Frees DEF State
  <2>3. InOrder(s0, t)
    BY <1>3 DEF State, InOrder
  <2>4. \A m, o, G : Open(s, d, m, o, G) => Open(t, d, m, o, G)
    BY <1>0, <1>3 DEF Open
  <2> QED BY <1>0, <2>1, <2>2, <2>3, <2>4 DEF State, b
<1> QED BY <1>2, <1>3 DEF Sends

LEMMA SendOwn ==
  ASSUME NEW k \in Nat, NEW l \in Nat, NEW s0, Good(s0, l), NEW s, NEW d, NEW H,
         State(s0, s, k, d, H),
         NEW p \in PieceT(k), BufferOf(p) \in H, NextUp(s, d, p),
         NEW t \in http_send_buffer(s, p)
  PROVE  /\ State(s0, t, k, d, H \ {BufferOf(p)})
         /\ \A m \in 1..k : \A o \in Nat : \A G :
              Open(s, d, m, o, G) /\ (m = p.msg => p.order < o) => Open(t, d, m, o, G)
<1>1. Good(s, k) /\ Good(t, k) /\ BufferOf(p) \in s.heap
  BY SendBufferGood DEF State, Mem
<1>2. CASE s.busy
  <2>1. Queues(s, t, p)
    BY <1>1, <1>2, QueuesIs DEF http_send_buffer
  <2> QED BY <1>1, <1>2, <2>1, QueuesOwn
<1>3. CASE ~s.busy
  <2>1. Sends(s, t, p)
    BY <1>1, <1>3, SendsIs
  <2> QED BY <1>1, <1>3, <2>1, SendsOwn
<1> QED BY <1>2, <1>3

(***************************************************************************)
(* Cutting a content.                                                      *)
(***************************************************************************)
\* The buffer of the content that r is the rest of: the events have none.
Owes(r) == IF r.kind = "diag" THEN {} ELSE {ContentOf(r)}

LEMMA OthersAgain ==
  ASSUME NEW k \in Nat, NEW j \in Nat, j >= k, NEW s, Good(s, k), NEW t, Good(t, j), NEW u,
         NEW d, NEW m, Others(s, t, d, m), Others(t, u, d, m)
  PROVE  Others(s, u, d, m)
<1>1. DOMAIN s.sent = 1..k /\ DOMAIN t.sent = 1..j
  BY Entries
<1>2. \A x \in DOMAIN s.sent : x \in DOMAIN t.sent
  BY <1>1
<1> QED BY <1>2 DEF Others

LEMMA OpenNext ==
  ASSUME NEW s, NEW d, NEW p, NEW G, Open(s, d, p.msg, p.order, G)
  PROVE  NextUp(s, d, p)
BY DEF Open, NextUp

LEMMA Opener ==
  ASSUME NEW k \in Nat, NEW s, Good(s, k), NEW d, NEW m, NEW o \in Nat, NEW G, Open(s, d, m, o, G), m \in 1..k
  PROVE  /\ \A F : G \subseteq F => Open(s, d, m, o, F)
         /\ \A F : G \subseteq F \cup {PieceBuf(m, o)} => Open(s, d, m, o + 1, F)
<1>1. \A F : G \subseteq F => Open(s, d, m, o, F)
  BY DEF Open
<1>2. ASSUME NEW F, G \subseteq F \cup {PieceBuf(m, o)} PROVE Open(s, d, m, o + 1, F)
  <2>1. s.sent[m] \in Nat /\ s.sent[m] <= o + 1
    <3>1. s.sent[m] \in Nat /\ s.sent[m] <= o
      BY Entries DEF Open
    <3> QED BY <3>1
  <2>2. ASSUME NEW i \in DOMAIN s.pending, s.pending[i].msg = m
        PROVE  s.busy /\ s.pending[i].order < o + 1
    <3>1. s.busy /\ s.pending[i].order < o
      BY <2>2 DEF Open
    <3>2. s.pending[i].order \in Nat
      BY Entries DEF PieceT
    <3> QED BY <3>1, <3>2
  <2>3. ASSUME NEW b \in s.heap, b[1] = m
        PROVE  b \in F \/ (b[2] = "piece" /\ b[3] < o + 1)
    <3>1. CASE b \in G
      BY <1>2, <3>1 DEF PieceBuf
    <3>2. CASE b[2] = "piece" /\ b[3] < o
      <4>1. b[3] \in Nat
        BY DEF Good, LayerT, BufferT
      <4> QED BY <3>2, <4>1
    <3> QED BY <2>3, <3>1, <3>2 DEF Open
  <2> QED BY <1>2, <2>1, <2>2, <2>3 DEF Open
<1> QED BY <1>1, <1>2

LEMMA PushOwn ==
  ASSUME NEW k \in Nat, NEW s0, NEW s, NEW d \in Nat, NEW H, State(s0, s, k, d, H),
         NEW q \in RemainderT(k), ~SplitFull(s), Owes(q) \subseteq H,
         Open(s, d, q.msg, q.order, Owes(q))
  PROVE  /\ State(s0, PushSplit(s, q), k, d, H \ Owes(q))
         /\ \A p \in PieceT(k) : \A G :
              /\ p.msg = q.msg /\ p.order < q.order /\ Open(s, d, p.msg, p.order, G)
              => NextUp(PushSplit(s, q), d, p)
         /\ Others(s, PushSplit(s, q), d, q.msg)
<1> DEFINE t == PushSplit(s, q)
           n == Len(s.split)
<1>0. s.split \in Seq(RemainderT(k)) /\ s \in LayerT(k) /\ n >= d /\ n \in Nat
  BY DEF State, Good, LayerT
<1>1. /\ Good(t, k) /\ t.pending = s.pending /\ t.busy = s.busy
      /\ t.buffer = s.buffer /\ t.heap = s.heap /\ t.leaked = s.leaked
      /\ t.bad = s.bad /\ t.sent = s.sent
  <2>1. Good(t, k)
    BY PushSplitGood DEF State
  <2>2. /\ t.pending = s.pending /\ t.busy = s.busy
        /\ t.buffer = s.buffer /\ t.heap = s.heap /\ t.leaked = s.leaked
        /\ t.bad = s.bad /\ t.sent = s.sent
    BY <1>0 DEF PushSplit, LayerT
  <2> QED BY <2>1, <2>2
<1>2. t.split = Append(s.split, q)
  BY <1>0 DEF PushSplit, LayerT
<1>3. /\ DOMAIN s.split = 1..n /\ DOMAIN t.split = 1..(n + 1) /\ t.split[n + 1] = q
      /\ \A i \in 1..n : t.split[i] = s.split[i] /\ s.split[i] \in RemainderT(k)
  BY <1>0, <1>2, AppendIs
<1>4. n + 1 > d /\ Len(t.split) >= d /\ n + 1 \in 1..(n + 1)
      /\ (\A i \in 1..n : i \in 1..(n + 1)) /\ (\A i \in 1..(n + 1) : i \in 1..n \/ i = n + 1)
  BY <1>0, <1>2
<1> HIDE DEF t, n
<1>5. Behind(s, q)
  BY DEF Open, Behind, Owes
<1>6. Ord(t, d)
  <2>1. \A i \in DOMAIN t.split : i > d => Behind(t, t.split[i])
    <3>1. \A r : Behind(s, r) => Behind(t, r)
      BY <1>1 DEF Behind
    <3> QED BY <1>3, <1>4, <1>5, <3>1 DEF State, Ord
  <2>2. \A i, j \in DOMAIN t.split : d < i /\ i < j => t.split[i].msg # t.split[j].msg
    <3> SUFFICES ASSUME NEW i \in 1..(n + 1), NEW j \in 1..(n + 1), d < i, i < j
                 PROVE  t.split[i].msg # t.split[j].msg
      BY <1>3
    <3>1. i \in 1..n
      BY <1>0
    <3>2. CASE j = n + 1
      BY <1>3, <3>1, <3>2 DEF Open
    <3>3. CASE j \in 1..n
      BY <1>3, <3>1, <3>3 DEF State, Ord
    <3> QED BY <1>4, <3>2, <3>3
  <2> QED BY <1>1, <2>1, <2>2 DEF State, Ord
<1>7. Mem(t, d, H \ Owes(q))
  <2>1. \A x : Has(t, d, x) <=> Has(s, d, x) \/ x = ContentOf(q)
    BY <1>1, <1>3, <1>4 DEF Has
  <2>2. CASE q.kind = "diag"
    <3>1. ContentOf(q)[2] = "literal" /\ H \ Owes(q) = H
      BY <2>2 DEF ContentOf, Owes
    <3>2. Mem(t, d, H \ {ContentOf(q)})
      BY <1>1, <2>1, <3>1, HandOver DEF State
    <3>3. H \ {ContentOf(q)} = H
      BY <3>1 DEF State, Mem
    <3> QED BY <3>1, <3>2, <3>3
  <2>3. CASE q.kind # "diag"
    <3>1. Owes(q) = {ContentOf(q)} /\ ContentOf(q) \in H
      BY <2>3 DEF Owes
    <3> QED BY <1>1, <2>1, <3>1, HandOver DEF State
  <2> QED BY <2>2, <2>3
<1>8. InOrder(s0, t)
  BY <1>1 DEF State, InOrder
<1>9. ASSUME NEW p \in PieceT(k), NEW G, p.msg = q.msg, p.order < q.order, Open(s, d, p.msg, p.order, G)
      PROVE  NextUp(t, d, p)
  <2>1. ASSUME NEW i \in 1..(n + 1), i > d, t.split[i].msg = p.msg
        PROVE  p.order < t.split[i].order
    <3>1. i \notin 1..n
      BY <1>3, <1>9, <2>1 DEF Open
    <3>2. t.split[i] = q
      BY <1>3, <1>4, <3>1
    <3> QED BY <1>9, <3>2
  <2> QED BY <1>1, <1>3, <1>9, <2>1 DEF Open, NextUp
<1>10. Others(s, t, d, q.msg)
  <2> SUFFICES ASSUME NEW x \in DOMAIN s.sent, NEW o \in Nat, NEW G, x # q.msg, Open(s, d, x, o, G)
               PROVE  Open(t, d, x, o, G)
    BY DEF Others
  <2>1. \A i \in DOMAIN t.split : i > d => t.split[i].msg # x
    BY <1>3, <1>4 DEF Open
  <2> QED BY <1>1, <2>1 DEF Open
<1> QED BY <1>1, <1>4, <1>6, <1>7, <1>8, <1>9, <1>10 DEF State, t

LEMMA SendOthers ==
  ASSUME NEW k \in Nat, NEW l \in Nat, NEW s0, Good(s0, l), NEW s, NEW d, NEW H,
         State(s0, s, k, d, H),
         NEW p \in PieceT(k), BufferOf(p) \in H, NextUp(s, d, p),
         NEW t \in http_send_buffer(s, p)
  PROVE  /\ State(s0, t, k, d, H \ {BufferOf(p)}) /\ Others(s, t, d, p.msg)
         /\ \A o \in Nat : \A G : Open(s, d, p.msg, o, G) /\ p.order < o => Open(t, d, p.msg, o, G)
<1>1. DOMAIN s.sent = 1..k /\ p.msg \in 1..k
  BY Entries DEF State, PieceT
<1>2. /\ State(s0, t, k, d, H \ {BufferOf(p)})
      /\ \A m \in 1..k : \A o \in Nat : \A G :
              Open(s, d, m, o, G) /\ (m = p.msg => p.order < o) => Open(t, d, m, o, G)
  BY SendOwn
<1> QED BY <1>1, <1>2 DEF Others

\* The piece in hand of r is sent while the rest is put on the split queue,
LEMMA CutOwn ==
  ASSUME NEW k \in Nat, NEW l \in Nat, NEW s0, Good(s0, l), NEW s, NEW d \in Nat,
         NEW r \in RemainderT(k), r.left > 1, State(s0, s, k, d, Owes(r)),
         Open(s, d, r.msg, r.order, Owes(r)), ~SplitFull(s),
         NEW t \in http_send_buffer(PushSplit(Alloc(s, BufferOf(FirstOf(r))), RestOf(r)), FirstOf(r))
  PROVE  State(s0, t, k, d, {}) /\ Others(s, t, d, r.msg)
<1> DEFINE b == BufferOf(FirstOf(r))
           q == RestOf(r)
           w == Alloc(s, b)
           u == PushSplit(w, q)
<1>1. /\ b = PieceBuf(r.msg, r.order) /\ b \in BufferT(k) /\ b[1] = r.msg /\ b[2] = "piece"
      /\ b[3] = r.order /\ q \in RemainderT(k) /\ FirstOf(r) \in PieceT(k)
      /\ q.msg = r.msg /\ q.order = r.order + 1 /\ Owes(q) = Owes(r)
      /\ FirstOf(r).msg = r.msg /\ FirstOf(r).order = r.order
      /\ r.order \in Nat /\ r.msg \in 1..k /\ r.order < r.order + 1
  <2>1. b = PieceBuf(r.msg, r.order) /\ b[1] = r.msg /\ b[2] = "piece" /\ b[3] = r.order
    BY ContentFacts DEF PieceBuf
  <2>2. Owes(q) = Owes(r)
    BY ContentFacts DEF Owes
  <2>3. r.order \in Nat /\ r.order < r.order + 1
    BY DEF RemainderT
  <2> QED BY <2>1, <2>2, <2>3, RemainderTypes, ContentFacts
<1>2. b \notin Owes(r)
  BY <1>1, ContentFacts DEF Owes
<1> HIDE DEF b, q
<1>3. b \notin s.heap
  BY <1>1, <1>2 DEF Open
<1>4. /\ State(s0, w, k, d, Owes(r) \cup {b}) /\ Others(s, w, d, r.msg)
      /\ Open(w, d, r.msg, r.order, Owes(r) \cup {b})
  BY <1>1, <1>3, AllocOwn
<1>5. ~SplitFull(w)
  BY DEF SplitFull, Alloc, State, Good, LayerT
<1> HIDE DEF w
<1>6. Open(w, d, r.msg, r.order + 1, Owes(r))
  BY <1>1, <1>4, Opener DEF State
<1>7. /\ State(s0, u, k, d, (Owes(r) \cup {b}) \ Owes(r)) /\ NextUp(u, d, FirstOf(r))
      /\ Others(w, u, d, r.msg)
  <2>1. Owes(q) \subseteq Owes(r) \cup {b} /\ Open(w, d, q.msg, q.order, Owes(q))
    BY <1>1, <1>6
  <2>2. /\ State(s0, u, k, d, (Owes(r) \cup {b}) \ Owes(q)) /\ Others(w, u, d, q.msg)
        /\ \A p \in PieceT(k) : \A G :
              /\ p.msg = q.msg /\ p.order < q.order /\ Open(w, d, p.msg, p.order, G)
              => NextUp(u, d, p)
    BY <1>1, <1>4, <1>5, <2>1, PushOwn
  <2>3. NextUp(u, d, FirstOf(r))
    BY <1>1, <1>4, <2>2
  <2> QED BY <1>1, <2>2, <2>3
<1> HIDE DEF u
<1>8. State(s0, t, k, d, ((Owes(r) \cup {b}) \ Owes(r)) \ {b}) /\ Others(u, t, d, r.msg)
  BY <1>1, <1>2, <1>7, SendOthers DEF b, u, w, q
<1>9. ((Owes(r) \cup {b}) \ Owes(r)) \ {b} = {}
  OBVIOUS
<1>10. Others(s, t, d, r.msg)
  BY <1>4, <1>7, <1>8, OthersAgain DEF State
<1> QED BY <1>8, <1>9, <1>10

\* or, when that is full, forgotten.
LEMMA CutMsgOwn ==
  ASSUME NEW k \in Nat, NEW l \in Nat, NEW s0, Good(s0, l), NEW s, NEW d \in Nat,
         NEW r \in RemainderT(k), r.left > 1, r.kind # "diag", State(s0, s, k, d, Owes(r)),
         Open(s, d, r.msg, r.order, Owes(r)),
         NEW t \in http_send_buffer(PushRemainingMsg(Alloc(s, BufferOf(FirstOf(r))), RestOf(r)),
                                    FirstOf(r))
  PROVE  State(s0, t, k, d, {}) /\ Others(s, t, d, r.msg)
<1> DEFINE b == BufferOf(FirstOf(r))
           c == ContentOf(r)
           w == Alloc(s, b)
           u == Leak(w, c)
<1>0. SplitFull(w) <=> SplitFull(s)
  BY DEF SplitFull, Alloc, State, Good, LayerT
<1>1. CASE ~SplitFull(s)
  BY <1>0, <1>1, CutOwn DEF PushRemainingMsg
<1>2. CASE SplitFull(s)
  <2>1. /\ b = PieceBuf(r.msg, r.order) /\ b \in BufferT(k) /\ b[1] = r.msg /\ b[2] = "piece"
        /\ b[3] = r.order /\ FirstOf(r) \in PieceT(k) /\ ContentOf(RestOf(r)) = c
        /\ FirstOf(r).msg = r.msg /\ FirstOf(r).order = r.order
        /\ r.order \in Nat /\ r.msg \in 1..k
        /\ Owes(r) = {c} /\ c \in BufferT(k) /\ c[1] = r.msg /\ c[2] # "literal" /\ c # b
    BY RemainderTypes, ContentFacts DEF PieceBuf, Owes
  <2>2. t \in http_send_buffer(u, FirstOf(r))
    BY <1>0, <1>2, <2>1 DEF PushRemainingMsg
  <2> HIDE DEF b, c
  <2>3. b \notin s.heap
    BY <2>1 DEF Open
  <2>4. /\ State(s0, w, k, d, {c} \cup {b}) /\ Others(s, w, d, r.msg)
        /\ Open(w, d, r.msg, r.order, {c} \cup {b})
    BY <2>1, <2>3, AllocOwn
  <2> HIDE DEF w
  <2>5. /\ State(s0, u, k, d, ({c} \cup {b}) \ {c}) /\ Others(w, u, d, r.msg)
        /\ Open(u, d, r.msg, r.order, {c} \cup {b})
    <3>1. c \in {c} \cup {b}
      OBVIOUS
    <3>2. /\ State(s0, Leak(w, c), k, d, ({c} \cup {b}) \ {c}) /\ Others(w, Leak(w, c), d, c[1])
          /\ \A m, o, G : Open(w, d, m, o, G) => Open(Leak(w, c), d, m, o, G)
      BY <2>1, <2>4, <3>1, LeakOwn
    <3> QED BY <2>1, <2>4, <3>2
  <2> HIDE DEF u
  <2>6. NextUp(u, d, FirstOf(r))
    BY <2>1, <2>5, OpenNext
  <2>7. State(s0, t, k, d, (({c} \cup {b}) \ {c}) \ {b}) /\ Others(u, t, d, r.msg)
    BY <2>1, <2>2, <2>5, <2>6, SendOthers DEF b
  <2>8. (({c} \cup {b}) \ {c}) \ {b} = {}
    OBVIOUS
  <2>9. Others(s, t, d, r.msg)
    BY <2>4, <2>5, <2>7, OthersAgain DEF State
  <2> QED BY <2>7, <2>8, <2>9
<1> QED BY <1>1, <1>2

\* The last piece of r is sent; the content stays in hand.
LEMMA LastOwn ==
  ASSUME NEW k \in Nat, NEW l \in Nat, NEW s0, Good(s0, l), NEW s, NEW d, NEW H,
         NEW p \in PieceT(k), State(s0, s, k, d, H), BufferOf(p) \notin H,
         Open(s, d, p.msg, p.order, H),
         NEW t \in http_send_buffer(Alloc(s, BufferOf(p)), p)
  PROVE  /\ State(s0, t, k, d, H) /\ Others(s, t, d, p.msg)
         /\ Open(t, d, p.msg, p.order + 1, H)
<1> DEFINE b == BufferOf(p)
           w == Alloc(s, b)
<1>1. /\ b = PieceBuf(p.msg, p.order) /\ b \in BufferT(k) /\ b[1] = p.msg /\ b[2] = "piece"
      /\ b[3] = p.order /\ p.order \in Nat /\ p.msg \in 1..k /\ p.order + 1 \in Nat
      /\ p.order < p.order + 1
  BY BufferOfType, BufferFacts DEF BufferOf, PieceT
<1> HIDE DEF b
<1>2. b \notin s.heap
  BY <1>1 DEF Open, b
<1>3. /\ State(s0, w, k, d, H \cup {b}) /\ Others(s, w, d, p.msg)
      /\ Open(w, d, p.msg, p.order, H \cup {b})
  BY <1>1, <1>2, AllocOwn
<1> HIDE DEF w
<1>4. Open(w, d, p.msg, p.order + 1, H) /\ NextUp(w, d, p)
  BY <1>1, <1>3, Opener, OpenNext DEF State
<1>5. /\ State(s0, t, k, d, (H \cup {b}) \ {b}) /\ Others(w, t, d, p.msg)
      /\ Open(t, d, p.msg, p.order + 1, H)
  <2>1. BufferOf(p) \in H \cup {b} /\ t \in http_send_buffer(w, p)
    BY DEF b, w
  <2>2. /\ State(s0, t, k, d, (H \cup {b}) \ {BufferOf(p)}) /\ Others(w, t, d, p.msg)
        /\ \A o \in Nat : \A G : Open(w, d, p.msg, o, G) /\ p.order < o => Open(t, d, p.msg, o, G)
    BY <1>3, <1>4, <2>1, SendOthers
  <2> QED BY <1>1, <1>4, <2>2 DEF b
<1>6. (H \cup {b}) \ {b} = H
  BY DEF b
<1>7. Good(s, k) /\ Good(w, k) /\ k >= k
  BY <1>3 DEF State
<1>8. Others(s, t, d, p.msg)
  BY <1>3, <1>5, <1>7, OthersAgain
<1> QED BY <1>5, <1>6, <1>8

(***************************************************************************)
(* The operators.  Each ends with nothing in hand, with the messages of    *)
(* its own errors after those that were there.                             *)
(***************************************************************************)
Ends(s0, s, t, k, d, m) ==
  \E j \in Nat : j >= k /\ State(s0, t, j, d, {}) /\ Others(s, t, d, m)

LEMMA CallOwn ==
  ASSUME NEW k \in Nat, NEW s0, NEW s, NEW d, NEW H, State(s0, s, k, d, H)
  PROVE  /\ State(s0, Post(s), k, d, H) /\ State(s0, GiveUp(s), k, d, H)
         /\ \A t \in Faulty(s) : /\ State(s0, t, k, d, H)
                                 /\ \A m, o, G : Open(s, d, m, o, G) => Open(t, d, m, o, G)
         /\ \A m, o, G : Open(s, d, m, o, G) => Open(GiveUp(s), d, m, o, G)
<1>0. Good(s, k) /\ s \in LayerT(k)
  BY DEF State, Good
<1>1. Store(s, Post(s)) /\ Store(s, GiveUp(s)) /\ Good(Post(s), k) /\ Good(GiveUp(s), k)
  <2>1. Store(s, GiveUp(s))
    BY <1>0 DEF GiveUp, Store, LayerT
  <2>2. Store(s, Post(s))
    BY <1>0 DEF Post, Store, LayerT
  <2> QED BY <1>0, <2>1, <2>2, PostGood, GiveUpGood
<1>2. ASSUME NEW t \in Faulty(s) PROVE Store(s, t) /\ Good(t, k)
  <2>1. t = [s EXCEPT !.faults = @ + 1]
    BY DEF Faulty
  <2>2. Store(s, t)
    BY <1>0, <2>1 DEF Store, LayerT
  <2> QED BY <1>0, <2>2, FaultyGood
<1> QED BY <1>1, <1>2, StoreKept

LEMMA AllOthers ==
  ASSUME NEW s, NEW t, NEW d, \A m, o, G : Open(s, d, m, o, G) => Open(t, d, m, o, G), NEW x
  PROVE  Others(s, t, d, x)
BY DEF Others

LEMMA HttpSendOwn ==
  ASSUME NEW k \in Nat, NEW l \in Nat, NEW s0, Good(s0, l), NEW s, NEW d \in Nat,
         NEW c \in Conn, NEW m \in 1..k, NEW n \in Nat \ {0}, State(s0, s, k, d, {TextOf(m, n)}),
         Open(s, d, m, 1, {TextOf(m, n)}), NEW t \in http_send(s, c, m, n)
  PROVE  State(s0, t, k, d, {}) /\ Others(s, t, d, m)
<1>1. CASE n = 1
  <2> DEFINE p == Piece(c, m, 1)
  <2>1. p \in PieceT(k) /\ p.msg = m /\ p.order = 1 /\ BufferOf(p) = TextOf(m, n)
    BY <1>1 DEF Piece, PieceT, BufferOf, TextOf
  <2>2. t \in http_send_buffer(s, p)
    BY <1>1 DEF http_send
  <2> HIDE DEF p
  <2>3. NextUp(s, d, p)
    BY <2>1, OpenNext
  <2>4. State(s0, t, k, d, {TextOf(m, n)} \ {BufferOf(p)}) /\ Others(s, t, d, p.msg)
    BY <2>1, <2>2, <2>3, SendOthers
  <2>5. {TextOf(m, n)} \ {BufferOf(p)} = {}
    BY <2>1
  <2> QED BY <2>1, <2>4, <2>5
<1>2. CASE n # 1
  <2> DEFINE r == Remaining(c, m, "msg", 1, n)
  <2>1. /\ r \in RemainderT(k) /\ r.left = n /\ r.left > 1 /\ r.msg = m /\ r.order = 1
        /\ r.kind = "msg" /\ ContentOf(r) = TextOf(m, n) /\ Owes(r) = {TextOf(m, n)}
        /\ BufferOf(FirstOf(r)) = PieceBuf(m, 1)
    <3>1. r \in RemainderT(k) /\ r.left = n
      BY RemainingTypes
    <3>2. /\ r.msg = m /\ r.order = 1 /\ r.kind = "msg" /\ ContentOf(r) = TextOf(m, n)
          /\ Owes(r) = {TextOf(m, n)}
      BY <1>2 DEF Remaining, ContentOf, TextOf, Owes
    <3>3. BufferOf(FirstOf(r)) = PieceBuf(m, 1)
      BY <3>1, <3>2, ContentFacts
    <3>4. n > 1
      BY <1>2
    <3> QED BY <3>1, <3>2, <3>3, <3>4
  <2>2. \/ \E u \in Faulty(s) : t = Free(u, ContentOf(r))
        \/ t \in http_send_buffer(PushRemainingMsg(Alloc(s, PieceBuf(m, 1)), RestOf(r)), FirstOf(r))
    BY <1>2 DEF http_send
  <2> HIDE DEF r
  <2>3. ASSUME NEW u \in Faulty(s), t = Free(u, ContentOf(r))
        PROVE  State(s0, t, k, d, {}) /\ Others(s, t, d, m)
    <3>1. /\ State(s0, u, k, d, {ContentOf(r)})
          /\ \A x, o, G : Open(s, d, x, o, G) => Open(u, d, x, o, G)
      BY <2>1, CallOwn
    <3>2. ContentOf(r) \in BufferT(k) /\ ContentOf(r)[2] # "literal"
      BY <2>1, ContentFacts, RemainderTypes
    <3>3. /\ State(s0, t, k, d, {ContentOf(r)} \ {ContentOf(r)})
          /\ \A x, o, G : Open(u, d, x, o, G) => Open(t, d, x, o, G)
      BY <2>3, <3>1, <3>2, FreeOwn
    <3>4. {ContentOf(r)} \ {ContentOf(r)} = {}
      OBVIOUS
    <3> QED BY <3>1, <3>3, <3>4 DEF Others
  <2>4. ASSUME t \in http_send_buffer(PushRemainingMsg(Alloc(s, PieceBuf(m, 1)), RestOf(r)),
                                      FirstOf(r))
        PROVE  State(s0, t, k, d, {}) /\ Others(s, t, d, m)
    BY <2>1, <2>4, CutMsgOwn
  <2> QED BY <2>2, <2>3, <2>4
<1> QED BY <1>1, <1>2

LEMMA ResponseOwn ==
  ASSUME NEW k \in Nat, NEW l \in Nat, NEW s0, Good(s0, l), NEW s, NEW d \in Nat,
         NEW c \in Conn, NEW m \in 1..k, NEW n \in Nat, NEW H,
         H = IF n = 0 THEN {} ELSE {TextOf(m, n)}, State(s0, s, k, d, H),
         Open(s, d, m, 0, H), NEW t \in http_response(s, c, m, n)
  PROVE  State(s0, t, k, d, {}) /\ Others(s, t, d, m)
<1>1. CASE \E u \in Faulty(s) : t = IF n = 0 THEN u ELSE Leak(u, TextOf(m, n))
  <2>1. PICK u \in Faulty(s) : t = IF n = 0 THEN u ELSE Leak(u, TextOf(m, n))
    BY <1>1
  <2>2. State(s0, u, k, d, H) /\ Others(s, u, d, m)
    <3>1. State(s0, u, k, d, H) /\ \A x, o, G : Open(s, d, x, o, G) => Open(u, d, x, o, G)
      BY CallOwn
    <3> QED BY <3>1 DEF Others
  <2>3. CASE n = 0
    BY <2>1, <2>2, <2>3
  <2>4. CASE n # 0
    <3> DEFINE b == TextOf(m, n)
    <3>1. b \in BufferT(k) /\ b[2] # "literal" /\ b[1] = m /\ H = {b} /\ b \in H
      BY <2>4, MessageTypes DEF TextOf, PieceBuf
    <3> HIDE DEF b
    <3>2. State(s0, Leak(u, b), k, d, H \ {b}) /\ Others(u, Leak(u, b), d, m)
      BY <2>2, <3>1, LeakOwn
    <3>3. H \ {b} = {} /\ t = Leak(u, b)
      BY <2>1, <2>4, <3>1 DEF b
    <3>4. State(s0, t, k, d, {}) /\ Others(u, t, d, m)
      BY <3>2, <3>3
    <3> QED BY <2>2, <3>4, OthersAgain DEF State
  <2> QED BY <2>3, <2>4
<1>2. CASE \E u \in http_send_buffer(Alloc(s, PieceBuf(m, 0)), Piece(c, m, 0)) :
             t \in IF n = 0 THEN {u} ELSE http_send(u, c, m, n)
  <2> DEFINE p == Piece(c, m, 0)
  <2>1. PICK u \in http_send_buffer(Alloc(s, PieceBuf(m, 0)), Piece(c, m, 0)) :
          t \in IF n = 0 THEN {u} ELSE http_send(u, c, m, n)
    BY <1>2
  <2>2. p \in PieceT(k) /\ p.msg = m /\ p.order = 0 /\ BufferOf(p) = PieceBuf(m, 0)
    BY DEF Piece, PieceT, BufferOf
  <2>3. PieceBuf(m, 0) \notin H
    BY DEF PieceBuf, TextOf
  <2>4. State(s0, u, k, d, H) /\ Others(s, u, d, m) /\ Open(u, d, m, 0 + 1, H)
    <3> HIDE DEF p
    <3>1. u \in http_send_buffer(Alloc(s, BufferOf(p)), p)
      BY <2>1, <2>2 DEF p
    <3> QED BY <2>2, <2>3, <3>1, LastOwn
  <2>5. CASE n = 0
    BY <2>1, <2>4, <2>5
  <2>6. CASE n # 0
    <3>1. H = {TextOf(m, n)} /\ Open(u, d, m, 1, H) /\ t \in http_send(u, c, m, n)
      BY <2>1, <2>4, <2>6
    <3>2. State(s0, t, k, d, {}) /\ Others(u, t, d, m)
      BY <2>4, <2>6, <3>1, HttpSendOwn
    <3> QED BY <2>4, <3>2, OthersAgain DEF State
  <2> QED BY <2>5, <2>6
<1> QED BY <1>1, <1>2 DEF http_response

LEMMA ErrorOwn ==
  ASSUME NEW k \in Nat, NEW l \in Nat, NEW s0, Good(s0, l), NEW s, NEW d \in Nat,
         State(s0, s, k, d, {}), NEW c \in Conn, NEW t \in error_response(s, c)
  PROVE  Ends(s0, s, t, k, d, 0)
<1>1. CASE t \in Faulty(s)
  BY <1>1, CallOwn, AllOthers DEF Ends
<1>2. CASE t \in http_response(Alloc(NewMessage(s), PieceBuf(k + 1, 1)), c, k + 1, 1)
  <2> DEFINE w == NewMessage(s)
             b == PieceBuf(k + 1, 1)
             u == Alloc(w, b)
  <2>1. /\ State(s0, w, k + 1, d, {}) /\ Open(w, d, k + 1, 0, {}) /\ Others(s, w, d, k + 1)
    BY NewMessageOwn
  <2>2. /\ k + 1 \in 1..(k + 1) /\ b \in BufferT(k + 1) /\ b[1] = k + 1 /\ b[2] = "piece"
        /\ TextOf(k + 1, 1) = b
    BY DEF PieceBuf, BufferT, TextOf
  <2> HIDE DEF w, b
  <2>3. b \notin w.heap
    BY <2>1, <2>2 DEF Open, b, PieceBuf
  <2>4. /\ State(s0, u, k + 1, d, {} \cup {b}) /\ Open(u, d, k + 1, 0, {} \cup {b})
        /\ Others(w, u, d, k + 1)
    <3>1. k + 1 \in Nat /\ 0 \in Nat /\ b[2] # "literal" /\ Open(w, d, b[1], 0, {})
      BY <2>1, <2>2
    <3>2. /\ State(s0, Alloc(w, b), k + 1, d, {} \cup {b}) /\ Others(w, Alloc(w, b), d, b[1])
          /\ \A o \in Nat : \A G : Open(w, d, b[1], o, G) => Open(Alloc(w, b), d, b[1], o, G \cup {b})
      BY <2>1, <2>2, <2>3, <3>1, AllocOwn
    <3>3. Open(Alloc(w, b), d, b[1], 0, {} \cup {b})
      BY <3>1, <3>2
    <3> QED BY <2>2, <3>2, <3>3
  <2>5. {} \cup {b} = {TextOf(k + 1, 1)} /\ t \in http_response(u, c, k + 1, 1)
    BY <1>2, <2>2 DEF b, w
  <2> HIDE DEF u
  <2>6. State(s0, t, k + 1, d, {}) /\ Others(u, t, d, k + 1)
    <3>1. {TextOf(k + 1, 1)} = IF 1 = 0 THEN {} ELSE {TextOf(k + 1, 1)}
      OBVIOUS
    <3> QED BY <2>2, <2>4, <2>5, <3>1, ResponseOwn
  <2>7. Others(s, t, d, k + 1)
    BY <2>1, <2>4, <2>6, OthersAgain DEF State
  <2>8. DOMAIN s.sent = 1..k
    BY Entries DEF State
  <2>9. Others(s, t, d, 0)
    BY <2>7, <2>8 DEF Others
  <2> QED BY <2>6, <2>9 DEF Ends
<1>3. Len(s.sent) = k
  BY DEF State, Good
<1> QED BY <1>1, <1>2, <1>3 DEF error_response

LEMMA FailureOwn ==
  ASSUME NEW k \in Nat, NEW l \in Nat, NEW s0, Good(s0, l), NEW s, NEW d \in Nat,
         State(s0, s, k, d, {}), NEW c \in Conn, NEW t \in Failure(s, c)
  PROVE  Ends(s0, s, t, k, d, 0)
<1>1. PICK u \in Faulty(s) : t \in error_response(u, c)
  BY DEF Failure
<1>2. State(s0, u, k, d, {}) /\ Others(s, u, d, 0)
  BY CallOwn, AllOthers
<1>3. Ends(s0, u, t, k, d, 0)
  BY <1>1, <1>2, ErrorOwn
<1> QED BY <1>2, <1>3, OthersAgain DEF Ends, State

\* Nothing is in hand at the end.
Finishes(s0, t, d) == \E j \in Nat : State(s0, t, j, d, {})

LEMMA EndsFinishes ==
  ASSUME NEW s0, NEW s, NEW t, NEW k \in Nat, NEW d, NEW m
  PROVE  /\ Ends(s0, s, t, k, d, m) => Finishes(s0, t, d)
         /\ State(s0, t, k, d, {}) => Finishes(s0, t, d)
BY DEF Ends, Finishes

\* The content of r is freed, if it has one.
LEMMA ContentOwn ==
  ASSUME NEW k \in Nat, NEW s0, NEW s, NEW d, NEW r \in RemainderT(k), r.kind # "diag",
         State(s0, s, k, d, Owes(r))
  PROVE  State(s0, Free(s, ContentOf(r)), k, d, {})
<1>1. /\ ContentOf(r) \in BufferT(k) /\ ContentOf(r)[2] # "literal"
      /\ Owes(r) = {ContentOf(r)} /\ ContentOf(r) \in Owes(r)
  BY ContentFacts, RemainderTypes DEF Owes
<1>2. State(s0, Free(s, ContentOf(r)), k, d, Owes(r) \ {ContentOf(r)})
  BY <1>1, FreeOwn
<1>3. Owes(r) \ {ContentOf(r)} = {}
  BY <1>1
<1> QED BY <1>2, <1>3

\* The piece in hand of r has no buffer yet, and is sent as the last one.
LEMMA PieceOwn ==
  ASSUME NEW k \in Nat, NEW l \in Nat, NEW s0, Good(s0, l), NEW s, NEW d \in Nat,
         NEW r \in RemainderT(k), State(s0, s, k, d, Owes(r)),
         Open(s, d, r.msg, r.order, Owes(r))
  PROVE  /\ \A t \in http_send_buffer(Alloc(s, BufferOf(FirstOf(r))), FirstOf(r)) :
              State(s0, t, k, d, Owes(r))
         /\ BufferOf(FirstOf(r)) \notin s.heap
<1>1. /\ FirstOf(r) \in PieceT(k) /\ FirstOf(r).msg = r.msg /\ FirstOf(r).order = r.order
      /\ BufferOf(FirstOf(r)) = PieceBuf(r.msg, r.order)
  BY ContentFacts, RemainderTypes
<1>2. PieceBuf(r.msg, r.order) \notin Owes(r)
  BY ContentFacts DEF Owes, PieceBuf
<1>3. r.order \in Nat
  BY DEF RemainderT
<1>4. BufferOf(FirstOf(r)) \notin s.heap
  BY <1>1, <1>2, <1>3 DEF Open, PieceBuf
<1> QED BY <1>1, <1>2, <1>4, LastOwn

LEMMA RemainingMsgOwn ==
  ASSUME NEW k \in Nat, NEW l \in Nat, NEW s0, Good(s0, l), NEW s, NEW d \in Nat,
         NEW r \in RemainderT(k), r.kind = "msg", State(s0, s, k, d, Owes(r)),
         Open(s, d, r.msg, r.order, Owes(r)), NEW t \in send_remaining_msg(s, r)
  PROVE  State(s0, t, k, d, {})
<1> DEFINE w == Alloc(s, BufferOf(FirstOf(r)))
<1>1. \A u : State(s0, u, k, d, Owes(r)) => State(s0, Free(u, ContentOf(r)), k, d, {})
  BY ContentOwn
<1>2. State(s0, Post(Free(s, ContentOf(r))), k, d, {})
  BY <1>1, CallOwn
<1>3. \A u \in Faulty(s) : State(s0, Post(Free(u, ContentOf(r))), k, d, {})
  BY <1>1, CallOwn
<1>4. ASSUME r.left > 1
      PROVE \A u \in http_send_buffer(PushRemainingMsg(w, RestOf(r)), FirstOf(r)) :
              State(s0, u, k, d, {})
  BY <1>4, CutMsgOwn
<1>5. \A u \in {Post(v) : v \in Faulty(s)} \cup http_send_buffer(w, FirstOf(r)) :
        State(s0, u, k, d, Owes(r))
  BY PieceOwn, CallOwn
<1> HIDE DEF w
<1>6. \A u \in {Post(v) : v \in Faulty(s)} \cup http_send_buffer(w, FirstOf(r)) :
        State(s0, Free(u, ContentOf(r)), k, d, {})
  BY <1>1, <1>5
<1> QED BY <1>2, <1>3, <1>4, <1>6 DEF send_remaining_msg, w

LEMMA RemainingFileOwn ==
  ASSUME NEW k \in Nat, NEW l \in Nat, NEW s0, Good(s0, l), NEW s, NEW d \in Nat,
         NEW r \in RemainderT(k), r.kind = "file", State(s0, s, k, d, Owes(r)),
         Open(s, d, r.msg, r.order, Owes(r)), NEW t \in send_remaining_file(s, r)
  PROVE  Finishes(s0, t, d)
<1> DEFINE b == BufferOf(FirstOf(r))
           f == Free(s, ContentOf(r))
           w == Alloc(s, b)
<1>1. State(s0, f, k, d, {}) /\ r.conn \in Conn
  BY ContentOwn, RemainderTypes
<1>2. Finishes(s0, Post(f), d) /\ Finishes(s0, GiveUp(f), d)
  BY <1>1, CallOwn, EndsFinishes
<1>3. \A u \in Failure(GiveUp(f), r.conn) : Finishes(s0, u, d)
  <2>1. State(s0, GiveUp(f), k, d, {})
    BY <1>1, CallOwn
  <2> QED BY <1>1, <2>1, FailureOwn, EndsFinishes
<1>4. \A u \in Failure(GiveUp(Leak(f, b)), r.conn) : Finishes(s0, u, d)
  <2>1. /\ ContentOf(r) \in BufferT(k) /\ ContentOf(r)[2] # "literal" /\ Owes(r) = {ContentOf(r)}
        /\ b \in BufferT(k) /\ b[2] = "piece" /\ b[1] = r.msg /\ ContentOf(r) \in Owes(r)
        /\ r.order \in Nat
    BY ContentFacts, RemainderTypes DEF Owes, PieceBuf
  <2>2. \A m, o, G : Open(s, d, m, o, G) => Open(f, d, m, o, G)
    BY <2>1, FreeOwn
  <2>3. b \notin f.heap
    <3>1. b \notin s.heap
      BY PieceOwn
    <3>2. f.heap = s.heap \ {ContentOf(r)}
      BY DEF Free, State, Good, LayerT
    <3> QED BY <3>1, <3>2
  <2> HIDE DEF f, b
  <2>4. State(s0, Leak(f, b), k, d, {} \ {b})
    BY <1>1, <2>1, <2>2, <2>3, LeakOwn
  <2>5. {} \ {b} = {}
    OBVIOUS
  <2>6. State(s0, GiveUp(Leak(f, b)), k, d, {})
    BY <2>4, <2>5, CallOwn
  <2> QED BY <1>1, <2>6, FailureOwn, EndsFinishes
<1>5. ASSUME r.left > 1, ~SplitFull(s)
      PROVE  \A u \in http_send_buffer(PushSplit(w, RestOf(r)), FirstOf(r)) : Finishes(s0, u, d)
  BY <1>5, CutOwn, EndsFinishes
<1>6. \A u \in http_send_buffer(w, FirstOf(r)) : Finishes(s0, Free(u, ContentOf(r)), d)
  BY PieceOwn, ContentOwn, EndsFinishes
<1> QED BY <1>2, <1>3, <1>4, <1>5, <1>6 DEF send_remaining_file

LEMMA RemainingDiagOwn ==
  ASSUME NEW k \in Nat, NEW l \in Nat, NEW s0, Good(s0, l), NEW s, NEW d \in Nat,
         NEW r \in RemainderT(k), r.kind = "diag", State(s0, s, k, d, Owes(r)),
         Open(s, d, r.msg, r.order, Owes(r)), NEW t \in getDiagnosticEvents_next(s, r)
  PROVE  Finishes(s0, t, d)
<1> DEFINE w == Alloc(s, BufferOf(FirstOf(r)))
<1>1. Owes(r) = {} /\ r.conn \in Conn
  BY RemainderTypes DEF Owes
<1>2. State(s0, Post(s), k, d, {}) /\ State(s0, GiveUp(s), k, d, {})
  BY <1>1, CallOwn
<1>3. \A u \in Failure(GiveUp(s), r.conn) : Finishes(s0, u, d)
  BY <1>1, <1>2, FailureOwn, EndsFinishes
<1>4. \A u \in http_send_buffer(w, FirstOf(r)) : Finishes(s0, u, d)
  BY <1>1, PieceOwn, EndsFinishes
<1>5. ASSUME r.left # 1, ~SplitFull(s)
      PROVE  \A u \in http_send_buffer(PushSplit(w, RestOf(r)), FirstOf(r)) : Finishes(s0, u, d)
  <2>1. r.left > 1
    BY <1>5 DEF RemainderT
  <2> QED BY <1>5, <2>1, CutOwn, EndsFinishes
<1>6. Finishes(s0, Post(s), d) /\ Finishes(s0, GiveUp(s), d)
  BY <1>2, EndsFinishes
<1> QED BY <1>3, <1>4, <1>5, <1>6 DEF getDiagnosticEvents_next

LEMMA SplitActionOwn ==
  ASSUME NEW k \in Nat, NEW l \in Nat, NEW s0, Good(s0, l), NEW s, NEW d \in Nat,
         NEW r \in RemainderT(k), State(s0, s, k, d, Owes(r)),
         Open(s, d, r.msg, r.order, Owes(r)), NEW t \in SplitAction(s, r)
  PROVE  Finishes(s0, t, d)
<1>1. CASE r.kind = "msg"
  BY <1>1, RemainingMsgOwn, EndsFinishes DEF SplitAction
<1>2. CASE r.kind = "file"
  BY <1>2, RemainingFileOwn DEF SplitAction
<1>3. CASE r.kind = "diag"
  BY <1>3, RemainingDiagOwn DEF SplitAction
<1> QED BY <1>1, <1>2, <1>3 DEF RemainderT

\* The header of message m has been sent, and its content follows.
LEMMA FileContentOwn ==
  ASSUME NEW k \in Nat, NEW l \in Nat, NEW s0, Good(s0, l), NEW s, NEW d \in Nat,
         NEW c \in Conn, NEW m \in 1..k, NEW n \in Nat, State(s0, s, k, d, {}),
         Open(s, d, m, 1, {}), NEW t \in FileAfterHeader(s, c, m, n)
  PROVE  Finishes(s0, t, d)
<1> DEFINE r == Remaining(c, m, "file", 1, n)
           b == PieceBuf(m, 1)
           p == Piece(c, m, 1)
<1>1. /\ p \in PieceT(k) /\ p.msg = m /\ p.order = 1 /\ BufferOf(p) = b /\ b \in BufferT(k)
      /\ b[1] = m /\ b[2] = "piece" /\ b[3] = 1
  BY MessageTypes DEF Piece, BufferOf, PieceBuf
<1> HIDE DEF b, p
<1>2. b \notin s.heap
  BY <1>1 DEF Open
<1>3. Finishes(s0, s, d) /\ \A u \in Failure(s, c) : Finishes(s0, u, d)
  BY FailureOwn, EndsFinishes
<1>4. \A u \in Failure(Leak(s, b), c) : Finishes(s0, u, d)
  <2>1. State(s0, Leak(s, b), k, d, {} \ {b})
    BY <1>1, <1>2, LeakOwn
  <2>2. {} \ {b} = {}
    OBVIOUS
  <2> QED BY <2>1, <2>2, FailureOwn, EndsFinishes
<1>5. \A u \in http_send_buffer(Alloc(s, b), p) : Finishes(s0, u, d)
  BY <1>1, LastOwn, EndsFinishes
<1>6. ASSUME n > 1, ~SplitFull(s)
      PROVE  \A u \in http_send_buffer(
                        PushSplit(Alloc(Alloc(s, ContentOf(r)), PieceBuf(m, 1)), RestOf(r)),
                        FirstOf(r)) : Finishes(s0, u, d)
  <2> DEFINE e == ContentOf(r)
             w == Alloc(s, e)
  <2>1. /\ r \in RemainderT(k) /\ r.left > 1 /\ r.msg = m /\ r.order = 1 /\ Owes(r) = {e}
        /\ e[1] = m /\ e[2] = "content" /\ e \in BufferT(k)
    <3>1. r \in RemainderT(k) /\ r.left = n
      BY <1>6, RemainingTypes
    <3>2. r.msg = m /\ r.order = 1 /\ Owes(r) = {e} /\ e[1] = m /\ e[2] = "content"
      BY DEF Remaining, Owes, ContentOf
    <3> QED BY <1>6, <3>1, <3>2, RemainderTypes
  <2>2. BufferOf(FirstOf(r)) = PieceBuf(m, 1)
    BY <2>1, ContentFacts
  <2> HIDE DEF r, e
  <2>3. e \notin s.heap
    BY <2>1 DEF Open
  <2>4. State(s0, w, k, d, {} \cup {e}) /\ Open(w, d, m, 1, {} \cup {e})
    <3>1. 1 \in Nat /\ e[2] # "literal" /\ Open(s, d, e[1], 1, {})
      BY <2>1
    <3>2. /\ State(s0, w, k, d, {} \cup {e})
          /\ \A o \in Nat : \A G : Open(s, d, e[1], o, G) => Open(w, d, e[1], o, G \cup {e})
      BY <2>1, <2>3, <3>1, AllocOwn
    <3> QED BY <2>1, <3>1, <3>2
  <2>5. {} \cup {e} = Owes(r) /\ ~SplitFull(w)
    BY <1>6, <2>1 DEF SplitFull, Alloc, State, Good, LayerT
  <2>6. w = Alloc(s, ContentOf(r))
    BY DEF e
  <2> HIDE DEF w
  <2>7. \A u \in http_send_buffer(PushSplit(Alloc(w, BufferOf(FirstOf(r))), RestOf(r)), FirstOf(r)) :
          Finishes(s0, u, d)
    BY <2>1, <2>4, <2>5, CutOwn, EndsFinishes
  <2> QED BY <2>2, <2>6, <2>7
<1>7. n # 0 /\ n # 1 => n > 1
  OBVIOUS
<1> QED BY <1>3, <1>4, <1>5, <1>6, <1>7 DEF FileAfterHeader, b, p

LEMMA HeaderOwn ==
  ASSUME NEW k \in Nat, NEW l \in Nat, NEW s0, Good(s0, l), NEW s, NEW d \in Nat,
         NEW c \in Conn, NEW m \in 1..k, State(s0, s, k, d, {}), Open(s, d, m, 0, {}),
         NEW t \in http_send_buffer(Alloc(s, PieceBuf(m, 0)), Piece(c, m, 0))
  PROVE  State(s0, t, k, d, {}) /\ Open(t, d, m, 1, {})
<1> DEFINE p == Piece(c, m, 0)
<1>1. /\ p \in PieceT(k) /\ p.msg = m /\ p.order = 0 /\ BufferOf(p) = PieceBuf(m, 0)
  BY MessageTypes DEF Piece, BufferOf
<1>2. t \in http_send_buffer(Alloc(s, BufferOf(p)), p)
  BY <1>1
<1> HIDE DEF p
<1>3. State(s0, t, k, d, {}) /\ Open(t, d, m, 0 + 1, {})
  BY <1>1, <1>2, LastOwn
<1> QED BY <1>3

LEMMA FileOwn ==
  ASSUME NEW k \in Nat, NEW l \in Nat, NEW s0, Good(s0, l), NEW s, NEW d \in Nat,
         NEW c \in Conn, NEW m \in 1..k, NEW n \in Nat, State(s0, s, k, d, {}),
         Open(s, d, m, 0, {}), NEW t \in return_file(s, c, m, n)
  PROVE  Finishes(s0, t, d)
<1>1. \A u \in Failure(s, c) : Finishes(s0, u, d)
  BY FailureOwn, EndsFinishes
<1>2. \A u \in http_send_buffer(Alloc(s, PieceBuf(m, 0)), Piece(c, m, 0)) :
        \A v \in FileAfterHeader(u, c, m, n) : Finishes(s0, v, d)
  BY HeaderOwn, FileContentOwn
<1> QED BY <1>1, <1>2 DEF return_file

LEMMA DiagContentOwn ==
  ASSUME NEW k \in Nat, NEW l \in Nat, NEW s0, Good(s0, l), NEW s, NEW d \in Nat,
         NEW c \in Conn, NEW m \in 1..k, NEW n \in Nat \ {0}, State(s0, s, k, d, {}),
         Open(s, d, m, 1, {}), NEW t \in DiagContent(s, c, m, n)
  PROVE  Finishes(s0, t, d)
<1> DEFINE r == Remaining(c, m, "diag", 1, n)
           b == PieceBuf(m, 1)
           p == Piece(c, m, 1)
<1>1. p \in PieceT(k) /\ p.msg = m /\ p.order = 1 /\ BufferOf(p) = b
  BY MessageTypes DEF Piece, BufferOf
<1>2. /\ Finishes(s0, s, d) /\ \A u \in Failure(s, c) : Finishes(s0, u, d)
      /\ \A u \in Faulty(s) : Finishes(s0, u, d)
  BY FailureOwn, CallOwn, EndsFinishes
<1>3. \A u \in http_send_buffer(Alloc(s, b), p) : Finishes(s0, u, d)
  <2> HIDE DEF b, p
  <2> QED BY <1>1, LastOwn, EndsFinishes
<1>4. ASSUME n # 1, ~SplitFull(s)
      PROVE  \A u \in http_send_buffer(PushSplit(Alloc(s, b), RestOf(r)), FirstOf(r)) :
               Finishes(s0, u, d)
  <2>1. /\ r \in RemainderT(k) /\ r.left > 1 /\ r.msg = m /\ r.order = 1 /\ Owes(r) = {}
    <3>1. r \in RemainderT(k) /\ r.left = n
      BY RemainingTypes
    <3>2. r.msg = m /\ r.order = 1 /\ Owes(r) = {}
      BY DEF Remaining, Owes
    <3> QED BY <1>4, <3>1, <3>2
  <2>2. BufferOf(FirstOf(r)) = b
    BY <2>1, ContentFacts
  <2> HIDE DEF r, b
  <2> QED BY <1>4, <2>1, <2>2, CutOwn, EndsFinishes
<1> QED BY <1>2, <1>3, <1>4 DEF DiagContent

LEMMA DiagOwn ==
  ASSUME NEW k \in Nat, NEW l \in Nat, NEW s0, Good(s0, l), NEW s, NEW d \in Nat,
         NEW c \in Conn, NEW m \in 1..k, NEW n \in Nat \ {0}, State(s0, s, k, d, {}),
         Open(s, d, m, 0, {}), NEW t \in getDiagnosticEvents(s, c, m, n)
  PROVE  Finishes(s0, t, d)
<1>1. ASSUME NEW u \in Failure(s, c), NEW v \in DiagContent(u, c, m, n)
      PROVE  Finishes(s0, v, d)
  <2>1. PICK j \in Nat : j >= k /\ State(s0, u, j, d, {}) /\ Others(s, u, d, 0)
    BY <1>1, FailureOwn DEF Ends
  <2>2. Open(u, d, m, 0, {}) /\ m \in 1..j
    <3>1. DOMAIN s.sent = 1..k /\ m # 0 /\ m \in DOMAIN s.sent /\ 0 \in Nat
      BY Entries DEF State
    <3> QED BY <2>1, <3>1 DEF Others
  <2>3. Open(u, d, m, 0 + 1, {})
    BY <2>1, <2>2, Opener DEF State
  <2>4. 0 + 1 = 1
    OBVIOUS
  <2> QED BY <1>1, <2>1, <2>2, <2>3, <2>4, DiagContentOwn
<1>2. \A u \in http_send_buffer(Alloc(s, PieceBuf(m, 0)), Piece(c, m, 0)) :
        \A v \in DiagContent(u, c, m, n) : Finishes(s0, v, d)
  BY HeaderOwn, DiagContentOwn
<1> QED BY <1>1, <1>2 DEF getDiagnosticEvents

(***************************************************************************)
(* The queues are served, cleared, and a send is completed.                *)
(***************************************************************************)
LEMMA TailIs ==
  ASSUME NEW S, NEW q \in Seq(S), q # <<>>
  PROVE  /\ Tail(q) \in Seq(S) /\ DOMAIN q = 1..Len(q) /\ DOMAIN Tail(q) = 1..(Len(q) - 1)
         /\ Len(Tail(q)) = Len(q) - 1 /\ Len(q) \in Nat \ {0} /\ Head(q) = q[1] /\ q[1] \in S
         /\ \A i \in 1..(Len(q) - 1) : Tail(q)[i] = q[i + 1] /\ i + 1 \in 1..Len(q) /\ i + 1 # 1
         /\ \A i \in 1..Len(q) : i = 1 \/ (i - 1 \in 1..(Len(q) - 1) /\ Tail(q)[i - 1] = q[i])
OBVIOUS

\* The head of pending_send is taken off and sent.
LEMMA NextPieceOwn ==
  ASSUME NEW k \in Nat, NEW l \in Nat, NEW s0, Good(s0, l), NEW s,
         State(s0, s, k, 0, {}), ~s.busy, s.pending # <<>>,
         NEW t \in http_send_buffer(s, Head(s.pending))
  PROVE  State(s0, [t EXCEPT !.pending = Tail(@)], k, 0, {})
<1> DEFINE p == Head(s.pending)
           q == Tail(s.pending)
           n == Len(s.pending)
           v == [s EXCEPT !.pending = q]
           u == [t EXCEPT !.pending = q]
           b == BufferOf(p)
<1>0. s \in LayerT(k) /\ Good(s, k) /\ s.pending \in Seq(PieceT(k))
  BY DEF State, Good, LayerT
<1>1. /\ q \in Seq(PieceT(k)) /\ DOMAIN s.pending = 1..n /\ DOMAIN q = 1..(n - 1)
      /\ Len(q) = n - 1 /\ n \in Nat \ {0} /\ p = s.pending[1] /\ p \in PieceT(k)
      /\ \A i \in 1..(n - 1) : q[i] = s.pending[i + 1] /\ i + 1 \in 1..n /\ i + 1 # 1
      /\ \A i \in 1..n : i = 1 \/ (i - 1 \in 1..(n - 1) /\ q[i - 1] = s.pending[i])
  BY <1>0, TailIs
<1> HIDE DEF p, q, n
<1>2. /\ b \in s.heap /\ b[2] = "piece" /\ b \notin s.leaked /\ b[1] = p.msg /\ b[3] = p.order
      /\ \A i \in DOMAIN s.pending : s.pending[i] \in PieceT(k)
  <2>1. b[2] = "piece" /\ b[1] = p.msg /\ b[3] = p.order
    BY <1>1, BufferFacts
  <2>2. Has(s, 0, b)
    BY <1>1 DEF Has
  <2> QED BY <1>0, <2>1, <2>2, Entries DEF State, Mem
<1> HIDE DEF b
<1>3. /\ Good(v, k) /\ v.pending = q /\ v.split = s.split /\ v.busy = s.busy /\ v.buffer = s.buffer
      /\ v.heap = s.heap /\ v.leaked = s.leaked /\ v.bad = s.bad /\ v.sent = s.sent
  <2>1. Len(q) <= MaxPending
    <3>1. n <= MaxPending
      BY <1>0 DEF Good, Caps, n
    <3> QED BY <1>1, <3>1, SendConstants
  <2> QED BY <1>0, <1>1, <2>1 DEF Good, LayerT, Flags, Caps
<1>4. Good(t, k) /\ t.pending = s.pending /\ Alarm(t) /\ Sends(s, t, p)
  <2>1. Good(t, k) /\ t.pending = s.pending /\ Alarm(t)
    BY <1>0, <1>1, SendBufferGood DEF p
  <2>2. Sends(s, t, p)
    BY <1>0, <1>1, <1>2, SendsIs DEF p, b
  <2> QED BY <2>1, <2>2
<1>5. Good(u, k) /\ [t EXCEPT !.pending = Tail(@)] = u
  <2>1. t.pending # <<>>
    BY <1>4
  <2>2. Good([t EXCEPT !.pending = Tail(@)], k)
    BY <1>4, <2>1, PopPending
  <2>3. [t EXCEPT !.pending = Tail(@)] = u
    BY <1>4 DEF q
  <2> QED BY <2>2, <2>3
<1>6. Sends(v, u, p)
  <2>1. /\ u.pending = q /\ u.split = t.split /\ u.buffer = t.buffer
        /\ u.heap = t.heap /\ u.leaked = t.leaked /\ u.bad = t.bad /\ u.sent = t.sent
    BY <1>4 DEF Good, LayerT
  <2> HIDE DEF u, v
  <2> QED BY <1>3, <1>4, <2>1 DEF Sends
<1> HIDE DEF v, u
<1>20. /\ \A i \in DOMAIN q : \E h \in DOMAIN s.pending : q[i] = s.pending[h]
       /\ \A h \in DOMAIN s.pending : s.pending[h] = p \/ \E i \in DOMAIN q : q[i] = s.pending[h]
       /\ p = s.pending[1] /\ 1 \in DOMAIN s.pending
  <2>1. \A i \in 1..(n - 1) : \E h \in 1..n : q[i] = s.pending[h]
    BY <1>1
  <2>2. \A h \in 1..n : s.pending[h] = p \/ \E i \in 1..(n - 1) : q[i] = s.pending[h]
    BY <1>1
  <2>3. 1 \in 1..n
    BY <1>1
  <2> QED BY <1>1, <2>1, <2>2, <2>3
<1>21. DOMAIN s.pending = 1..n /\ DOMAIN q = 1..(n - 1) /\ n \in Nat \ {0}
  BY <1>1
<1>22. \A i \in 1..(n - 1) : q[i] = s.pending[i + 1]
  BY <1>1
<1>7. Ord(v, 0)
  <2>1. \A i \in 1..(n - 1) : v.sent[q[i].msg] <= q[i].order
    BY <1>1, <1>3 DEF State, Ord
  <2>2. \A i, j \in 1..(n - 1) : i < j /\ q[i].msg = q[j].msg => q[i].order < q[j].order
    <3> SUFFICES ASSUME NEW i \in 1..(n - 1), NEW j \in 1..(n - 1), i < j, q[i].msg = q[j].msg
                 PROVE  q[i].order < q[j].order
      OBVIOUS
    <3>1. i + 1 \in DOMAIN s.pending /\ j + 1 \in DOMAIN s.pending /\ i + 1 < j + 1
      BY <1>21
    <3>2. q[i] = s.pending[i + 1] /\ q[j] = s.pending[j + 1]
      BY <1>22
    <3> QED BY <3>1, <3>2 DEF State, Ord
  <2>3. \A i \in DOMAIN s.split : i > 0 => Behind(v, s.split[i])
    <3>1. \A r : Behind(s, r) => Behind(v, r)
      <4> SUFFICES ASSUME NEW r, Behind(s, r) PROVE Behind(v, r)
        OBVIOUS
      <4>1. \A i \in DOMAIN q : q[i].msg = r.msg => q[i].order < r.order
        BY <1>20 DEF Behind
      <4> QED BY <1>3, <4>1 DEF Behind
    <3> QED BY <3>1 DEF State, Ord
  <2>4. \A i \in DOMAIN v.pending : v.sent[v.pending[i].msg] <= v.pending[i].order
    BY <1>3, <1>21, <2>1
  <2>5. \A i, j \in DOMAIN v.pending :
          i < j /\ v.pending[i].msg = v.pending[j].msg => v.pending[i].order < v.pending[j].order
    BY <1>3, <1>21, <2>2
  <2> QED BY <1>3, <2>3, <2>4, <2>5 DEF State, Ord
<1>8. \A i \in 1..(n - 1) : /\ BufferOf(q[i]) # b
                            /\ q[i].msg = p.msg => p.order < q[i].order
  <2> SUFFICES ASSUME NEW i \in 1..(n - 1)
               PROVE  /\ BufferOf(q[i]) # b
                      /\ q[i].msg = p.msg => p.order < q[i].order
    OBVIOUS
  <2>1. /\ i + 1 \in DOMAIN s.pending /\ 1 \in DOMAIN s.pending /\ 1 < i + 1
        /\ q[i] = s.pending[i + 1] /\ p = s.pending[1]
    BY <1>1
  <2>2. s.pending[1].msg = s.pending[i + 1].msg => s.pending[1].order < s.pending[i + 1].order
    BY <2>1 DEF State, Ord
  <2>3. q[i] \in PieceT(k) /\ p \in PieceT(k) /\ q[i].order \in Nat /\ p.order \in Nat
    BY <1>2, <2>1 DEF PieceT
  <2>4. q[i].msg = p.msg => p.order < q[i].order
    BY <2>1, <2>2
  <2>5. BufferOf(q[i]) = BufferOf(p) => q[i].msg = p.msg /\ q[i].order = p.order
    BY <2>3, BufferFacts
  <2> QED BY <2>3, <2>4, <2>5 DEF b
<1>9. Mem(v, 0, {b})
  <2>3. \A x : Has(v, 0, x) => Has(s, 0, x)
    BY <1>3, <1>20 DEF Has
  <2>4. \A x : Has(s, 0, x) => x = b \/ Has(v, 0, x)
    BY <1>3, <1>20 DEF Has, b
  <2>5. ~Has(v, 0, b)
    <3>1. v.buffer = NoPiece
      BY <1>0, <1>3 DEF Good, Flags
    <3>2. \A i \in DOMAIN s.split : ContentOf(s.split[i])[2] # "piece"
      BY <1>0, Entries, ContentFacts
    <3> QED BY <1>1, <1>2, <1>3, <1>8, <3>1, <3>2 DEF Has
  <2> QED BY <1>2, <1>3, <2>3, <2>4, <2>5 DEF State, Mem
<1>10. State(s0, v, k, 0, {b})
  <2>1. InOrder(s0, v) /\ Len(v.split) >= 0
    BY <1>3 DEF State, InOrder
  <2> QED BY <1>3, <1>7, <1>9, <2>1 DEF State
<1>11. NextUp(v, 0, p)
  <2>1. v.sent[p.msg] <= p.order
    <3>1. 1 \in DOMAIN s.pending
      BY <1>1
    <3> QED BY <1>1, <1>3, <3>1 DEF State, Ord
  <2>2. \A i \in DOMAIN s.split : i > 0 /\ s.split[i].msg = p.msg => p.order < s.split[i].order
    <3>1. 1 \in DOMAIN s.pending
      BY <1>1
    <3> QED BY <1>1, <3>1 DEF State, Ord, Behind
  <2> QED BY <1>1, <1>3, <1>8, <2>1, <2>2 DEF NextUp
<1>12. State(s0, u, k, 0, {b} \ {b})
  BY <1>1, <1>3, <1>5, <1>6, <1>10, <1>11, SendsOwn DEF b
<1>13. {b} \ {b} = {}
  OBVIOUS
<1> QED BY <1>5, <1>12, <1>13

\* The head of the split queue is in the hands of the action that serves it,
LEMMA TakeHead ==
  ASSUME NEW k \in Nat, NEW s0, NEW s, State(s0, s, k, 0, {}), s.pending = <<>>, s.split # <<>>,
         NEW r, r = Head(s.split)
  PROVE  /\ r \in RemainderT(k) /\ State(s0, s, k, 1, Owes(r))
         /\ Open(s, 1, r.msg, r.order, Owes(r))
<1> DEFINE n == Len(s.split)
<1>0. Good(s, k) /\ s.split \in Seq(RemainderT(k))
  BY DEF State, Good, LayerT
<1>1. DOMAIN s.split = 1..n /\ n \in Nat \ {0} /\ r = s.split[1] /\ r \in RemainderT(k) /\ n >= 1
  <2>1. DOMAIN s.split = 1..n /\ n \in Nat \ {0} /\ r = s.split[1] /\ r \in RemainderT(k)
    BY <1>0, TailIs
  <2> QED BY <2>1
<1> HIDE DEF n
<1>2. Behind(s, r) /\ \A i \in DOMAIN s.split : i > 1 => s.split[i].msg # r.msg
  BY <1>1 DEF State, Ord
<1>3. DOMAIN s.pending = {}
  OBVIOUS
<1>4. Open(s, 1, r.msg, r.order, Owes(r))
  <2>1. ASSUME NEW b \in s.heap, b[1] = r.msg
        PROVE  b \in Owes(r) \/ (b[2] = "piece" /\ b[3] < r.order)
    <3>1. b = ContentOf(r) \/ (b[2] = "piece" /\ b[3] < r.order)
      BY <1>2, <2>1 DEF Behind
    <3>2. b[2] # "literal"
      BY DEF State, Mem
    <3> QED BY <1>1, <3>1, <3>2, ContentFacts DEF Owes
  <2> QED BY <1>2, <1>3, <2>1 DEF Open, Behind
<1>5. Ord(s, 1)
  <2>1. \A i \in DOMAIN s.split : i > 1 => i > 0
    BY <1>1
  <2>2. \A i, j \in DOMAIN s.split : 1 < i /\ i < j => s.split[i].msg # s.split[j].msg
    <3>1. \A i \in DOMAIN s.split : 1 < i => 0 < i
      BY <1>1
    <3> QED BY <3>1 DEF State, Ord
  <2>3. \A i \in DOMAIN s.split : i > 1 => Behind(s, s.split[i])
    BY <2>1 DEF State, Ord
  <2> QED BY <2>2, <2>3 DEF State, Ord
<1>6. Mem(s, 1, Owes(r))
  <2> DEFINE c == ContentOf(r)
  <2>1. \A x : Has(s, 1, x) => Has(s, 0, x)
    <3>1. \A i \in DOMAIN s.split : i > 1 => i > 0
      BY <1>1
    <3> QED BY <3>1 DEF Has
  <2>2. \A x : Has(s, 0, x) => x = c \/ Has(s, 1, x)
    <3>1. \A i \in DOMAIN s.split : i = 1 \/ i > 1
      BY <1>1
    <3> QED BY <1>1, <3>1 DEF Has
  <2>3. Has(s, 0, c)
    <3>1. 1 \in DOMAIN s.split /\ 1 > 0
      BY <1>1
    <3> QED BY <1>1, <3>1 DEF Has
  <2>4. ~Has(s, 1, c)
    <3>1. \A i \in DOMAIN s.split : s.split[i] \in RemainderT(k)
      BY <1>0, Entries
    <3>2. \A i \in DOMAIN s.split : i > 1 => ContentOf(s.split[i]) # c
      BY <1>1, <1>2, <3>1, ContentFacts
    <3>3. s.buffer # NoPiece => BufferOf(s.buffer) # c
      <4>1. s.buffer # NoPiece => BufferOf(s.buffer)[2] = "piece"
        BY DEF BufferOf, PieceBuf
      <4>2. c[2] # "piece"
        BY <1>1, ContentFacts
      <4> QED BY <4>1, <4>2
    <3> QED BY <1>3, <3>2, <3>3 DEF Has
  <2>5. c[2] = "literal" <=> r.kind = "diag"
    BY <1>1, ContentFacts
  <2> HIDE DEF c
  <2>6. CASE r.kind = "diag"
    <3>1. Owes(r) = {}
      BY <2>6 DEF Owes
    <3> QED BY <2>1, <2>2, <2>5, <2>6, <3>1 DEF State, Mem
  <2>7. CASE r.kind # "diag"
    <3>1. Owes(r) = {c}
      BY <2>7 DEF Owes, c
    <3> QED BY <2>1, <2>2, <2>3, <2>4, <2>5, <2>7, <3>1 DEF State, Mem
  <2> QED BY <2>6, <2>7
<1>7. InOrder(s0, s) /\ Len(s.split) >= 1
  BY <1>1 DEF State, n
<1> QED BY <1>0, <1>1, <1>4, <1>5, <1>6, <1>7 DEF State

\* and is taken off when that is done.
LEMMA DropHead ==
  ASSUME NEW k \in Nat, NEW s0, NEW s, State(s0, s, k, 1, {})
  PROVE  State(s0, [s EXCEPT !.split = Tail(@)], k, 0, {})
<1> DEFINE q == Tail(s.split)
           n == Len(s.split)
           t == [s EXCEPT !.split = q]
<1>0. s \in LayerT(k) /\ Good(s, k) /\ s.split \in Seq(RemainderT(k)) /\ s.split # <<>>
  BY DEF State, Good, LayerT
<1>1. /\ q \in Seq(RemainderT(k)) /\ DOMAIN s.split = 1..n /\ DOMAIN q = 1..(n - 1)
      /\ Len(q) = n - 1 /\ n \in Nat \ {0}
      /\ \A i \in 1..(n - 1) : q[i] = s.split[i + 1] /\ i + 1 \in 1..n /\ i + 1 # 1
      /\ \A i \in 1..n : i = 1 \/ (i - 1 \in 1..(n - 1) /\ q[i - 1] = s.split[i])
  BY <1>0, TailIs
<1> HIDE DEF q, n
<1>3. /\ Good(t, k) /\ t.split = q /\ t.pending = s.pending /\ t.busy = s.busy /\ t.buffer = s.buffer
      /\ t.heap = s.heap /\ t.leaked = s.leaked /\ t.bad = s.bad /\ t.sent = s.sent
  <2>1. Len(q) <= MaxSplit
    <3>1. n <= MaxSplit
      BY <1>0 DEF Good, Caps, n
    <3> QED BY <1>1, <3>1, SendConstants
  <2> QED BY <1>0, <1>1, <2>1 DEF Good, LayerT, Flags, Caps
<1>4. [s EXCEPT !.split = Tail(@)] = t
  BY DEF q
<1> HIDE DEF t
<1>5. \A i \in 1..(n - 1) : i + 1 > 1 /\ i + 1 \in DOMAIN s.split /\ q[i] = s.split[i + 1]
  BY <1>1
<1>6. Ord(t, 0)
  <2>1. \A i \in DOMAIN q : i > 0 => Behind(t, q[i])
    <3>1. \A r : Behind(s, r) => Behind(t, r)
      BY <1>3 DEF Behind
    <3>2. \A i \in DOMAIN q : Behind(s, q[i])
      BY <1>1, <1>5 DEF State, Ord
    <3> QED BY <3>1, <3>2
  <2>2. \A i, j \in DOMAIN q : 0 < i /\ i < j => q[i].msg # q[j].msg
    <3> SUFFICES ASSUME NEW i \in 1..(n - 1), NEW j \in 1..(n - 1), i < j
                 PROVE  q[i].msg # q[j].msg
      BY <1>1
    <3>1. 1 < i + 1 /\ i + 1 < j + 1
      BY <1>1
    <3> QED BY <1>5, <3>1 DEF State, Ord
  <2> QED BY <1>3, <2>1, <2>2 DEF State, Ord
<1>7. Mem(t, 0, {})
  <2>1. \A x : Has(t, 0, x) => Has(s, 1, x)
    <3>1. \A i \in DOMAIN q : \E j \in DOMAIN s.split : j > 1 /\ s.split[j] = q[i]
      BY <1>1, <1>5
    <3> QED BY <1>3, <3>1 DEF Has
  <2>2. \A i \in 1..n : i > 1 => \E j \in 1..(n - 1) : j > 0 /\ q[j] = s.split[i]
    <3> SUFFICES ASSUME NEW i \in 1..n, i > 1 PROVE \E j \in 1..(n - 1) : j > 0 /\ q[j] = s.split[i]
      OBVIOUS
    <3>1. i - 1 \in 1..(n - 1) /\ q[i - 1] = s.split[i] /\ i - 1 > 0
      BY <1>1
    <3> QED BY <3>1
  <2>3. \A x : Has(s, 1, x) => Has(t, 0, x)
    <3>1. \A i \in DOMAIN s.split : i > 1 => \E j \in DOMAIN q : j > 0 /\ q[j] = s.split[i]
      BY <1>1, <2>2
    <3> QED BY <1>3, <3>1 DEF Has
  <2> QED BY <1>3, <2>1, <2>3 DEF State, Mem
<1>8. InOrder(s0, t) /\ Len(t.split) >= 0
  BY <1>1, <1>3 DEF State, InOrder
<1> QED BY <1>3, <1>4, <1>6, <1>7, <1>8 DEF State

LEMMA ClearOwn ==
  ASSUME NEW k \in Nat, NEW s0, NEW s, State(s0, s, k, 0, {})
  PROVE  State(s0, ClearQueues(s), k, 0, {})
<1> DEFINE t == ClearQueues(s)
<1>0. s \in LayerT(k) /\ Good(s, k) /\ Good(t, k)
  BY ClearGood DEF State, Good
<1>1. /\ t.pending = <<>> /\ t.split = <<>> /\ t.buffer = s.buffer /\ t.sent = s.sent
      /\ t.heap = s.heap \ Queued(s) /\ t.bad = s.bad \cup (Queued(s) \ s.heap)
      /\ t.leaked = s.leaked
  BY <1>0 DEF ClearQueues, LayerT
<1>2. DOMAIN t.pending = {} /\ DOMAIN t.split = {} /\ Len(t.split) = 0
  BY <1>1
<1> HIDE DEF t
<1>3. \A x : Has(s, 0, x) <=> x \in Queued(s) \/ (s.buffer # NoPiece /\ x = BufferOf(s.buffer))
  <2>1. \A i \in DOMAIN s.split : i > 0
    BY <1>0, Entries
  <2>2. \A x : x \in Queued(s) <=> \/ \E i \in DOMAIN s.pending : x = BufferOf(s.pending[i])
                                   \/ \E i \in DOMAIN s.split : x = ContentOf(s.split[i])
    BY DEF Queued, Elements
  <2> QED BY <2>1, <2>2 DEF Has
<1>4. s.buffer # NoPiece => BufferOf(s.buffer) \notin Queued(s)
  <2> SUFFICES ASSUME s.buffer # NoPiece PROVE BufferOf(s.buffer) \notin Queued(s)
    OBVIOUS
  <2>1. s.buffer \in PieceT(k) /\ BufferOf(s.buffer)[2] = "piece"
    BY <1>0, Entries, BufferFacts
  <2>2. ASSUME NEW i \in DOMAIN s.pending PROVE BufferOf(s.buffer) # BufferOf(s.pending[i])
    <3>1. s.pending[i] \in PieceT(k) /\ s.sent[s.buffer.msg] \in Nat
      BY <1>0, <2>1, Entries DEF PieceT
    <3>2. s.buffer.order < s.sent[s.buffer.msg] /\ s.sent[s.pending[i].msg] <= s.pending[i].order
      BY DEF State, Ord
    <3>3. s.buffer.order \in Nat /\ s.pending[i].order \in Nat
      BY <2>1, <3>1 DEF PieceT
    <3>4. s.buffer.msg = s.pending[i].msg => s.buffer.order # s.pending[i].order
      BY <3>1, <3>2, <3>3
    <3> QED BY <2>1, <3>1, <3>4, BufferFacts
  <2>3. \A i \in DOMAIN s.split : ContentOf(s.split[i])[2] # "piece"
    BY <1>0, Entries, ContentFacts
  <2> QED BY <2>1, <2>2, <2>3 DEF Queued, Elements
<1>5. \A x : Has(t, 0, x) <=> s.buffer # NoPiece /\ x = BufferOf(s.buffer)
  BY <1>1, <1>2 DEF Has
<1>6. Mem(t, 0, {})
  <2>1. \A x \in Queued(s) : x[2] # "literal" => x \in s.heap \ s.leaked
    BY <1>3 DEF State, Mem
  <2>2. t.leaked \subseteq t.heap
    <3>1. \A x \in s.leaked : x \notin Queued(s)
      BY <2>1 DEF State, Mem
    <3> QED BY <1>1, <3>1 DEF State, Mem
  <2>3. \A x \in t.bad : x[2] = "literal"
    BY <1>1, <2>1 DEF State, Mem
  <2>4. \A x : Has(t, 0, x) /\ x[2] # "literal" => x \in t.heap \ t.leaked
    BY <1>1, <1>3, <1>4, <1>5 DEF State, Mem
  <2>5. \A x \in t.heap \ t.leaked : Has(t, 0, x)
    BY <1>1, <1>3, <1>5 DEF State, Mem
  <2> QED BY <1>1, <2>2, <2>3, <2>4, <2>5 DEF State, Mem
<1>7. Ord(t, 0) /\ InOrder(s0, t)
  BY <1>1, <1>2 DEF State, Ord, InOrder
<1> QED BY <1>0, <1>2, <1>6, <1>7 DEF State, t

LEMMA CompletedOwn ==
  ASSUME NEW k \in Nat, NEW s0, NEW s, State(s0, s, k, 0, {}), NEW aw \in SUBSET Conn,
         ~LateSentCb => aw = {}
  PROVE  State(s0, [Completed(s) EXCEPT !.awaiting = aw], k, 0, {})
<1> DEFINE b == BufferOf(s.buffer)
           f == IF s.buffer = NoPiece THEN s ELSE Free(s, b)
           g == [f EXCEPT !.timer = FALSE, !.buffer = NoPiece, !.busy = FALSE]
           t == [Post(g) EXCEPT !.awaiting = aw]
<1>0. s \in LayerT(k) /\ Good(s, k)
  BY DEF State, Good
<1>1. Good(t, k) /\ [Completed(s) EXCEPT !.awaiting = aw] = t
  <2>1. Good([Completed(s) EXCEPT !.awaiting = aw], k)
    BY <1>0, CompletedGood
  <2> QED BY <2>1 DEF Completed
<1>2. s.buffer # NoPiece => b \in s.heap /\ b[2] = "piece" /\ s.buffer \in PieceT(k)
  <2>1. s.buffer # NoPiece => b[2] = "piece" /\ Has(s, 0, b)
    BY DEF BufferOf, PieceBuf, Has
  <2> QED BY <1>0, <2>1, Entries DEF State, Mem
<1> HIDE DEF b
<1>3. /\ f.pending = s.pending /\ f.split = s.split /\ f.leaked = s.leaked /\ f.bad = s.bad
      /\ f.sent = s.sent /\ f.heap = IF s.buffer = NoPiece THEN s.heap ELSE s.heap \ {b}
      /\ f \in LayerT(k)
  <2>1. CASE s.buffer = NoPiece
    BY <1>0, <2>1
  <2>2. CASE s.buffer # NoPiece
    <3>1. f = [s EXCEPT !.heap = s.heap \ {b}, !.bad = s.bad]
      BY <1>0, <1>2, <2>2 DEF Free
    <3> QED BY <1>0, <2>2, <3>1 DEF LayerT
  <2> QED BY <2>1, <2>2
<1> HIDE DEF f
<1>4. /\ g.pending = f.pending /\ g.split = f.split /\ g.leaked = f.leaked /\ g.bad = f.bad
      /\ g.sent = f.sent /\ g.heap = f.heap /\ g.buffer = NoPiece /\ DOMAIN g = DOMAIN f
  BY <1>3 DEF LayerT
<1> HIDE DEF g
<1>5. /\ t.pending = g.pending /\ t.split = g.split /\ t.leaked = g.leaked /\ t.bad = g.bad
      /\ t.sent = g.sent /\ t.heap = g.heap /\ t.buffer = NoPiece
  BY <1>3, <1>4 DEF Post, LayerT
<1> HIDE DEF t
<1>6. /\ t.pending = s.pending /\ t.split = s.split /\ t.leaked = s.leaked /\ t.bad = s.bad
      /\ t.sent = s.sent /\ t.buffer = NoPiece
      /\ t.heap = IF s.buffer = NoPiece THEN s.heap ELSE s.heap \ {b}
  BY <1>3, <1>4, <1>5
<1>7. Ord(t, 0) /\ InOrder(s0, t) /\ Len(t.split) >= 0
  <2>1. \A r : Behind(s, r) => Behind(t, r)
    BY <1>6 DEF Behind
  <2> QED BY <1>6, <2>1 DEF State, Ord, InOrder
<1>8. Mem(t, 0, {})
  <2>1. CASE s.buffer = NoPiece
    <3>1. \A x : Has(t, 0, x) <=> Has(s, 0, x)
      BY <1>6, <2>1 DEF Has
    <3> QED BY <1>6, <2>1, <3>1 DEF State, Mem
  <2>2. CASE s.buffer # NoPiece
    <3>1. ASSUME NEW i \in DOMAIN s.pending PROVE b # BufferOf(s.pending[i])
      <4>1. /\ s.pending[i] \in PieceT(k) /\ s.sent[s.buffer.msg] \in Nat
            /\ s.buffer \in PieceT(k)
        BY <1>0, <1>2, <2>2, Entries DEF PieceT
      <4>2. s.buffer.order < s.sent[s.buffer.msg] /\ s.sent[s.pending[i].msg] <= s.pending[i].order
        BY <2>2 DEF State, Ord
      <4>3. s.buffer.order \in Nat /\ s.pending[i].order \in Nat
        BY <4>1 DEF PieceT
      <4>4. s.buffer.msg = s.pending[i].msg => s.buffer.order # s.pending[i].order
        BY <4>1, <4>2, <4>3
      <4> QED BY <4>1, <4>4, BufferFacts DEF b
    <3>2. \A i \in DOMAIN s.split : ContentOf(s.split[i]) # b
      BY <1>0, <1>2, <2>2, Entries, ContentFacts
    <3>3. \A x : Has(t, 0, x) <=> Has(s, 0, x) /\ x # b
      BY <1>6, <2>2, <3>1, <3>2 DEF Has, b
    <3>4. Has(s, 0, b)
      BY <2>2 DEF Has, b
    <3> QED BY <1>2, <1>6, <2>2, <3>3, <3>4, Drops DEF State
  <2> QED BY <2>1, <2>2
<1> QED BY <1>1, <1>7, <1>8 DEF State

LEMMA CheckOwn ==
  ASSUME NEW k \in Nat, NEW l \in Nat, NEW s0, Good(s0, l), NEW s, State(s0, s, k, 0, {}),
         NEW up \in BOOLEAN, NEW t \in http_check_pending_send(s, up)
  PROVE  Finishes(s0, t, 0)
<1>1. State(s0, ClearQueues(s), k, 0, {})
  BY ClearOwn
<1>2. CASE t \in {ClearQueues(s), s}
  BY <1>1, <1>2 DEF Finishes
<1>3. ASSUME s.pending # <<>>, ~s.busy, NEW u \in http_send_buffer(s, Head(s.pending)),
             t = [u EXCEPT !.pending = Tail(@)]
      PROVE  Finishes(s0, t, 0)
  <2>1. State(s0, t, k, 0, {})
    BY <1>3, NextPieceOwn
  <2> QED BY <2>1 DEF Finishes
<1>4. ASSUME s.pending = <<>>, s.split # <<>>, NEW u \in SplitAction(s, Head(s.split)),
             t = [u EXCEPT !.split = Tail(@)]
      PROVE  Finishes(s0, t, 0)
  <2> DEFINE r == Head(s.split)
  <2>1. /\ r \in RemainderT(k) /\ State(s0, s, k, 1, Owes(r))
        /\ Open(s, 1, r.msg, r.order, Owes(r))
    BY <1>4, TakeHead
  <2>2. Finishes(s0, u, 1)
    BY <1>4, <2>1, SplitActionOwn
  <2>3. PICK j \in Nat : State(s0, u, j, 1, {})
    BY <2>2 DEF Finishes
  <2>4. State(s0, t, j, 0, {})
    BY <1>4, <2>3, DropHead
  <2> QED BY <2>4 DEF Finishes
<1> QED BY <1>2, <1>3, <1>4 DEF http_check_pending_send

(***************************************************************************)
(* The invariant: nothing is in hand between two handlers.                 *)
(***************************************************************************)
OwnInv == (\E k \in Nat : State(Layer, Layer, k, 0, {})) /\ server \in {"up", "down"}

LEMMA Refreshed ==
  ASSUME NEW k \in Nat, NEW s0, NEW s, NEW d, NEW H, State(s0, s, k, d, H)
  PROVE  State(s, s, k, d, H)
<1>1. \A m \in DOMAIN s.sent : s.sent[m] <= s.sent[m]
  BY Entries DEF State
<1> QED BY <1>1 DEF State, InOrder

LEMMA BecomesIt ==
  ASSUME NEW t, Finishes(Layer, t, 0), Become(t)
  PROVE  Layer' = t
<1>1. PICK k \in Nat : Good(t, k)
  BY DEF Finishes, State
<1>2. t = [pending |-> t.pending, split |-> t.split, busy |-> t.busy,
           buffer |-> t.buffer, timer |-> t.timer, tasks |-> t.tasks,
           state |-> t.state, awaiting |-> t.awaiting, heap |-> t.heap,
           leaked |-> t.leaked, bad |-> t.bad, missed |-> t.missed,
           faults |-> t.faults, sent |-> t.sent]
  BY <1>1 DEF Good, LayerT
<1> QED BY <1>2 DEF Layer, Become

LEMMA InitOwn == Init => OwnInv
<1> SUFFICES ASSUME Init PROVE OwnInv
  OBVIOUS
<1>1. PICK k \in Nat : Good(Layer, k)
  BY InitInv DEF Inv, Sound
<1>2. /\ Layer.pending = <<>> /\ Layer.split = <<>> /\ Layer.buffer = NoPiece
      /\ Layer.heap = {} /\ Layer.leaked = {} /\ Layer.bad = {}
  BY DEF Init, Layer
<1> HIDE DEF Layer
<1>3. DOMAIN Layer.pending = {} /\ DOMAIN Layer.split = {} /\ Len(Layer.split) >= 0
  BY <1>2
<1>4. Ord(Layer, 0) /\ Mem(Layer, 0, {})
  BY <1>2, <1>3 DEF Ord, Mem, Has
<1>5. InOrder(Layer, Layer)
  <2>1. \A m \in DOMAIN Layer.sent : Layer.sent[m] <= Layer.sent[m]
    BY <1>1, Entries
  <2> QED BY <2>1 DEF InOrder
<1> QED BY <1>1, <1>3, <1>4, <1>5 DEF OwnInv, State, Init

LEMMA MessageOwn ==
  ASSUME NEW k \in Nat, State(Layer, Layer, k, 0, {}), NEW c \in Conn, NEW n \in Nat,
         Respond(c, n) \/ SendFile(c, n) \/ SendEvents(c, n) \/ SendRequest(c, n)
  PROVE  \E t : Finishes(Layer, t, 0) /\ Become(t)
<1> DEFINE s == NewMessage(Layer)
           w == Alloc(s, TextOf(Fresh, n))
<1>1. Fresh = k + 1 /\ k + 1 \in 1..(k + 1) /\ k + 1 \in Nat /\ 0 \in Nat /\ Good(Layer, k)
  BY DEF State, Fresh, Good, Layer
<1>2. State(Layer, s, k + 1, 0, {}) /\ Open(s, 0, Fresh, 0, {})
  BY <1>1, NewMessageOwn
<1>3. ASSUME n \in Nat \ {0}
      PROVE  State(Layer, w, k + 1, 0, {TextOf(Fresh, n)}) /\ Open(w, 0, Fresh, 0, {TextOf(Fresh, n)})
  <2> DEFINE b == TextOf(Fresh, n)
  <2>1. b \in BufferT(k + 1) /\ b[1] = Fresh /\ b[2] # "literal"
    BY <1>1, MessageTypes DEF TextOf, PieceBuf
  <2>2. b[2] = "piece" => b[3] = 1
    BY DEF TextOf, PieceBuf
  <2> HIDE DEF b, s
  <2>3. b \notin s.heap
    BY <1>2, <2>1, <2>2 DEF Open
  <2>4. /\ State(Layer, Alloc(s, b), k + 1, 0, {} \cup {b})
        /\ \A o \in Nat : \A G : Open(s, 0, b[1], o, G) => Open(Alloc(s, b), 0, b[1], o, G \cup {b})
    <3>1. Open(s, 0, b[1], 0, {})
      BY <1>2, <2>1
    <3> QED BY <1>1, <1>2, <2>1, <2>3, <3>1, AllocOwn
  <2>5. {} \cup {b} = {b} /\ Open(Alloc(s, b), 0, b[1], 0, {} \cup {b})
    BY <1>1, <1>2, <2>1, <2>4
  <2> QED BY <2>1, <2>4, <2>5 DEF b
<1> HIDE DEF s, w
<1>4. CASE Respond(c, n)
  <2> DEFINE v == IF n = 0 THEN s ELSE w
             H == IF n = 0 THEN {} ELSE {TextOf(Fresh, n)}
  <2>1. PICK t \in http_response(v, c, Fresh, n) : Become(t)
    BY <1>4 DEF Respond, s, w
  <2>2. State(Layer, v, k + 1, 0, H) /\ Open(v, 0, Fresh, 0, H)
    BY <1>2, <1>3
  <2>3. State(Layer, t, k + 1, 0, {})
    <3> HIDE DEF v
    <3>1. t \in http_response(v, c, Fresh, n)
      BY <2>1
    <3>2. H = IF n = 0 THEN {} ELSE {TextOf(Fresh, n)}
      OBVIOUS
    <3> HIDE DEF H
    <3> QED BY <1>1, <2>2, <3>1, <3>2, ResponseOwn
  <2> QED BY <1>1, <2>1, <2>3 DEF Finishes
<1>5. CASE SendFile(c, n)
  <2>1. PICK t \in return_file(s, c, Fresh, n) : Become(t)
    BY <1>5 DEF SendFile, s
  <2>2. Finishes(Layer, t, 0)
    BY <1>1, <1>2, <2>1, FileOwn
  <2> QED BY <2>1, <2>2
<1>6. CASE SendEvents(c, n)
  <2>1. PICK t \in getDiagnosticEvents(s, c, Fresh, n) : Become(t)
    BY <1>6 DEF SendEvents, s
  <2>2. n \in Nat \ {0}
    BY <1>6 DEF SendEvents
  <2>3. Finishes(Layer, t, 0)
    BY <1>1, <1>2, <2>1, <2>2, DiagOwn
  <2> QED BY <2>1, <2>3
<1>7. CASE SendRequest(c, n)
  <2>1. PICK t \in http_send(w, c, Fresh, n) : Become(t)
    BY <1>7 DEF SendRequest, s, w
  <2>2. n \in Nat \ {0}
    BY <1>7 DEF SendRequest
  <2>3. State(Layer, w, k + 1, 0, {TextOf(Fresh, n)}) /\ Open(w, 0, Fresh, 0 + 1, {TextOf(Fresh, n)})
    BY <1>1, <1>3, <2>2, Opener DEF State
  <2>4. State(Layer, t, k + 1, 0, {})
    <3>1. Open(w, 0, Fresh, 1, {TextOf(Fresh, n)})
      BY <2>3
    <3> QED BY <1>1, <2>1, <2>2, <2>3, <3>1, HttpSendOwn
  <2> QED BY <1>1, <2>1, <2>4 DEF Finishes
<1> QED BY <1>4, <1>5, <1>6, <1>7

LEMMA StoreOwn ==
  ASSUME NEW k \in Nat, NEW s, State(s, s, k, 0, {}), NEW t, Store(s, t), Good(t, k)
  PROVE  State(s, t, k, 0, {})
BY StoreKept

LEMMA NextOwn == OwnInv /\ [Next]_vars => Finishes(Layer, Layer', 0) /\ OwnInv'
<1> SUFFICES ASSUME OwnInv, [Next]_vars PROVE Finishes(Layer, Layer', 0) /\ OwnInv'
  OBVIOUS
<1>1. PICK k \in Nat : State(Layer, Layer, k, 0, {})
  BY DEF OwnInv
<1>2. Good(Layer, k)
  BY <1>1 DEF State
<1>3. ASSUME \E t : Finishes(Layer, t, 0) /\ Become(t), server' \in {"up", "down"}
      PROVE  Finishes(Layer, Layer', 0) /\ OwnInv'
  <2>1. PICK t : Finishes(Layer, t, 0) /\ Become(t)
    BY <1>3
  <2>2. Layer' = t
    BY <2>1, BecomesIt
  <2>3. PICK j \in Nat : State(Layer, t, j, 0, {})
    BY <2>1 DEF Finishes
  <2>4. State(t, t, j, 0, {})
    BY <2>3, Refreshed
  <2> QED BY <1>3, <2>1, <2>2, <2>4 DEF OwnInv
<1>4. \A t : State(Layer, t, k, 0, {}) => Finishes(Layer, t, 0)
  BY DEF Finishes
<1>5. server \in {"up", "down"} /\ (UNCHANGED server => server' \in {"up", "down"})
  BY DEF OwnInv
<1>6. ASSUME NEW c \in Conn, NEW n \in Sizes,
             Respond(c, n) \/ SendFile(c, n) \/ SendEvents(c, n) \/ SendRequest(c, n)
      PROVE  Finishes(Layer, Layer', 0) /\ OwnInv'
  <2>1. n \in Nat /\ UNCHANGED server
    BY <1>6, SendConstants DEF Respond, SendFile, SendEvents, SendRequest
  <2> QED BY <1>1, <1>3, <1>5, <1>6, <2>1, MessageOwn
<1>7. CASE RunTask
  <2> DEFINE q == Tail(tasks)
             s == [Layer EXCEPT !.tasks = q]
  <2>1. q \in Seq({"check", "other"}) /\ Len(q) <= TaskQueueLen
    <3>1. tasks \in Seq({"check", "other"}) /\ tasks # <<>> /\ Len(tasks) <= TaskQueueLen
      BY <1>2, <1>7 DEF RunTask, Good, LayerT, Layer, Caps
    <3>2. q \in Seq({"check", "other"}) /\ Len(q) = Len(tasks) - 1
      BY <3>1
    <3> QED BY <3>1, <3>2, SendConstants
  <2>2. PICK t \in (IF Head(tasks) = "check" THEN http_check_pending_send(s, server = "up")
                    ELSE {s}) : Become(t)
    BY <1>7 DEF RunTask, Layer
  <2> HIDE DEF q
  <2>3. Good(s, k)
    BY <1>2, <2>1, TasksUpdate
  <2>4. Store(Layer, s)
    BY <1>2 DEF Good, LayerT, Store
  <2> HIDE DEF s
  <2>5. State(Layer, s, k, 0, {})
    BY <1>1, <2>3, <2>4, StoreOwn
  <2>6. Finishes(Layer, t, 0)
    <3>1. \A u \in http_check_pending_send(s, server = "up") : Finishes(Layer, u, 0)
      BY <1>2, <2>5, CheckOwn
    <3> QED BY <1>4, <2>2, <2>5, <3>1
  <2>7. UNCHANGED server
    BY <1>7 DEF RunTask
  <2> QED BY <1>3, <1>5, <2>2, <2>6, <2>7
<1>8. CASE PostOther
  <2> DEFINE q == Append(tasks, "other")
             s == [Layer EXCEPT !.tasks = q]
  <2>1. q \in Seq({"check", "other"}) /\ Len(q) <= TaskQueueLen
    BY <1>2, <1>8, SendConstants DEF PostOther, Good, LayerT, Layer
  <2>2. Become(s) /\ UNCHANGED server
    BY <1>8 DEF PostOther, Layer
  <2> HIDE DEF q
  <2>3. Good(s, k)
    BY <1>2, <2>1, TasksUpdate
  <2>4. Store(Layer, s)
    BY <1>2 DEF Good, LayerT, Store
  <2> HIDE DEF s
  <2> QED BY <1>1, <1>3, <1>4, <1>5, <2>2, <2>3, <2>4, StoreOwn
<1>9. ASSUME NEW c \in Conn, SentCb(c) PROVE Finishes(Layer, Layer', 0) /\ OwnInv'
  <2> DEFINE aw == awaiting \ {c}
             s  == [Completed(Layer) EXCEPT !.awaiting = aw]
             st == [s.state EXCEPT ![c] = "CONNECT"]
             t  == [s EXCEPT !.state = st]
  <2>1. aw \in SUBSET Conn /\ (~LateSentCb => aw = {})
    BY <1>2, <1>9 DEF SentCb, Good, LayerT, Flags, Layer
  <2>2. Completed(Layer).awaiting = awaiting
    BY DEF Completed, Post, Free, Layer
  <2>3. Become([Completed(Layer) EXCEPT !.awaiting = aw, !.state[c] = "CONNECT"])
        /\ UNCHANGED server
    BY <1>9, <2>2 DEF SentCb
  <2> HIDE DEF aw
  <2>4. State(Layer, s, k, 0, {})
    BY <1>1, <2>1, CompletedOwn
  <2>5. Become(t)
    BY <2>3
  <2> HIDE DEF s
  <2>6. Good(s, k) /\ s \in LayerT(k)
    BY <2>4 DEF State, Good
  <2>7. st \in [Conn -> {"CONNECT", "WRITE", "CLOSE"}]
    BY <2>6 DEF LayerT
  <2> HIDE DEF st
  <2>8. Good(t, k)
    BY <2>6, <2>7, StateUpdate
  <2>9. Store(s, t)
    BY <2>6 DEF LayerT, Store
  <2>10. State(Layer, t, k, 0, {})
    BY <2>4, <2>8, <2>9, StoreKept
  <2> QED BY <1>3, <1>4, <1>5, <2>3, <2>5, <2>10
<1>10. CASE Timeout
  <2> DEFINE aw == IF LateSentCb THEN awaiting ELSE {}
             s  == [Completed(Layer) EXCEPT !.awaiting = aw]
  <2>1. aw \in SUBSET Conn /\ (~LateSentCb => aw = {})
    BY <1>2 DEF Good, LayerT, Layer
  <2>2. Completed(Layer).awaiting = awaiting
    BY DEF Completed, Post, Free, Layer
  <2>3. Become(s) /\ UNCHANGED server
    BY <1>10, <2>2 DEF Timeout
  <2> HIDE DEF aw
  <2>4. State(Layer, s, k, 0, {})
    BY <1>1, <2>1, CompletedOwn
  <2> HIDE DEF s
  <2> QED BY <1>3, <1>4, <1>5, <2>3, <2>4
<1>11. ASSUME NEW c \in Conn, Connect(c) \/ Close(c)
       PROVE  Finishes(Layer, Layer', 0) /\ OwnInv'
  <2>1. PICK st \in [Conn -> {"CONNECT", "WRITE", "CLOSE"}], aw \in SUBSET awaiting :
          /\ Become([Layer EXCEPT !.awaiting = aw, !.state = st]) /\ UNCHANGED server
    <3>1. CASE Connect(c)
      <4>1. [state EXCEPT ![c] = "CONNECT"] \in [Conn -> {"CONNECT", "WRITE", "CLOSE"}]
        BY <1>2 DEF Good, LayerT, Layer
      <4>2. Become([Layer EXCEPT !.awaiting = awaiting, !.state = [state EXCEPT ![c] = "CONNECT"]])
        BY <3>1 DEF Connect, Become, Layer
      <4> QED BY <3>1, <4>1, <4>2 DEF Connect
    <3>2. CASE Close(c)
      <4>1. [state EXCEPT ![c] = "CLOSE"] \in [Conn -> {"CONNECT", "WRITE", "CLOSE"}]
        BY <1>2 DEF Good, LayerT, Layer
      <4>2. Become([Layer EXCEPT !.awaiting = awaiting \ {c}, !.state = [state EXCEPT ![c] = "CLOSE"]])
        BY <3>2 DEF Close, Become, Layer
      <4>3. (awaiting \ {c}) \in SUBSET awaiting
        OBVIOUS
      <4>4. UNCHANGED server
        BY <3>2 DEF Close
      <4> DEFINE f == [state EXCEPT ![c] = "CLOSE"]
                 g == awaiting \ {c}
      <4>5. /\ f \in [Conn -> {"CONNECT", "WRITE", "CLOSE"}]
            /\ g \in SUBSET awaiting
            /\ Become([Layer EXCEPT !.awaiting = g, !.state = f])
        BY <4>1, <4>2, <4>3
      <4> HIDE DEF f, g
      <4> QED BY <4>4, <4>5
    <3> QED BY <1>11, <3>1, <3>2
  <2> DEFINE t == [Layer EXCEPT !.awaiting = aw, !.state = st]
  <2>2. aw \subseteq Layer.awaiting
    BY DEF Layer
  <2>3. Good(t, k) /\ Store(Layer, t)
    BY <1>2, <2>2 DEF Good, LayerT, Flags, Caps, Store
  <2>4. Become(t) /\ UNCHANGED server
    BY <2>1
  <2> HIDE DEF t
  <2> QED BY <1>1, <1>3, <1>4, <1>5, <2>3, <2>4, StoreOwn
<1>12. CASE ServerStart
  <2>1. Become(Layer) /\ server' = "up"
    BY <1>12 DEF ServerStart
  <2> QED BY <1>1, <1>3, <1>4, <2>1
<1>13. CASE ServerStop
  <2>1. Become(ClearQueues(Layer)) /\ server' = "down"
    BY <1>13 DEF ServerStop
  <2>2. State(Layer, ClearQueues(Layer), k, 0, {})
    BY <1>1, ClearOwn
  <2> QED BY <1>3, <1>4, <2>1, <2>2
<1>14. CASE UNCHANGED vars
  <2>1. Layer' = Layer /\ UNCHANGED server
    BY <1>14 DEF vars, Layer
  <2> QED BY <1>1, <1>4, <2>1 DEF OwnInv
<1> QED BY <1>6, <1>7, <1>8, <1>9, <1>10, <1>11, <1>12, <1>13, <1>14 DEF Next

LEMMA AlwaysOwn == Spec => []OwnInv
BY InitOwn, NextOwn, PTL DEF Spec

LEMMA OwnInvOwned == OwnInv => OwnedOnce
<1> SUFFICES ASSUME OwnInv PROVE OwnedOnce
  OBVIOUS
<1>1. PICK k \in Nat : State(Layer, Layer, k, 0, {})
  BY DEF OwnInv
<1>2. /\ Layer.pending = pending_send /\ Layer.split = pending_split_send
      /\ Layer.buffer = send_buffer /\ Layer.heap = heap /\ Layer.leaked = leaked
      /\ Layer.bad = bad_free /\ Layer.sent = sent
  BY DEF Layer
<1>3. Ord(Layer, 0) /\ Mem(Layer, 0, {}) /\ Good(Layer, k)
  BY <1>1 DEF State
<1> DEFINE s == Layer
<1>4. /\ \A i \in DOMAIN s.pending : s.pending[i] \in PieceT(k)
      /\ \A i \in DOMAIN s.split : s.split[i] \in RemainderT(k)
      /\ DOMAIN s.pending = 1..Len(s.pending) /\ DOMAIN s.split = 1..Len(s.split)
      /\ s.buffer # NoPiece => s.buffer \in PieceT(k)
      /\ \A m \in 1..k : s.sent[m] \in Nat
      /\ Len(s.pending) \in Nat /\ Len(s.split) \in Nat
  BY <1>3, Entries
<1> HIDE DEF s
<1>5. NoDangling
  <2>1. \A i \in DOMAIN s.pending : BufferOf(s.pending[i]) \in s.heap \ s.leaked
    <3>1. \A i \in DOMAIN s.pending : BufferOf(s.pending[i])[2] = "piece"
      BY <1>4, BufferFacts
    <3>2. \A i \in DOMAIN s.pending : Has(s, 0, BufferOf(s.pending[i]))
      BY DEF Has
    <3> QED BY <1>3, <3>1, <3>2 DEF Mem, s
  <2>2. \A i \in DOMAIN s.split : s.split[i].kind # "diag" => ContentOf(s.split[i]) \in s.heap \ s.leaked
    <3>1. \A i \in DOMAIN s.split : s.split[i].kind # "diag" => ContentOf(s.split[i])[2] # "literal"
      BY <1>4, ContentFacts
    <3>2. \A i \in DOMAIN s.split : Has(s, 0, ContentOf(s.split[i]))
      <4>1. \A i \in DOMAIN s.split : i > 0
        BY <1>4
      <4> QED BY <4>1 DEF Has
    <3> QED BY <1>3, <3>1, <3>2 DEF Mem, s
  <2>3. s.buffer # NoPiece => BufferOf(s.buffer) \in s.heap \ s.leaked
    <3>1. s.buffer # NoPiece => BufferOf(s.buffer)[2] = "piece" /\ Has(s, 0, BufferOf(s.buffer))
      BY DEF Has, BufferOf, PieceBuf
    <3> QED BY <1>3, <3>1 DEF Mem, s
  <2>4. s.leaked \subseteq s.heap /\ \A b \in s.bad : b[2] = "literal"
    BY <1>3 DEF Mem, s
  <2> QED BY <1>2, <2>1, <2>2, <2>3, <2>4 DEF NoDangling, Elements, s
<1>6. NoSharing
  <2>1. ASSUME NEW i \in DOMAIN s.pending, NEW j \in DOMAIN s.pending,
               BufferOf(s.pending[i]) = BufferOf(s.pending[j])
        PROVE  i = j
    <3>1. /\ s.pending[i].msg = s.pending[j].msg /\ s.pending[i].order = s.pending[j].order
          /\ s.pending[i].order \in Nat /\ s.pending[j].order \in Nat
      BY <1>4, <2>1, BufferFacts DEF PieceT
    <3>2. ~(i < j) /\ ~(j < i)
      BY <1>3, <3>1 DEF Ord, s
    <3> QED BY <1>4, <3>2
  <2>2. ASSUME NEW i \in DOMAIN s.split, NEW j \in DOMAIN s.split, s.split[i].msg = s.split[j].msg
        PROVE  i = j
    <3>1. 0 < i /\ 0 < j /\ i \in Nat /\ j \in Nat
      BY <1>4
    <3>2. ~(i < j) /\ ~(j < i)
      BY <1>3, <2>2, <3>1 DEF Ord, s
    <3> QED BY <3>1, <3>2
  <2>3. ASSUME s.buffer # NoPiece, NEW i \in DOMAIN s.pending
        PROVE  BufferOf(s.pending[i]) # BufferOf(s.buffer)
    <3>1. /\ s.buffer.order < s.sent[s.buffer.msg] /\ s.sent[s.pending[i].msg] <= s.pending[i].order
      BY <1>3, <2>3 DEF Ord, s
    <3>2. /\ s.buffer \in PieceT(k) /\ s.pending[i] \in PieceT(k)
          /\ s.buffer.order \in Nat /\ s.pending[i].order \in Nat /\ s.sent[s.buffer.msg] \in Nat
      BY <1>4, <2>3 DEF PieceT
    <3>3. s.buffer.msg = s.pending[i].msg => s.buffer.order # s.pending[i].order
      BY <3>1, <3>2
    <3> QED BY <3>2, <3>3, BufferFacts
  <2> QED BY <1>2, <2>1, <2>2, <2>3 DEF NoSharing, Elements, s
<1>7. Accounted
  <2>1. ASSUME NEW b \in s.heap \ s.leaked
        PROVE  b \in Queued(s) \cup (IF s.buffer = NoPiece THEN {} ELSE {BufferOf(s.buffer)})
    <3>1. Has(s, 0, b)
      BY <1>3 DEF Mem, s
    <3> QED BY <3>1 DEF Has, Queued, Elements
  <2> QED BY <1>2, <2>1 DEF Accounted, s
<1> QED BY <1>5, <1>6, <1>7 DEF OwnedOnce

(***************************************************************************)
(* Theorems.                                                               *)
(***************************************************************************)

\* Whatever the sizes of the queues, the connections and the messages, every
\* variable keeps its type and no queue of the layer outgrows its capacity.
THEOREM TypeCorrect == Spec => []TypeOK
<1>1. ASSUME NEW k \in Nat, Good(Layer, k) PROVE Len(sent) = k
  BY <1>1 DEF Good, Layer
<1>2. ASSUME NEW k \in Nat, Good(Layer, k), server \in {"up", "down"}, Len(sent) = k
      PROVE  TypeOK
  <2>1. PieceT(k) = Pieces /\ RemainderT(k) = Remainders /\ BufferT(k) = Buffers
    BY <1>2 DEF PieceT, Pieces, RemainderT, Remainders, BufferT, Buffers, Messages
  <2>2. /\ pending_send \in Seq(Pieces) /\ pending_split_send \in Seq(Remainders)
        /\ esp_busy_sending_data \in BOOLEAN /\ send_buffer \in Pieces \cup {NoPiece}
        /\ clear_busy_timer \in BOOLEAN /\ tasks \in Seq({"check", "other"})
        /\ state \in [Conn -> {"CONNECT", "WRITE", "CLOSE"}] /\ awaiting \subseteq Conn
        /\ heap \subseteq Buffers /\ leaked \subseteq Buffers /\ bad_free \subseteq Buffers
        /\ missed \in BOOLEAN /\ faults \in Nat /\ sent \in Seq(Nat)
    BY <1>2, <2>1 DEF Good, LayerT, Layer
  <2>3. /\ Len(pending_send) <= MaxPending /\ Len(pending_split_send) <= MaxSplit
        /\ Len(tasks) <= TaskQueueLen /\ faults <= MaxFaults
    BY <1>2 DEF Good, Caps, Layer
  <2>4. faults \in 0..MaxFaults
    BY <2>2, <2>3, SendConstants
  <2>. QED BY <1>2, <2>2, <2>3, <2>4 DEF TypeOK
<1>3. Inv => TypeOK
  BY <1>1, <1>2 DEF Inv, Sound
<1>. QED BY <1>3, AlwaysInv, PTL

\* The flag, the buffer and the 20 s timer always go together, so the sent
\* callback and the timer free the one buffer that is being sent.
THEOREM FlagCorrect == Spec => []FlagOwnsBuffer
<1>1. Inv => FlagOwnsBuffer
  BY DEF Inv, Sound, Good, Flags, Layer, FlagOwnsBuffer
<1>. QED BY <1>1, AlwaysInv, PTL

\* With an SDK that forgets a send the 20 s timer gave up on, a new espconn_send
\* is only called once the callback of the previous one came or was given up.
THEOREM OneSendCorrect ==
  ASSUME ~LateSentCb
  PROVE  Spec => []OneSendAtATime
<1>1. Inv => OneSendAtATime
  BY DEF Inv, Sound, Good, Flags, Layer, OneSendAtATime
<1>. QED BY <1>1, AlwaysInv, PTL

\* Whatever becomes of sends, allocations, connections and posts: as long as something is
\* queued, a send is outstanding or a check of the queues is posted, unless the last
\* wake-up was refused by a full task queue or never tried.
THEOREM WakeUpCorrect == Spec => []WakeUp
<1>1. Inv => WakeUp
  <2> SUFFICES ASSUME Inv PROVE WakeUp
    OBVIOUS
  <2>1. Awoken(Layer, "needed")
    BY DEF Inv, Sound
  <2> QED BY <2>1 DEF Awoken, Alarm, Idle, Layer, WakeUp, Work, Awake
<1>. QED BY <1>1, AlwaysInv, PTL

\* Whatever calls fail, queues overflow, connections close and the server stops: every
\* buffer on the heap is held by exactly one of send_buffer, an entry of pending_send and
\* an entry of pending_split_send, unless it was lost by a branch that leaks it; nothing
\* held was freed, and only the literal is ever freed in error.
THEOREM OwnedCorrect == Spec => []OwnedOnce
BY AlwaysOwn, OwnInvOwned, PTL

\* Pieces of one message are handed to espconn_send in order and never twice, for any
\* number of messages, connections and pieces, whatever fails in between.
THEOREM OrderCorrect == Spec => SentInOrder
<1> DEFINE ordered == send_buffer' \notin {send_buffer, NoPiece} =>
                        send_buffer'.order >= SentUpTo(send_buffer'.msg)
<1>1. OwnInv /\ [Next]_vars => ordered
  <2> SUFFICES ASSUME OwnInv, [Next]_vars PROVE ordered
    OBVIOUS
  <2>1. InOrder(Layer, Layer')
    BY NextOwn DEF Finishes, State
  <2>2. \A m : SentUpTo(m) = UpTo(Layer, m)
    BY DEF SentUpTo, UpTo, Layer
  <2>3. Layer.buffer = send_buffer /\ Layer'.buffer = send_buffer'
    BY DEF Layer
  <2> QED BY <2>1, <2>2, <2>3 DEF InOrder
<1> QED BY <1>1, AlwaysOwn, PTL DEF Spec, SentInOrder
=============================================================================
