--------------------------------- MODULE Queue ---------------------------------
(***************************************************************************)
(* The template of espbot_queue.hpp: a circular array of pointers that the *)
(* transmission layer keeps its waiting pieces in.  One action is one call *)
(* of a member function.  The array comes from new, uninitialised: until   *)
(* it is written a place holds NULL or a wild pointer.                     *)
(*                                                                         *)
(* A caller that walks takes front() first, as the cursor is not           *)
(* initialised, goes on with next() until it returns no element, and       *)
(* removes nothing on the way.                                             *)
(***************************************************************************)
EXTENDS Integers, Sequences

CONSTANTS
  QueueElems,   \* what is put in it: pointers, never NULL
  QueueSize     \* max_size

ASSUME QueueConstants ==
  /\ QueueSize \in Nat \ {0}
  /\ QueueElems \cap {"NULL", "wild"} = {}

VARIABLES
  qcontent,     \* _content
  qheap,        \* _content is not NULL
  qsize, qfront, qback, qcursor,
  qwalking,     \* history: the caller may go on with next()
  qanswer       \* what the last call returned

queueVars == <<qcontent, qheap, qsize, qfront, qback, qcursor, qwalking, qanswer>>

QPlaces == 0..(QueueSize - 1)

QueueInit ==
  /\ qcontent \in [QPlaces -> {"NULL", "wild"}] /\ qheap \in BOOLEAN
  /\ qsize = 0 /\ qfront = 0 /\ qback = 0
  /\ qcursor \in QPlaces /\ qwalking = FALSE
  /\ qanswer = <<"new">>

QStep(i) == IF i + 1 = QueueSize THEN 0 ELSE i + 1

queue_push(x) ==
  \/ /\ qsize = QueueSize \/ ~qheap
     /\ qanswer' = <<"push", "full">>
     /\ UNCHANGED <<qcontent, qheap, qsize, qfront, qback, qcursor, qwalking>>
  \/ /\ qsize # QueueSize /\ qheap
     /\ qback' = IF qsize > 0 THEN QStep(qback) ELSE qback
     /\ qsize' = qsize + 1
     /\ qcontent' = [qcontent EXCEPT ![qback'] = x]
     /\ qanswer' = <<"push", "ok">>
     /\ UNCHANGED <<qheap, qfront, qcursor, qwalking>>

queue_pop_Stale ==           \* mutant: _back stays where it is when the queue gets empty
  \/ /\ qsize = 0
     /\ qanswer' = <<"pop", "empty">>
     /\ UNCHANGED <<qcontent, qheap, qsize, qfront, qback, qcursor, qwalking>>
  \/ /\ qsize # 0
     /\ qsize' = qsize - 1
     /\ qcontent' = [qcontent EXCEPT ![qfront] = "NULL"]
     /\ qfront' = QStep(qfront)
     /\ qwalking' = FALSE
     /\ qanswer' = <<"pop", "ok">>
     /\ UNCHANGED <<qheap, qback, qcursor>>

queue_pop ==
  \/ /\ qsize = 0
     /\ qanswer' = <<"pop", "empty">>
     /\ UNCHANGED <<qcontent, qheap, qsize, qfront, qback, qcursor, qwalking>>
  \/ /\ qsize # 0
     /\ qsize' = qsize - 1
     /\ qcontent' = [qcontent EXCEPT ![qfront] = "NULL"]
     /\ qfront' = QStep(qfront)
     /\ qback' = IF qsize' = 0 THEN qfront' ELSE qback
     /\ qwalking' = FALSE
     /\ qanswer' = <<"pop", "ok">>
     /\ UNCHANGED <<qheap, qcursor>>

queue_front ==
  /\ IF qsize # 0
     THEN qcursor' = qfront /\ qwalking' = TRUE /\ qanswer' = <<"front", qcontent[qfront]>>
     ELSE qanswer' = <<"front", "NULL">> /\ UNCHANGED <<qcursor, qwalking>>
  /\ UNCHANGED <<qcontent, qheap, qsize, qfront, qback>>

queue_next ==
  /\ qwalking
  /\ qcursor' = QStep(qcursor)
  /\ LET p == IF qcursor' = qfront THEN "NULL" ELSE qcontent[qcursor']
     IN  qanswer' = <<"next", p>> /\ qwalking' = (p \in QueueElems)
  /\ UNCHANGED <<qcontent, qheap, qsize, qfront, qback>>

queue_asked ==
  /\ \/ qanswer' = <<"size", qsize>>
     \/ qanswer' = <<"empty", qsize = 0>>
     \/ qanswer' = <<"full", qsize = QueueSize>>
  /\ UNCHANGED <<qcontent, qheap, qsize, qfront, qback, qcursor, qwalking>>

\* ~Queue() and another Queue(max_size).
queue_renewed ==
  /\ qcontent' \in [QPlaces -> {"NULL", "wild"}] /\ qheap' \in BOOLEAN
  /\ qsize' = 0 /\ qfront' = 0 /\ qback' = 0
  /\ qcursor' \in QPlaces /\ qwalking' = FALSE
  /\ qanswer' = <<"new">>

QueueNext ==
  \/ queue_pop \/ queue_front \/ queue_next \/ queue_asked \/ queue_renewed
  \/ \E x \in QueueElems : queue_push(x)

QueueSpec == QueueInit /\ [][QueueNext]_queueVars

-----------------------------------------------------------------------------
\* The place of the k-th element that waits.
QAt(k) == IF qfront + k - 1 < QueueSize THEN qfront + k - 1 ELSE qfront + k - 1 - QueueSize
QItems == [k \in 1..qsize |-> qcontent[QAt(k)]]
QWalked == IF ~qwalking THEN 0
           ELSE IF qcursor >= qfront THEN qcursor - qfront + 1
           ELSE qcursor - qfront + QueueSize + 1
Waiting == INSTANCE Fifo WITH
  Elems <- QueueElems, Capacity <- QueueSize, items <- QItems,
  room <- IF qheap THEN QueueSize ELSE 0, walked <- QWalked, answer <- qanswer

\* The circular array is a queue: whatever calls are made, in whatever order, over and
\* over its end, elements leave in the order they were pushed, none is lost, repeated
\* or taken from a place that was never written, and each call's answer is the queue's.
QueueOrder == Waiting!Spec
===============================================================================
