----------------------------- MODULE Storage_proofs -----------------------------
(***************************************************************************)
(* What is put into a queue or a configuration file comes out of it.       *)
(*                                                                         *)
(* The circular array of Queue is a queue, for every size of the array and *)
(* whatever is put in it.  The invariant is what each place of the array   *)
(* holds, counted from the front (QFilled): an element as far as the queue *)
(* reaches and none behind, which is why a walk past the last element      *)
(* returns none.                                                           *)
(*                                                                         *)
(* The files of Config keep what was saved, for all values of the settings.*)
(***************************************************************************)
EXTENDS Queue, Config, SequenceTheorems, TLAPS

Unheld == {"NULL", "wild"}

QTyped ==
  /\ qcontent \in [QPlaces -> QueueElems \cup Unheld] /\ qheap \in BOOLEAN
  /\ qsize \in 0..QueueSize /\ qfront \in QPlaces /\ qback \in QPlaces
  /\ qcursor \in QPlaces /\ qwalking \in BOOLEAN

QFilled ==
  \A k \in 1..QueueSize :
    IF k <= qsize THEN qcontent[QAt(k)] \in QueueElems ELSE qcontent[QAt(k)] \in Unheld

\* _back is the last element's place, and where the first one goes when there is none.
QEnds == qback = IF qsize = 0 THEN qfront ELSE QAt(qsize)

QHeld == (~qheap => qsize = 0) /\ (qwalking => qsize > 0)

QInv == QTyped /\ QFilled /\ QEnds /\ QHeld

-----------------------------------------------------------------------------
\* Counting round the array.
LEMMA SizeNat == QueueSize \in Nat \ {0} /\ QueueElems \cap Unheld = {}
BY QueueConstants DEF Unheld

LEMMA AtPlace ==
  ASSUME QTyped, NEW k \in 1..QueueSize
  PROVE  QAt(k) \in QPlaces
BY SizeNat DEF QTyped, QAt, QPlaces

LEMMA AtDistinct ==
  ASSUME QTyped, NEW j \in 1..QueueSize, NEW k \in 1..QueueSize, j # k
  PROVE  QAt(j) # QAt(k)
BY SizeNat DEF QTyped, QAt, QPlaces

LEMMA AtFirst == ASSUME QTyped PROVE QAt(1) = qfront
BY SizeNat DEF QTyped, QAt, QPlaces

LEMMA AtNext ==
  ASSUME QTyped, NEW k \in 1..(QueueSize - 1)
  PROVE  QStep(QAt(k)) = QAt(k + 1)
BY SizeNat DEF QTyped, QAt, QPlaces, QStep

\* After a pop, place k is what place k + 1 was.
LEMMA AtShifted ==
  ASSUME QTyped, qfront' = QStep(qfront), NEW k \in 1..QueueSize
  PROVE  QAt(k)' = IF k = QueueSize THEN qfront ELSE QAt(k + 1)
BY SizeNat DEF QTyped, QAt, QPlaces, QStep

LEMMA AtSame == ASSUME qfront' = qfront, NEW k PROVE QAt(k)' = QAt(k)
BY DEF QAt

\* The elements that wait are a sequence.
QSequence ==
  /\ QItems \in Seq(QueueElems) /\ Len(QItems) = qsize
  /\ \A k \in 1..qsize : QItems[k] = qcontent[QAt(k)]
  /\ qsize = 0 <=> QItems = <<>>

LEMMA ItemsSeq == QTyped /\ QFilled => QSequence
<1> SUFFICES ASSUME QTyped, QFilled PROVE QSequence
  OBVIOUS
<1>1. qsize \in Nat /\ \A k \in 1..qsize : qcontent[QAt(k)] \in QueueElems
  BY SizeNat DEF QTyped, QFilled
<1>2. QItems \in [1..qsize -> QueueElems]
  BY <1>1 DEF QItems
<1>3. QItems \in Seq(QueueElems)
  BY <1>1, <1>2, SeqDef
<1>4. Len(QItems) = qsize
  <2>1. DOMAIN QItems = 1..qsize
    BY DEF QItems
  <2>2. DOMAIN QItems = 1..Len(QItems) /\ Len(QItems) \in Nat
    BY <1>3, LenProperties
  <2> QED
    BY <1>1, <2>1, <2>2
<1>5. \A k \in 1..qsize : QItems[k] = qcontent[QAt(k)]
  BY DEF QItems
<1>6. qsize = 0 <=> QItems = <<>>
  BY <1>3, <1>4, EmptySeq
<1> QED
  BY <1>3, <1>4, <1>5, <1>6 DEF QSequence

-----------------------------------------------------------------------------
LEMMA InvInit == QueueInit => QInv
<1> SUFFICES ASSUME QueueInit PROVE QInv
  OBVIOUS
<1>1. QTyped
  <2>1. qcontent \in [QPlaces -> QueueElems \cup Unheld]
    BY DEF QueueInit, Unheld
  <2>2. 0 \in QPlaces /\ 0 \in 0..QueueSize
    BY SizeNat DEF QPlaces
  <2> QED
    BY <2>1, <2>2 DEF QueueInit, QTyped
<1>2. QFilled
  <2> SUFFICES ASSUME NEW k \in 1..QueueSize PROVE qcontent[QAt(k)] \in Unheld /\ ~(k <= qsize)
    BY DEF QFilled
  <2>1. QAt(k) \in QPlaces
    BY <1>1, AtPlace
  <2> QED
    BY <2>1, SizeNat DEF QueueInit, Unheld
<1> QED
  BY <1>1, <1>2 DEF QueueInit, QInv, QEnds, QHeld

LEMMA RenewedInit == queue_renewed => QueueInit'
BY DEF queue_renewed, QueueInit, QPlaces

\* A call that leaves the array and its ends alone keeps the invariant.
LEMMA IdleKeeps ==
  ASSUME QInv, UNCHANGED <<qcontent, qheap, qsize, qfront, qback>>,
         qcursor' \in QPlaces, qwalking' \in BOOLEAN, qwalking' => qsize > 0
  PROVE  QInv' /\ QItems' = QItems
<1>1. QTyped' /\ QHeld'
  BY DEF QInv, QTyped, QHeld, QPlaces
<1>2. QFilled' /\ QEnds'
  BY DEF QInv, QFilled, QEnds, QAt
<1>3. QItems' = QItems
  BY DEF QItems, QAt
<1> QED
  BY <1>1, <1>2, <1>3 DEF QInv

\* An element is pushed on the place after the last one.
LEMMA PushKeeps ==
  ASSUME QInv, NEW x \in QueueElems, queue_push(x), qsize # QueueSize, qheap
  PROVE  QInv' /\ QItems' = Append(QItems, x)
<1>1. QTyped /\ QFilled /\ QEnds /\ QHeld
  BY DEF QInv
<1>2. /\ qsize' = qsize + 1 /\ qcontent' = [qcontent EXCEPT ![qback'] = x]
      /\ qback' = IF qsize > 0 THEN QStep(qback) ELSE qback
      /\ UNCHANGED <<qheap, qfront, qcursor, qwalking>>
  BY DEF queue_push
<1>3. qsize \in 0..(QueueSize - 1) /\ QueueSize \in Nat \ {0}
  BY <1>1, SizeNat DEF QTyped
<1>4. qback' = QAt(qsize + 1)
  <2>1. CASE qsize = 0
    BY <1>1, <1>2, <2>1, AtFirst DEF QEnds
  <2>2. CASE qsize > 0
    <3>1. qback = QAt(qsize) /\ qsize \in 1..(QueueSize - 1)
      BY <1>1, <1>3, <2>2 DEF QEnds
    <3> QED
      BY <1>1, <1>2, <2>2, <3>1, AtNext
  <2> QED
    BY <1>3, <2>1, <2>2
<1>5. qback' \in QPlaces
  BY <1>1, <1>3, <1>4, AtPlace
<1>6. QTyped'
  <2>1. qcontent' \in [QPlaces -> QueueElems \cup Unheld]
    BY <1>1, <1>2, <1>5 DEF QTyped
  <2> QED
    BY <1>1, <1>2, <1>3, <1>5, <2>1 DEF QTyped, QPlaces
<1>7. ASSUME NEW k \in 1..QueueSize
      PROVE  qcontent'[QAt(k)'] = IF k = qsize + 1 THEN x ELSE qcontent[QAt(k)]
  <2>1. QAt(k)' = QAt(k) /\ QAt(k) \in QPlaces
    BY <1>1, <1>2, AtPlace, AtSame
  <2>2. k # qsize + 1 => QAt(k) # qback'
    <3>1. qsize + 1 \in 1..QueueSize
      BY <1>3
    <3> QED
      BY <1>1, <1>4, <3>1, AtDistinct
  <2>3. qcontent \in [QPlaces -> QueueElems \cup Unheld]
    BY <1>1 DEF QTyped
  <2> QED
    BY <1>2, <1>4, <1>5, <2>1, <2>2, <2>3
<1>8. QFilled'
  <2> SUFFICES ASSUME NEW k \in 1..QueueSize
               PROVE  IF k <= qsize' THEN qcontent'[QAt(k)'] \in QueueElems
                      ELSE qcontent'[QAt(k)'] \in Unheld
    BY DEF QFilled
  <2>1. IF k <= qsize THEN qcontent[QAt(k)] \in QueueElems ELSE qcontent[QAt(k)] \in Unheld
    BY <1>1 DEF QFilled
  <2> QED
    BY <1>2, <1>3, <1>7, <2>1
<1>9. QEnds'
  BY <1>2, <1>3, <1>4, AtSame DEF QEnds
<1>10. QHeld'
  BY <1>1, <1>2, <1>3 DEF QHeld
<1>11. QItems' = Append(QItems, x)
  <2>1. /\ QItems \in Seq(QueueElems) /\ Len(QItems) = qsize
        /\ \A k \in 1..qsize : QItems[k] = qcontent[QAt(k)]
    BY <1>1, ItemsSeq DEF QSequence
  <2>2. /\ QItems' \in Seq(QueueElems) /\ Len(QItems') = qsize'
        /\ \A k \in 1..qsize' : QItems'[k] = qcontent'[QAt(k)']
    <3>1. QSequence'
      BY <1>6, <1>8, ItemsSeq, PTL
    <3> QED
      BY <3>1 DEF QSequence
  <2>3. /\ Append(QItems, x) \in Seq(QueueElems) /\ Len(Append(QItems, x)) = qsize + 1
        /\ \A k \in 1..(qsize + 1) :
             Append(QItems, x)[k] = IF k <= qsize THEN QItems[k] ELSE x
    BY <1>3, <2>1, AppendProperties
  <2>4. \A k \in 1..(qsize + 1) : QItems'[k] = Append(QItems, x)[k]
    BY <1>2, <1>3, <1>7, <2>1, <2>2, <2>3
  <2> QED
    BY <1>2, <2>2, <2>3, <2>4, SeqEqual
<1> QED
  BY <1>6, <1>8, <1>9, <1>10, <1>11 DEF QInv

\* The first element is popped: its place is the last one behind the rest.
LEMMA PopKeeps ==
  ASSUME QInv, queue_pop, qsize # 0
  PROVE  QInv' /\ QItems # <<>> /\ QItems' = Tail(QItems)
<1>1. QTyped /\ QFilled /\ QEnds /\ QHeld
  BY DEF QInv
<1>2. /\ qsize' = qsize - 1 /\ qcontent' = [qcontent EXCEPT ![qfront] = "NULL"]
      /\ qfront' = QStep(qfront) /\ qback' = IF qsize' = 0 THEN qfront' ELSE qback
      /\ qwalking' = FALSE /\ UNCHANGED <<qheap, qcursor>>
  BY DEF queue_pop
<1>3. qsize \in 1..QueueSize /\ QueueSize \in Nat \ {0} /\ qfront \in QPlaces
  BY <1>1, SizeNat DEF QTyped
<1>4. qcontent \in [QPlaces -> QueueElems \cup Unheld]
  BY <1>1 DEF QTyped
<1>5. QTyped'
  <2>1. qcontent' \in [QPlaces -> QueueElems \cup Unheld]
    BY <1>2, <1>3, <1>4 DEF Unheld
  <2>2. qfront' \in QPlaces
    BY <1>2, <1>3 DEF QStep, QPlaces
  <2>3. qback' \in QPlaces
    BY <1>1, <1>2, <2>2 DEF QTyped
  <2>4. qsize' \in 0..QueueSize
    BY <1>2, <1>3
  <2>5. qheap' \in BOOLEAN /\ qcursor' \in QPlaces /\ qwalking' \in BOOLEAN
    BY <1>1, <1>2 DEF QTyped
  <2> QED
    BY <2>1, <2>2, <2>3, <2>4, <2>5 DEF QTyped
<1>6. ASSUME NEW k \in 1..QueueSize
      PROVE  qcontent'[QAt(k)'] = IF k = QueueSize THEN "NULL" ELSE qcontent[QAt(k + 1)]
  <2>1. QAt(k)' = IF k = QueueSize THEN qfront ELSE QAt(k + 1)
    BY <1>1, <1>2, AtShifted
  <2>2. CASE k = QueueSize
    BY <1>2, <1>3, <1>4, <2>1, <2>2
  <2>3. CASE k # QueueSize
    <3>1. k + 1 \in 1..QueueSize /\ 1 \in 1..QueueSize /\ k + 1 # 1
      BY <1>3, <2>3
    <3>2. QAt(k + 1) # qfront /\ QAt(k + 1) \in QPlaces
      BY <1>1, <3>1, AtDistinct, AtFirst, AtPlace
    <3> QED
      BY <1>2, <1>3, <1>4, <2>1, <2>3, <3>2
  <2> QED
    BY <2>2, <2>3
<1>7. QFilled'
  <2> SUFFICES ASSUME NEW k \in 1..QueueSize
               PROVE  IF k <= qsize' THEN qcontent'[QAt(k)'] \in QueueElems
                      ELSE qcontent'[QAt(k)'] \in Unheld
    BY DEF QFilled
  <2>1. CASE k = QueueSize
    <3>1. ~(k <= qsize')
      BY <1>2, <1>3, <2>1
    <3> QED
      BY <1>6, <2>1, <3>1 DEF Unheld
  <2>2. CASE k # QueueSize
    <3>1. k + 1 \in 1..QueueSize /\ (k <= qsize' <=> k + 1 <= qsize)
      BY <1>2, <1>3, <2>2
    <3>2. IF k + 1 <= qsize THEN qcontent[QAt(k + 1)] \in QueueElems
          ELSE qcontent[QAt(k + 1)] \in Unheld
      BY <1>1, <3>1 DEF QFilled
    <3> QED
      BY <1>6, <2>2, <3>1, <3>2
  <2> QED
    BY <2>1, <2>2
<1>8. QEnds'
  <2>1. CASE qsize' = 0
    BY <1>2, <2>1 DEF QEnds
  <2>2. CASE qsize' # 0
    <3>1. qsize' \in 1..QueueSize /\ qsize' # QueueSize /\ qsize' + 1 = qsize
      BY <1>2, <1>3, <2>2
    <3>2. \A k \in 1..QueueSize : QAt(k)' = IF k = QueueSize THEN qfront ELSE QAt(k + 1)
      BY <1>1, <1>2, AtShifted
    <3>3. qback = QAt(qsize)
      BY <1>1, <1>3 DEF QEnds
    <3>4. qback' = IF qfront' + qsize' - 1 < QueueSize THEN qfront' + qsize' - 1
                   ELSE qfront' + qsize' - 1 - QueueSize
      BY <1>2, <1>3, <2>2, <3>1, <3>3 DEF QAt, QStep, QPlaces
    <3> QED
      BY <2>2, <3>4 DEF QEnds, QAt
  <2> QED
    BY <2>1, <2>2
<1>9. QHeld'
  BY <1>1, <1>2, <1>3 DEF QHeld
<1>10. QSequence /\ QSequence'
  BY <1>1, <1>5, <1>7, ItemsSeq, PTL
<1>11. QItems # <<>>
  BY <1>3, <1>10 DEF QSequence
<1>12. QItems' = Tail(QItems)
  <2>1. /\ Tail(QItems) \in Seq(QueueElems) /\ Len(Tail(QItems)) = qsize - 1
        /\ \A k \in 1..(qsize - 1) : Tail(QItems)[k] = QItems[k + 1]
    BY <1>3, <1>10, <1>11, HeadTailProperties DEF QSequence
  <2>2. ASSUME NEW k \in 1..(qsize - 1)
        PROVE  QItems'[k] = Tail(QItems)[k]
    <3>1. k \in 1..QueueSize /\ k # QueueSize /\ k + 1 \in 1..qsize /\ k \in 1..qsize'
      BY <1>2, <1>3
    <3>2. QItems'[k] = qcontent'[QAt(k)']
      BY <1>10, <3>1 DEF QSequence
    <3>3. QItems[k + 1] = qcontent[QAt(k + 1)]
      BY <1>10, <3>1 DEF QSequence
    <3> QED
      BY <1>6, <2>1, <3>1, <3>2, <3>3
  <2>3. QItems' \in Seq(QueueElems) /\ Len(QItems') = qsize - 1
    BY <1>2, <1>10 DEF QSequence
  <2> QED
    BY <2>1, <2>2, <2>3, SeqEqual
<1> QED
  BY <1>5, <1>7, <1>8, <1>9, <1>11, <1>12 DEF QInv

-----------------------------------------------------------------------------
\* How far a walk has come.
LEMMA WalkedPlace ==
  ASSUME QTyped, qwalking
  PROVE  QWalked \in 1..QueueSize /\ qcursor = QAt(QWalked)
BY SizeNat DEF QTyped, QWalked, QAt, QPlaces

LEMMA WalkedFirst ==
  ASSUME QTyped, qcursor' = qfront, qfront' = qfront, qwalking' = TRUE
  PROVE  QWalked' = 1
BY SizeNat DEF QTyped, QWalked, QPlaces

LEMMA WalkedOn ==
  ASSUME QTyped, qwalking, qcursor' = QStep(qcursor), qfront' = qfront, qwalking' = TRUE,
         qcursor' # qfront
  PROVE  QWalked < QueueSize /\ QWalked' = QWalked + 1
BY SizeNat DEF QTyped, QWalked, QPlaces, QStep

LEMMA WalkedRound ==
  ASSUME QTyped, qwalking, QStep(qcursor) = qfront
  PROVE  QWalked = QueueSize
BY SizeNat DEF QTyped, QWalked, QPlaces, QStep

\* Going on from place w: to the front again, or to place w + 1.
LEMMA NextPlace ==
  ASSUME QTyped, qwalking, QStep(qcursor) # qfront
  PROVE  /\ QWalked + 1 \in 1..QueueSize /\ QStep(qcursor) = QAt(QWalked + 1)
<1>1. QWalked \in 1..QueueSize /\ qcursor = QAt(QWalked)
  BY WalkedPlace
<1>2. QWalked # QueueSize
  BY SizeNat DEF QTyped, QWalked, QPlaces, QStep
<1> QED
  BY <1>1, <1>2, SizeNat, AtNext

-----------------------------------------------------------------------------
Room == IF qheap THEN QueueSize ELSE 0

\* A walk goes on to the next element, or past the last one.
LEMMA NextMaps ==
  ASSUME QInv, queue_next
  PROVE  QInv' /\ Waiting!Following
<1>1. QTyped /\ QFilled /\ QEnds /\ QHeld
  BY DEF QInv
<1>2. /\ qwalking /\ qcursor' = QStep(qcursor)
      /\ UNCHANGED <<qcontent, qheap, qsize, qfront, qback>>
  BY DEF queue_next
<1>3. qcursor' \in QPlaces /\ QueueSize \in Nat \ {0}
  BY <1>1, <1>2, SizeNat DEF QTyped, QStep, QPlaces
<1>4. qwalking' \in BOOLEAN
  BY DEF queue_next
<1>5. QInv' /\ QItems' = QItems
  BY <1>1, <1>2, <1>3, <1>4, IdleKeeps DEF QHeld
<1>6. QSequence /\ qsize \in 1..QueueSize
  BY <1>1, <1>2, ItemsSeq, SizeNat DEF QTyped, QHeld
<1>7. QWalked \in 1..QueueSize
  BY <1>1, <1>2, WalkedPlace
<1>8. Room' = Room
  BY <1>2 DEF Room
<1>9. CASE qcursor' = qfront
  <2>1. QWalked = QueueSize
    BY <1>1, <1>2, <1>9, WalkedRound
  <2>2. qanswer' = <<"next", "NULL">> /\ ~qwalking'
    <3>1. "NULL" \notin QueueElems
      BY SizeNat DEF Unheld
    <3>2. qanswer' = <<"next", "NULL">> /\ qwalking' = ("NULL" \in QueueElems)
      BY <1>2, <1>9 DEF queue_next
    <3> QED
      BY <3>1, <3>2
  <2>3. QWalked' = 0
    BY <2>2 DEF QWalked
  <2>4. QWalked > 0 /\ QWalked >= Len(QItems)
    BY <1>3, <1>6, <2>1 DEF QSequence
  <2> QED
    BY <1>5, <1>8, <2>2, <2>3, <2>4 DEF Room, Waiting!Following, Waiting!Nothing
<1>10. CASE qcursor' # qfront
  <2>1. QWalked + 1 \in 1..QueueSize /\ qcursor' = QAt(QWalked + 1)
    BY <1>1, <1>2, <1>10, NextPlace
  <2>2. /\ qanswer' = <<"next", qcontent[qcursor']>>
        /\ qwalking' = (qcontent[qcursor'] \in QueueElems)
    BY <1>2, <1>10 DEF queue_next
  <2>3. CASE QWalked < qsize
    <3>1. qcontent[qcursor'] \in QueueElems
      BY <1>1, <1>6, <1>7, <2>1, <2>3 DEF QFilled
    <3>2. qwalking' = TRUE
      BY <2>2, <3>1
    <3>3. QWalked' = QWalked + 1
      BY <1>1, <1>2, <1>10, <3>2, WalkedOn
    <3>4. QItems[QWalked + 1] = qcontent[qcursor']
      BY <1>6, <1>7, <2>1, <2>3 DEF QSequence
    <3>5. QWalked > 0 /\ QWalked < Len(QItems)
      BY <1>6, <1>7, <2>3 DEF QSequence
    <3> QED
      BY <1>5, <1>8, <2>2, <3>3, <3>4, <3>5 DEF Room, Waiting!Following
  <2>4. CASE ~(QWalked < qsize)
    <3>1. qcontent[qcursor'] \in Unheld
      BY <1>1, <1>6, <1>7, <2>1, <2>4 DEF QFilled
    <3>2. ~qwalking'
      <4>1. qcontent[qcursor'] \notin QueueElems
        BY <3>1, SizeNat
      <4> QED
        BY <2>2, <4>1
    <3>3. QWalked' = 0
      BY <3>2 DEF QWalked
    <3>4. QWalked > 0 /\ QWalked >= Len(QItems)
      BY <1>6, <1>7, <2>4 DEF QSequence
    <3> QED
      BY <1>5, <1>8, <2>2, <3>1, <3>3, <3>4 DEF Room, Waiting!Following, Waiting!Nothing, Unheld
  <2> QED
    BY <2>3, <2>4
<1> QED
  BY <1>5, <1>9, <1>10

\* A walk begins at the front.
LEMMA FrontMaps ==
  ASSUME QInv, queue_front
  PROVE  QInv' /\ Waiting!Front
<1>1. QTyped /\ QFilled /\ QEnds /\ QHeld
  BY DEF QInv
<1>2. UNCHANGED <<qcontent, qheap, qsize, qfront, qback>>
  BY DEF queue_front
<1>3. qsize \in 0..QueueSize /\ QueueSize \in Nat \ {0}
  BY <1>1, SizeNat DEF QTyped
<1>4. qcursor' \in QPlaces /\ qwalking' \in BOOLEAN /\ (qwalking' => qsize > 0)
  <2>1. CASE qsize # 0
    <3>1. qcursor' = qfront /\ qwalking' = TRUE
      BY <2>1 DEF queue_front
    <3> QED
      BY <1>1, <1>3, <2>1, <3>1 DEF QTyped
  <2>2. CASE qsize = 0
    <3>1. qcursor' = qcursor /\ qwalking' = qwalking
      BY <2>2 DEF queue_front
    <3> QED
      BY <1>1, <3>1 DEF QTyped, QHeld
  <2> QED
    BY <2>1, <2>2
<1>5. QInv' /\ QItems' = QItems
  BY <1>2, <1>4, IdleKeeps
<1>6. QSequence
  BY <1>1, ItemsSeq
<1>7. Room' = Room
  BY <1>2 DEF Room
<1>8. CASE qsize # 0
  <2>1. /\ qcursor' = qfront /\ qwalking' = TRUE
        /\ qanswer' = <<"front", qcontent[qfront]>>
    BY <1>8 DEF queue_front
  <2>2. QWalked' = 1
    BY <1>1, <1>2, <2>1, WalkedFirst
  <2>3. QItems # <<>> /\ QItems[1] = qcontent[qfront]
    BY <1>1, <1>3, <1>6, <1>8, AtFirst DEF QSequence
  <2>4. Head(QItems) = QItems[1]
    BY <1>6, <2>3 DEF QSequence
  <2> QED
    BY <1>5, <1>7, <2>1, <2>2, <2>3, <2>4 DEF Room, Waiting!Front
<1>9. CASE qsize = 0
  <2>1. qanswer' = <<"front", "NULL">> /\ UNCHANGED <<qcursor, qwalking>>
    BY <1>9 DEF queue_front
  <2>2. QWalked' = QWalked
    BY <1>2, <2>1 DEF QWalked
  <2>3. QItems = <<>>
    BY <1>6, <1>9 DEF QSequence
  <2> QED
    BY <1>5, <1>7, <2>1, <2>2, <2>3 DEF Room, Waiting!Front
<1> QED
  BY <1>5, <1>8, <1>9

LEMMA PushMaps ==
  ASSUME QInv, NEW x \in QueueElems, queue_push(x)
  PROVE  QInv' /\ Waiting!Push(x)
<1>1. QTyped /\ QFilled /\ QEnds /\ QHeld
  BY DEF QInv
<1>2. QSequence /\ qsize \in 0..QueueSize /\ QueueSize \in Nat \ {0}
  BY <1>1, ItemsSeq, SizeNat DEF QTyped
<1>3. UNCHANGED <<qheap, qfront, qcursor, qwalking>>
  BY DEF queue_push
<1>4. Room' = Room /\ QWalked' = QWalked
  BY <1>3 DEF Room, QWalked
<1>5. CASE qsize = QueueSize \/ ~qheap
  <2>1. qanswer' = <<"push", "full">> /\ UNCHANGED <<qcontent, qsize, qback>>
    BY <1>5 DEF queue_push
  <2>2. qcursor' \in QPlaces /\ qwalking' \in BOOLEAN /\ (qwalking' => qsize > 0)
    BY <1>1, <1>3 DEF QTyped, QHeld
  <2>3. QInv' /\ QItems' = QItems
    BY <1>3, <2>1, <2>2, IdleKeeps
  <2>4. Len(QItems) = Room
    BY <1>1, <1>2, <1>5 DEF QSequence, QHeld, Room
  <2> QED
    BY <1>4, <2>1, <2>3, <2>4 DEF Room, Waiting!Push
<1>6. CASE qsize # QueueSize /\ qheap
  <2>1. qanswer' = <<"push", "ok">>
    BY <1>6 DEF queue_push
  <2>2. QInv' /\ QItems' = Append(QItems, x)
    BY <1>6, PushKeeps
  <2>3. Len(QItems) < Room
    BY <1>2, <1>6 DEF QSequence, Room
  <2> QED
    BY <1>4, <2>1, <2>2, <2>3 DEF Room, Waiting!Push
<1> QED
  BY <1>5, <1>6

LEMMA PopMaps ==
  ASSUME QInv, queue_pop
  PROVE  QInv' /\ Waiting!Pop
<1>1. QTyped /\ QFilled /\ QEnds /\ QHeld
  BY DEF QInv
<1>2. Room' = Room
  BY DEF queue_pop, Room
<1>3. CASE qsize = 0
  <2>1. /\ qanswer' = <<"pop", "empty">>
        /\ UNCHANGED <<qcontent, qheap, qsize, qfront, qback, qcursor, qwalking>>
    BY <1>3 DEF queue_pop
  <2>2. qcursor' \in QPlaces /\ qwalking' \in BOOLEAN /\ (qwalking' => qsize > 0)
    BY <1>1, <2>1 DEF QTyped, QHeld
  <2>3. QInv' /\ QItems' = QItems
    BY <2>1, <2>2, IdleKeeps
  <2>4. QItems = <<>> /\ QWalked' = QWalked
    BY <1>1, <1>3, <2>1, ItemsSeq DEF QSequence, QWalked
  <2> QED
    BY <1>2, <2>1, <2>3, <2>4 DEF Room, Waiting!Pop
<1>4. CASE qsize # 0
  <2>1. qanswer' = <<"pop", "ok">> /\ qwalking' = FALSE
    BY <1>4 DEF queue_pop
  <2>2. QInv' /\ QItems # <<>> /\ QItems' = Tail(QItems)
    BY <1>4, PopKeeps
  <2>3. QWalked' = 0
    BY <2>1 DEF QWalked
  <2> QED
    BY <1>2, <2>1, <2>2, <2>3 DEF Room, Waiting!Pop
<1> QED
  BY <1>3, <1>4

LEMMA AskedMaps ==
  ASSUME QInv, queue_asked
  PROVE  QInv' /\ Waiting!Counted
<1>1. QTyped /\ QFilled /\ QEnds /\ QHeld
  BY DEF QInv
<1>2. UNCHANGED <<qcontent, qheap, qsize, qfront, qback, qcursor, qwalking>>
  BY DEF queue_asked
<1>3. qcursor' \in QPlaces /\ qwalking' \in BOOLEAN /\ (qwalking' => qsize > 0)
  BY <1>1, <1>2 DEF QTyped, QHeld
<1>4. QInv' /\ QItems' = QItems
  BY <1>2, <1>3, IdleKeeps
<1>5. Room' = Room /\ QWalked' = QWalked
  BY <1>2 DEF Room, QWalked
<1>6. Len(QItems) = qsize /\ (qsize = 0 <=> QItems = <<>>)
  BY <1>1, ItemsSeq DEF QSequence
<1>7. (QItems = <<>>) = (qsize = 0)
  BY <1>6, Zenon
<1>8. \/ qanswer' = <<"size", Len(QItems)>>
      \/ qanswer' = <<"empty", QItems = <<>> >>
      \/ qanswer' = <<"full", Len(QItems) = QueueSize>>
  BY <1>6, <1>7, Zenon DEF queue_asked
<1> QED
  BY <1>4, <1>5, <1>8 DEF Room, Waiting!Counted

\* A new queue is empty, with memory or without.
LEMMA InitMaps == QueueInit => Waiting!Init
<1> SUFFICES ASSUME QueueInit PROVE Waiting!Init
  OBVIOUS
<1>1. QInv
  BY InvInit
<1>2. QItems = <<>>
  BY <1>1, ItemsSeq DEF QInv, QSequence, QueueInit
<1>3. QWalked = 0 /\ Room \in {0, QueueSize} /\ qanswer = <<"new">>
  BY DEF QueueInit, QWalked, Room
<1> QED
  BY <1>2, <1>3 DEF Waiting!Init, Room

LEMMA RenewedMaps ==
  ASSUME queue_renewed
  PROVE  QInv' /\ Waiting!Rebuilt
<1>1. QueueInit'
  BY RenewedInit
<1>2. QInv' /\ QSequence'
  <2>1. QInv'
    BY <1>1, InvInit, PTL
  <2>2. QTyped' /\ QFilled'
    BY <2>1 DEF QInv
  <2> QED
    BY <2>1, <2>2, ItemsSeq, PTL
<1>3. QItems' = <<>>
  BY <1>1, <1>2 DEF QSequence, QueueInit
<1>4. QWalked' = 0 /\ Room' \in {0, QueueSize} /\ qanswer' = <<"new">>
  BY DEF queue_renewed, QWalked, Room
<1> QED
  BY <1>2, <1>3, <1>4 DEF Waiting!Rebuilt, Room

-----------------------------------------------------------------------------
LEMMA StepMaps ==
  ASSUME QInv, [QueueNext]_queueVars
  PROVE  QInv' /\ [Waiting!Next]_(Waiting!fifoVars)
<1>1. CASE queue_pop
  BY <1>1, PopMaps DEF Waiting!Next
<1>2. CASE queue_front
  BY <1>2, FrontMaps DEF Waiting!Next
<1>3. CASE queue_next
  BY <1>3, NextMaps DEF Waiting!Next
<1>4. CASE queue_asked
  BY <1>4, AskedMaps DEF Waiting!Next
<1>5. CASE queue_renewed
  BY <1>5, RenewedMaps DEF Waiting!Next
<1>6. CASE \E x \in QueueElems : queue_push(x)
  <2>1. PICK x \in QueueElems : queue_push(x)
    BY <1>6
  <2>2. QInv' /\ Waiting!Push(x)
    BY <2>1, PushMaps
  <2> QED
    BY <2>2 DEF Waiting!Next
<1>7. CASE UNCHANGED queueVars
  <2>1. /\ UNCHANGED <<qcontent, qheap, qsize, qfront, qback, qcursor, qwalking, qanswer>>
    BY <1>7 DEF queueVars
  <2>2. qcursor' \in QPlaces /\ qwalking' \in BOOLEAN /\ (qwalking' => qsize > 0)
    BY <2>1 DEF QInv, QTyped, QHeld
  <2>3. QInv' /\ QItems' = QItems
    BY <2>1, <2>2, IdleKeeps
  <2>4. Room' = Room /\ QWalked' = QWalked
    BY <2>1 DEF Room, QWalked
  <2> QED
    BY <2>1, <2>3, <2>4 DEF Waiting!fifoVars, Room
<1> QED
  BY <1>1, <1>2, <1>3, <1>4, <1>5, <1>6, <1>7 DEF QueueNext

\* The circular array of espbot_queue.hpp implements the queue the transmission layer
\* takes it for: every call does and answers what it would do to the sequence of
\* elements, however often push and pop have gone round the array.
THEOREM OrderCorrect == QueueSpec => QueueOrder
<1>1. QueueInit => QInv /\ Waiting!Init
  BY InvInit, InitMaps
<1>2. QInv /\ [QueueNext]_queueVars => QInv' /\ [Waiting!Next]_(Waiting!fifoVars)
  BY StepMaps
<1> QED
  BY <1>1, <1>2, PTL DEF QueueSpec, QueueOrder, Waiting!Spec

-----------------------------------------------------------------------------
(***************************************************************************)
(* Configuration files.  A handler's steps are followed on the record the  *)
(* operators of Config pass around (Draft); what a save may leave is one   *)
(* relation (Saved), and each handler then is a matter of what it set.     *)
(***************************************************************************)
Draft == [up : BOOLEAN, mounted : BOOLEAN, files : [Names -> Content], ram : AllSettings,
          err : BOOLEAN, cache : Content, clean : BOOLEAN, restored : BOOLEAN]

\* The settings saved last are in the file, and may be read from it.
Kept ==
  /\ promise # None => files["cfg"] = Text(promise.val)
  /\ subject = "wifi" => /\ ram["ap_channel"] # Wrong
                         /\ promise # None => promise.val["ap_channel"] # Wrong

ConfigInv == ConfigTypes /\ SavesWhatWasSet /\ Kept

LEMMA ContentFacts ==
  /\ {Absent, Empty, Broken(1), Broken(2)} \subseteq Content
  /\ \A v \in Settings : Text(v) \in Content
  /\ \A c \in {Absent, Empty, Broken(1), Broken(2)} : c.kind # "text"
  /\ Empty # Absent /\ Empty.size = 0 /\ Absent.size = 0
<1>1. {Absent, Empty, Broken(1), Broken(2)} \subseteq Content
  BY DEF Content
<1>2. \A v \in Settings : Text(v) \in Content
  BY DEF Content
<1>3. \A c \in {Absent, Empty, Broken(1), Broken(2)} : c.kind # "text"
  BY DEF Absent, Empty, Broken
<1>4. Empty # Absent /\ Empty.size = 0 /\ Absent.size = 0
  BY DEF Absent, Empty
<1> QED BY <1>1, <1>2, <1>3, <1>4

LEMMA TextFacts ==
  ASSUME NEW c \in Content
  PROVE  /\ c.kind = "text" => c = Text(c.val) /\ c.val \in Settings
         /\ c.size \in 0..2 /\ (c.kind = "text" => c.size = 2)
BY DEF Content, Text, Absent, Empty, Broken

LEMMA TextOf ==
  ASSUME NEW v
  PROVE  Text(v).kind = "text" /\ Text(v).val = v /\ Text(v).size = 2
BY DEF Text

LEMMA AllAreSettings == AllSettings \subseteq Settings
BY DEF AllSettings, Settings

LEMMA JoinedContent ==
  ASSUME NEW c \in Content, NEW t \in Content
  PROVE  Joined(c, t) \in Content /\ (Joined(c, t) = t \/ Joined(c, t) = Broken(2))
BY ContentFacts DEF Joined

LEMMA NowDraft ==
  ASSUME ConfigTypes
  PROVE  /\ Now \in Draft /\ ~Now.err /\ Now.clean /\ Now.cache = Absent
         /\ Now.up = up /\ Now.mounted = mounted /\ Now.files = files /\ Now.ram = ram
         /\ Now.restored = restored
BY ContentFacts DEF ConfigTypes, Now, Draft

-----------------------------------------------------------------------------
(***************************************************************************)
(* The calls of the file system, on the file n.                            *)
(***************************************************************************)
\* Another state of the same handler, in which no file but n has changed.
After(d, r, n) ==
  /\ r \in Draft /\ r.ram = d.ram /\ r.restored = d.restored
  /\ r.clean => d.clean
  /\ \A m \in Names \ {n} : r.files[m] = d.files[m]

\* Nothing failed: there is power, and the file has no error.
Fine(d) == d.clean => d.up /\ ~d.err

LEMMA AfterAfter ==
  ASSUME NEW d, NEW r, NEW t, NEW n, After(d, r, n), After(r, t, n)
  PROVE  After(d, t, n)
BY DEF After

LEMMA DraftOff ==
  ASSUME NEW d \in Draft, NEW n
  PROVE  /\ After(d, d, n)
         /\ After(d, Failed(d), n) /\ Failed(d).err /\ ~Failed(d).clean
         /\ Failed(d).files = d.files /\ Failed(d).cache = d.cache
         /\ After(d, Off(d), n) /\ Off(d).err /\ ~Off(d).clean
         /\ Off(d).files = d.files /\ Off(d).cache = d.cache
BY DEF Draft, After, Failed, Off

LEMMA DraftFile ==
  ASSUME NEW d \in Draft, NEW n \in Names, NEW c \in Content
  PROVE  LET r == [d EXCEPT !.files[n] = c] IN
         /\ r \in Draft /\ After(d, r, n) /\ r.files[n] = c
         /\ r.err = d.err /\ r.cache = d.cache /\ r.clean = d.clean /\ r.up = d.up
BY DEF Draft, After

LEMMA EspfileStep ==
  ASSUME NEW d \in Draft, d.cache = Absent, NEW n \in Names, NEW r \in Espfile(d, n)
  PROVE  /\ After(d, r, n) /\ r.cache = Absent /\ Fine(r)
         /\ r.files[n] = d.files[n] \/ r.files[n] = Empty
<1> DEFINE made == IF d.files[n] = Absent THEN [d EXCEPT !.files[n] = Empty] ELSE d
<1>1. /\ made \in Draft /\ After(d, made, n) /\ made.cache = Absent
      /\ made.files[n] = d.files[n] \/ made.files[n] = Empty
  BY DraftFile, DraftOff, ContentFacts
<1>2. \/ d.up /\ r = [made EXCEPT !.err = FALSE, !.cache = Absent]
      \/ r \in {Failed(d), Failed(made), Off(d), Off(made)}
  BY DEF Espfile
<1> DEFINE o == [made EXCEPT !.err = FALSE, !.cache = Absent]
<1>3. made.up = d.up
  BY DraftFile, ContentFacts
<1> HIDE DEF made
<1>4. After(made, o, n) /\ o.cache = Absent /\ ~o.err /\ o.files = made.files /\ o.up = made.up
  BY <1>1, ContentFacts DEF Draft, After
<1> HIDE DEF o
<1>5. CASE r = o /\ d.up
  BY <1>1, <1>3, <1>4, <1>5, AfterAfter DEF Fine
<1>6. CASE r \in {Failed(d), Off(d)}
  BY <1>6, DraftOff DEF Fine
<1>7. CASE r \in {Failed(made), Off(made)}
  <2>1. After(made, r, n) /\ r.cache = made.cache /\ r.files = made.files /\ ~r.clean
    BY <1>1, <1>7, DraftOff
  <2> QED BY <1>1, <2>1, AfterAfter DEF Fine
<1> QED BY <1>2, <1>5, <1>6, <1>7 DEF o

LEMMA ClearStep ==
  ASSUME NEW d \in Draft, d.cache = Absent, Fine(d),
         NEW n \in Names, NEW r \in clear(d, n)
  PROVE  /\ After(d, r, n) /\ r.cache = Absent /\ Fine(r)
         /\ r.files[n] = d.files[n] \/ r.files[n] = Empty
         /\ ~r.err => r.files[n] = Empty
<1> DEFINE emptied == [d EXCEPT !.files[n] = Empty]
<1>1. /\ emptied \in Draft /\ After(d, emptied, n) /\ emptied.cache = Absent
      /\ emptied.files[n] = Empty /\ emptied.clean = d.clean /\ emptied.err = d.err
      /\ emptied.up = d.up
  BY DraftFile, ContentFacts
<1>2. \/ d.err /\ r = d
      \/ ~d.err /\ r \in {emptied, Failed(d), Failed(emptied), Off(d), Off(emptied)}
  BY DEF clear
<1> HIDE DEF emptied
<1>3. CASE r \in {d, emptied}
  BY <1>1, <1>2, <1>3, DraftOff DEF Fine
<1>4. CASE r \in {Failed(d), Off(d)}
  BY <1>4, DraftOff DEF Fine
<1>5. CASE r \in {Failed(emptied), Off(emptied)}
  <2>1. After(emptied, r, n) /\ r.cache = emptied.cache /\ r.files = emptied.files /\ ~r.clean /\ r.err
    BY <1>1, <1>5, DraftOff
  <2> QED BY <1>1, <2>1, AfterAfter DEF Fine
<1> QED BY <1>2, <1>3, <1>4, <1>5

LEMMA AppendStep ==
  ASSUME NEW d \in Draft, d.cache = Absent, Fine(d),
         NEW n \in Names, NEW t \in Content, NEW r \in n_append(d, n, t)
  PROVE  /\ After(d, r, n) /\ r.files = d.files
         /\ r.cache = Absent \/ (r.cache = t /\ ~d.err)
         /\ Fine(r) /\ (r.clean => r.cache = t)
<1> DEFINE o == [d EXCEPT !.cache = t]
<1>1. \/ d.err /\ r = d
      \/ ~d.err /\ (r = o \/ r \in {Failed(d), Off(d)})
  BY DEF n_append
<1>2. /\ After(d, o, n) /\ o.files = d.files /\ o.cache = t
      /\ o.up = d.up /\ o.err = d.err /\ o.clean = d.clean
  BY DEF Draft, After
<1> HIDE DEF o
<1>3. CASE r \in {Failed(d), Off(d)}
  BY <1>3, DraftOff DEF Fine
<1>4. CASE d.err /\ r = d
  BY <1>4, DraftOff DEF Fine
<1>5. CASE ~d.err /\ r = o
  BY <1>2, <1>5 DEF Fine
<1> QED BY <1>1, <1>3, <1>4, <1>5

LEMMA ClosedStep ==
  ASSUME NEW d \in Draft, Fine(d), NEW n \in Names, NEW r \in Closed(d, n)
  PROVE  /\ After(d, r, n)
         /\ \/ r.files[n] = d.files[n]
            \/ /\ d.cache # Absent
               /\ r.files[n] \in {Joined(d.files[n], d.cache), Broken(1), Broken(2)}
         /\ r.clean /\ d.cache # Absent => r.files[n] = Joined(d.files[n], d.cache)
<1> DEFINE old == d.files[n]
           b == IF old.size = 0 THEN Broken(1) ELSE Broken(2)
           cut == [d EXCEPT !.files[n] = b]
           j == Joined(old, d.cache)
           written == [d EXCEPT !.files[n] = j]
<1>1. old \in Content /\ d.cache \in Content
  BY DEF Draft
<1>2. b \in Content /\ b \in {Broken(1), Broken(2)} /\ j \in Content
  BY <1>1, ContentFacts, JoinedContent
<1> HIDE DEF b, j
<1>3. /\ After(d, cut, n) /\ cut.files[n] = b /\ cut \in Draft
      /\ After(d, written, n) /\ written.files[n] = j /\ written \in Draft
  BY <1>2, DraftFile
<1>4. \/ (d.cache = Absent \/ ~d.up) /\ r = d
      \/ /\ d.cache # Absent /\ d.up
         /\ \/ r = written
            \/ r = [d EXCEPT !.clean = FALSE]
            \/ r = [cut EXCEPT !.clean = FALSE]
            \/ r \in {Off(d), Off(cut), Off(written)}
  BY DEF Closed, b, j
<1> HIDE DEF cut, written
<1>5. ASSUME NEW x \in Draft
      PROVE  LET o == [x EXCEPT !.clean = FALSE] IN
             After(x, o, n) /\ o.files = x.files /\ ~o.clean
  BY DEF Draft, After
<1>6. After(d, d, n)
  BY DraftOff
<1>7. CASE r = d /\ (d.cache = Absent \/ ~d.up)
  BY <1>6, <1>7 DEF Fine
<1>8. CASE r = written /\ d.cache # Absent
  BY <1>3, <1>8 DEF j
<1>9. ASSUME NEW x \in {d, cut, written}, d.cache # Absent,
             r = [x EXCEPT !.clean = FALSE] \/ r = Off(x)
      PROVE  /\ After(d, r, n) /\ ~r.clean
             /\ r.files[n] = d.files[n] \/ r.files[n] \in {j, Broken(1), Broken(2)}
  <2>1. /\ x \in Draft /\ After(d, x, n)
        /\ x.files[n] = d.files[n] \/ x.files[n] \in {j, Broken(1), Broken(2)}
    BY <1>2, <1>3, <1>6
  <2>2. After(x, r, n) /\ r.files = x.files /\ ~r.clean
    <3>1. CASE r = [x EXCEPT !.clean = FALSE]
      BY <1>5, <2>1, <3>1
    <3>2. CASE r = Off(x)
      BY <2>1, <3>2, DraftOff
    <3> QED BY <1>9, <3>1, <3>2
  <2> QED BY <2>1, <2>2, AfterAfter
<1> QED BY <1>4, <1>7, <1>8, <1>9 DEF j

-----------------------------------------------------------------------------
(***************************************************************************)
(* Saving.  Either nothing failed and the file is the text of what is in   *)
(* RAM, or the file is as it was, or a part of that text.                  *)
(***************************************************************************)
Saved(d, r) ==
  /\ After(d, r, "cfg")
  /\ r.clean => r.files["cfg"] = Text(d.ram)
  /\ r.files["cfg"] \in {d.files["cfg"], Empty, Broken(1), Broken(2), Text(d.ram)}

LEMMA RewrittenSaves ==
  ASSUME NEW d \in Draft, d.cache = Absent, Text(d.ram) \in Content, NEW r \in Rewritten(d)
  PROVE  Saved(d, r)
<1> DEFINE t == Text(d.ram)
<1>1. "cfg" \in Names
  BY DEF Names
<1>2. PICK x \in Espfile(d, "cfg") :
        \E y \in clear(x, "cfg") : \E z \in n_append(y, "cfg", t) : r \in Closed(z, "cfg")
  BY DEF Rewritten
<1>3. /\ After(d, x, "cfg") /\ x.cache = Absent /\ Fine(x) /\ x \in Draft
      /\ x.files["cfg"] = d.files["cfg"] \/ x.files["cfg"] = Empty
  BY <1>1, <1>2, EspfileStep DEF After
<1>4. PICK y \in clear(x, "cfg") : \E z \in n_append(y, "cfg", t) : r \in Closed(z, "cfg")
  BY <1>2
<1>5. /\ After(x, y, "cfg") /\ y.cache = Absent /\ Fine(y) /\ y \in Draft
      /\ y.files["cfg"] = x.files["cfg"] \/ y.files["cfg"] = Empty
      /\ ~y.err => y.files["cfg"] = Empty
  BY <1>1, <1>3, ClearStep DEF After
<1>6. PICK z \in n_append(y, "cfg", t) : r \in Closed(z, "cfg")
  BY <1>4
<1>7. /\ After(y, z, "cfg") /\ z.files = y.files /\ Fine(z) /\ z \in Draft
      /\ z.cache = Absent \/ (z.cache = t /\ ~y.err)
      /\ z.clean => z.cache = t
  BY <1>1, <1>5, AppendStep DEF After
<1>8. /\ After(z, r, "cfg")
      /\ \/ r.files["cfg"] = z.files["cfg"]
         \/ /\ z.cache # Absent
            /\ r.files["cfg"] \in {Joined(z.files["cfg"], z.cache), Broken(1), Broken(2)}
      /\ r.clean /\ z.cache # Absent => r.files["cfg"] = Joined(z.files["cfg"], z.cache)
  BY <1>1, <1>6, <1>7, ClosedStep
<1>9. z.cache # Absent => Joined(z.files["cfg"], z.cache) = t
  BY <1>5, <1>7, ContentFacts DEF Joined
<1>10. t # Absent
  BY DEF Text, Absent
<1>11. r.clean => z.clean
  BY <1>8 DEF After
<1>12. After(d, r, "cfg")
  BY <1>3, <1>5, <1>7, <1>8, AfterAfter
<1>13. r.clean => r.files["cfg"] = t
  BY <1>7, <1>8, <1>9, <1>10, <1>11
<1>14. r.files["cfg"] \in {d.files["cfg"], Empty, Broken(1), Broken(2), t}
  BY <1>3, <1>5, <1>7, <1>8, <1>9
<1> QED BY <1>12, <1>13, <1>14 DEF Saved

LEMMA ReadFacts ==
  ASSUME NEW d \in Draft, NEW t \in Read(d)
  PROVE  /\ t.text \in {d.files["cfg"], Broken(1), Empty} /\ t.clean \in BOOLEAN
         /\ t.text.kind = "text" => t.text = d.files["cfg"]
         /\ t.clean => \E k \in Sizes(d, "cfg") :
                         t.text = IF k >= d.files["cfg"].size THEN d.files["cfg"] ELSE Broken(1)
<1> DEFINE found(k) == IF k >= d.files["cfg"].size THEN d.files["cfg"] ELSE Broken(1)
<1>1. \/ \E k \in Sizes(d, "cfg") : t = [text |-> found(k), clean |-> TRUE]
      \/ t = [text |-> Empty, clean |-> FALSE]
  BY DEF Read
<1>2. \A k : found(k) \in {d.files["cfg"], Broken(1)}
  OBVIOUS
<1> HIDE DEF found
<1>3. CASE t = [text |-> Empty, clean |-> FALSE]
  BY <1>3, ContentFacts
<1>4. ASSUME NEW k \in Sizes(d, "cfg"), t = [text |-> found(k), clean |-> TRUE]
      PROVE  t.text = found(k) /\ t.clean = TRUE
  BY <1>4
<1> QED BY <1>1, <1>2, <1>3, <1>4, ContentFacts DEF found

\* The settings in a text of the part's file.
LEMMA HeldSettings ==
  ASSUME NEW t \in Content, Holds(t, subject)
  PROVE  t = Text(t.val) /\ t.val \in AllSettings
<1>1. t = Text(t.val) /\ t.val \in Settings /\ Fields[subject] \subseteq DOMAIN t.val
  BY TextFacts DEF Holds
<1>2. PICK S \in SUBSET Fields[subject] : t.val \in [S -> Values \cup {Wrong}]
  BY <1>1 DEF Settings
<1>3. S = Fields[subject]
  BY <1>1, <1>2
<1> QED BY <1>1, <1>2, <1>3 DEF AllSettings

SaveOf(d, c) ==
  IF ~exists(d, "cfg") THEN Rewritten(d)
  ELSE UNION {IF UpToDate(t.text, d, c) THEN {[d EXCEPT !.clean = @ /\ t.clean]}
              ELSE Rewritten([d EXCEPT !.clean = @ /\ t.clean]) : t \in Read(d)}

LEMMA SaveSaves ==
  ASSUME NEW d \in Draft, d.cache = Absent, NEW r \in SaveOf(d, subject)
  PROVE  Saved(d, r)
<1>1. d.ram \in AllSettings /\ Text(d.ram) \in Content
  BY ContentFacts, AllAreSettings DEF Draft
<1>2. CASE ~exists(d, "cfg")
  BY <1>1, <1>2, RewrittenSaves DEF SaveOf
<1>3. CASE exists(d, "cfg")
  <2>1. PICK t \in Read(d) :
          r \in IF UpToDate(t.text, d, subject) THEN {[d EXCEPT !.clean = @ /\ t.clean]}
                ELSE Rewritten([d EXCEPT !.clean = @ /\ t.clean])
    BY <1>3 DEF SaveOf
  <2> DEFINE b == d.clean /\ t.clean
             e == [d EXCEPT !.clean = b]
  <2>2. /\ e \in Draft /\ After(d, e, "cfg") /\ e.files = d.files /\ e.ram = d.ram
        /\ e.cache = d.cache
    <3>1. b \in BOOLEAN
      BY ReadFacts DEF Draft
    <3>2. b => d.clean
      OBVIOUS
    <3> HIDE DEF b
    <3> QED BY <3>1, <3>2 DEF Draft, After
  <2>3. IF UpToDate(t.text, d, subject) THEN r = e ELSE r \in Rewritten(e)
    BY <2>1
  <2> HIDE DEF e
  <2>4. CASE UpToDate(t.text, d, subject)
    <3>1. t.text = d.files["cfg"] /\ t.text \in Content
      BY <2>4, ReadFacts DEF UpToDate, Holds, Draft, Names
    <3>2. t.text = Text(t.text.val) /\ t.text.val \in AllSettings
      BY <2>4, <3>1, HeldSettings DEF UpToDate
    <3>3. t.text.val = d.ram
      BY <1>1, <2>4, <3>2 DEF UpToDate, AllSettings
    <3> QED BY <2>2, <2>3, <2>4, <3>1, <3>2, <3>3 DEF Saved
  <2>5. CASE ~UpToDate(t.text, d, subject)
    <3>1. Saved(e, r)
      BY <1>1, <2>2, <2>3, <2>5, RewrittenSaves
    <3> QED BY <2>2, <3>1, AfterAfter DEF Saved
  <2> QED BY <2>4, <2>5
<1> QED BY <1>2, <1>3

LEMMA AllSave ==
  ASSUME NEW d
  PROVE  /\ espbot_cfg_save(d) = SaveOf(d, "espbot") /\ cron_cfg_save(d) = SaveOf(d, "cron")
         /\ dia_cfg_save(d) = SaveOf(d, "diagnostic") /\ mdns_cfg_save(d) = SaveOf(d, "mdns")
         /\ ota_cfg_save(d) = SaveOf(d, "ota") /\ timedate_cfg_save(d) = SaveOf(d, "timedate")
         /\ espwifi_cfg_save(d) = SaveOf(d, "wifi")
<1>1. /\ espbot_cfg_save(d) = SaveOf(d, "espbot") /\ cron_cfg_save(d) = SaveOf(d, "cron")
      /\ dia_cfg_save(d) = SaveOf(d, "diagnostic") /\ mdns_cfg_save(d) = SaveOf(d, "mdns")
  BY DEF SaveOf, Save, espbot_cfg_save, espbot_saved_cfg_updated, cron_cfg_save,
         cron_saved_cfg_updated, dia_cfg_save, dia_saved_cfg_updated, mdns_cfg_save,
         mdns_saved_cfg_updated
<1>2. /\ ota_cfg_save(d) = SaveOf(d, "ota") /\ timedate_cfg_save(d) = SaveOf(d, "timedate")
      /\ espwifi_cfg_save(d) = SaveOf(d, "wifi")
  BY DEF SaveOf, Save, ota_cfg_save, ota_saved_cfg_updated, timedate_cfg_save,
         timedate_saved_cfg_updated, espwifi_cfg_save, wifi_cfg_uptodate
<1> QED BY <1>1, <1>2

-----------------------------------------------------------------------------
(***************************************************************************)
(* Handlers.                                                               *)
(***************************************************************************)
LEMMA ChannelDiffers == "ap_channel" \in Fields["wifi"]
BY DEF Fields

LEMMA FileUntouched ==
  ASSUME ConfigInv, NEW d \in Draft, NEW r, Saved(d, r), d.files = files
  PROVE  /\ r.files \in [Names -> Content] /\ r.files["longer"] = files["longer"]
         /\ \/ r.files["cfg"] = files["cfg"]
            \/ r.files["cfg"] = Text(d.ram)
            \/ r.files["cfg"].kind # "text"
BY ContentFacts DEF Saved, After, Draft, Names

\* The handler set some fields, and may have saved.
LEMMA DoneInv ==
  ASSUME ConfigInv, up, NEW d \in Draft, NEW r, NEW set \in SUBSET Fields[subject],
         NEW saves \in BOOLEAN,
         d.files = files, d.restored = restored,
         \A f \in Fields[subject] \ set : d.ram[f] = ram[f],
         subject = "wifi" => d.ram["ap_channel"] # Wrong,
         Saved(d, r) \/ (r = d /\ ~saves),
         Done(r, set, saves)
  PROVE  ConfigInv'
<1>1. /\ r \in Draft /\ r.ram = d.ram /\ r.restored = restored /\ d.ram \in AllSettings
      /\ r.up \in BOOLEAN /\ r.mounted \in BOOLEAN /\ r.files \in [Names -> Content]
      /\ saves /\ r.clean => r.files["cfg"] = Text(d.ram)
      /\ \/ r.files["cfg"] = files["cfg"]
         \/ r.files["cfg"] = Text(d.ram)
         \/ r.files["cfg"].kind # "text"
  <2>1. CASE Saved(d, r)
    BY <2>1, FileUntouched DEF Saved, After, Draft
  <2>2. CASE r = d /\ ~saves
    BY <2>2 DEF Draft
  <2> QED BY <2>1, <2>2
<1>2. /\ up' = r.up /\ mounted' = r.mounted /\ files' = r.files /\ ram' = d.ram
      /\ subject' = subject
      /\ promise' = CASE saves /\ r.clean -> SavedAs(d.ram)
                      [] r.files["cfg"] = files["cfg"] -> promise
                      [] OTHER -> None
      /\ touched' = IF InFile(r) THEN {} ELSE touched \cup set
      /\ restored' = (restored \/ InFile(r))
  BY <1>1 DEF Done
<1>3. \/ promise' = SavedAs(d.ram) /\ files'["cfg"] = Text(d.ram)
      \/ promise' = promise /\ files'["cfg"] = files["cfg"]
      \/ promise' = None
  BY <1>1, <1>2
<1>4. SavedAs(d.ram).val = d.ram /\ SavedAs(d.ram) # None
  BY DEF SavedAs, None
<1>5. ConfigTypes'
  <2>1. /\ AllSettings' = AllSettings /\ Content' = Content
    BY <1>2 DEF AllSettings, Content, Settings
  <2>2. promise' \in {None} \cup {SavedAs(v) : v \in AllSettings}
    BY <1>1, <1>3 DEF ConfigInv, ConfigTypes
  <2>3. touched' \subseteq Fields[subject] /\ restored' \in BOOLEAN
    BY <1>2 DEF ConfigInv, ConfigTypes, InFile
  <2> QED BY <1>1, <1>2, <2>1, <2>2, <2>3 DEF ConfigInv, ConfigTypes
<1>6. SavesWhatWasSet'
  <2> SUFFICES ASSUME up', restored', files'["cfg"].kind = "text",
                      NEW f \in Fields[subject] \ touched'
               PROVE  files'["cfg"].val[f] = ram'[f]
    BY <1>2 DEF SavesWhatWasSet
  <2>1. CASE r.files["cfg"] = Text(d.ram)
    BY <1>2, <2>1, TextOf
  <2>2. CASE r.files["cfg"] # Text(d.ram)
    <3>1. ~InFile(r) /\ r.files["cfg"] = files["cfg"]
      BY <1>1, <1>2, <2>2 DEF InFile
    <3>2. restored /\ f \notin touched /\ f \notin set
      BY <1>2, <3>1
    <3>3. files["cfg"].val[f] = ram[f]
      BY <1>2, <3>1, <3>2 DEF ConfigInv, SavesWhatWasSet
    <3> QED BY <1>2, <3>1, <3>2, <3>3
  <2> QED BY <2>1, <2>2
<1>7. Kept'
  BY <1>2, <1>3, <1>4 DEF ConfigInv, Kept
<1> QED BY <1>5, <1>6, <1>7 DEF ConfigInv

\* A request's new settings, in RAM.
LEMMA SetInv ==
  ASSUME ConfigInv, up, NEW new, DOMAIN new \subseteq Fields[subject],
         \A f \in DOMAIN new : new[f] \in Values \cup {Wrong},
         subject = "wifi" /\ "ap_channel" \in DOMAIN new => new["ap_channel"] # Wrong,
         NEW r \in SaveOf([Now EXCEPT !.ram = [f \in DOMAIN ram |->
                             IF f \in DOMAIN new THEN new[f] ELSE ram[f]]], subject),
         Done(r, DOMAIN new, TRUE)
  PROVE  ConfigInv'
<1> DEFINE m == [f \in DOMAIN ram |-> IF f \in DOMAIN new THEN new[f] ELSE ram[f]]
           d == [Now EXCEPT !.ram = m]
<1>1. ram \in [Fields[subject] -> Values \cup {Wrong}] /\ ConfigTypes
  BY DEF ConfigInv, ConfigTypes, AllSettings
<1>2. /\ m \in AllSettings /\ \A f \in Fields[subject] \ DOMAIN new : m[f] = ram[f]
      /\ subject = "wifi" => m["ap_channel"] # Wrong
  BY <1>1, ChannelDiffers DEF AllSettings, ConfigInv, Kept
<1> HIDE DEF m
<1>3. d \in Draft /\ d.cache = Absent /\ d.files = files /\ d.restored = restored /\ d.ram = m
  BY <1>1, <1>2, NowDraft DEF Draft
<1>4. r \in SaveOf(d, subject)
  BY DEF m
<1> HIDE DEF d
<1>5. Saved(d, r)
  BY <1>3, <1>4, SaveSaves
<1> QED BY <1>2, <1>3, <1>5, DoneInv

(* Starting. *)

\* Whatever the text that is read, RAM has all settings; if it comes from the file, it is
\* what the file says; and it does when nothing failed and no shorter file hides it.
RestoredFrom(d, r) ==
  /\ r.files = d.files /\ r.mounted = d.mounted /\ r.restored \in BOOLEAN
  /\ r.ram \in AllSettings
  /\ subject = "wifi" /\ d.ram["ap_channel"] # Wrong => r.ram["ap_channel"] # Wrong
  /\ r.restored /\ d.files["cfg"].kind = "text" =>
       \A f \in Fields[subject] : d.files["cfg"].val[f] = r.ram[f]
  /\ \A v \in AllSettings :
       /\ d.mounted /\ r.clean /\ d.files["cfg"] = Text(v)
       /\ subject = "wifi" => v["ap_channel"] # Wrong
       /\ d.files["longer"] = Absent \/ d.files["longer"].size >= 2
       => r.ram = v

LEMMA NothingRestored ==
  ASSUME NEW d \in Draft, d.up, ~exists(d, "cfg"), NEW r,
         r = [d EXCEPT !.restored = d.mounted]
  PROVE  RestoredFrom(d, r)
<1>1. d.mounted => d.files["cfg"] = Absent
  BY DEF exists
<1>2. \A v : Absent # Text(v)
  BY DEF Absent, Text
<1>3. Absent.kind # "text"
  BY DEF Absent
<1>4. r.restored => d.mounted
  BY DEF Draft
<1>5. r.ram = d.ram /\ r.files = d.files /\ r.mounted = d.mounted /\ r.restored \in BOOLEAN
  BY DEF Draft
<1>6. d.ram \in AllSettings
  BY DEF Draft
<1> QED BY <1>1, <1>2, <1>3, <1>4, <1>5, <1>6 DEF RestoredFrom

\* Nothing cuts the text of a whole file.
LEMMA WholeRead ==
  ASSUME NEW d \in Draft, NEW t \in Read(d), t.clean, NEW v, d.files["cfg"] = Text(v),
         d.files["longer"] = Absent \/ d.files["longer"].size >= 2
  PROVE  t.text = Text(v)
<1>1. PICK k \in Sizes(d, "cfg") :
        t.text = IF k >= d.files["cfg"].size THEN d.files["cfg"] ELSE Broken(1)
  BY ReadFacts
<1>2. PICK m \in {"cfg", "longer"} : k = d.files[m].size /\ d.files[m] # Absent
  BY <1>1 DEF Sizes, BeginWith, Names
<1>3. d.files["cfg"].size = 2 /\ d.files["longer"].size \in Int
  BY TextOf, TextFacts DEF Draft, Names
<1> QED BY <1>1, <1>2, <1>3

LEMMA RestoreAll ==
  ASSUME NEW d \in Draft, d.up, subject \in Configs, subject # "wifi",
         NEW r \in Restore(d, subject)
  PROVE  RestoredFrom(d, r)
<1>1. CASE ~exists(d, "cfg")
  BY <1>1, NothingRestored DEF Restore
<1>2. CASE exists(d, "cfg")
  <2>1. PICK t \in Read(d) :
          r = [d EXCEPT !.clean = @ /\ t.clean,
                        !.ram = IF Holds(t.text, subject)
                                THEN [f \in Fields[subject] |-> t.text.val[f]] ELSE @,
                        !.restored = Holds(t.text, subject) \/ d.files["cfg"].kind # "text"]
    BY <1>2 DEF Restore
  <2>2. /\ r.files = d.files /\ r.mounted = d.mounted /\ r.clean = (d.clean /\ t.clean)
        /\ r.ram = IF Holds(t.text, subject) THEN [f \in Fields[subject] |-> t.text.val[f]]
                   ELSE d.ram
        /\ r.restored = (Holds(t.text, subject) \/ d.files["cfg"].kind # "text")
    BY <2>1 DEF Draft
  <2>3. d.files["cfg"] \in Content /\ t.text \in Content
    BY ReadFacts, ContentFacts DEF Draft, Names
  <2>4. Holds(t.text, subject) =>
          /\ t.text = d.files["cfg"] /\ t.text = Text(t.text.val)
          /\ t.text.val \in AllSettings /\ r.ram = t.text.val
    BY <2>2, <2>3, HeldSettings, ReadFacts DEF Holds, AllSettings
  <2>5. r.ram \in AllSettings
    BY <2>2, <2>4 DEF Draft
  <2>6. ASSUME NEW v \in AllSettings, r.clean, d.files["cfg"] = Text(v),
               d.files["longer"] = Absent \/ d.files["longer"].size >= 2
        PROVE  r.ram = v
    <3>1. t.text = Text(v)
      BY <2>2, <2>6, WholeRead
    <3>2. Holds(t.text, subject) /\ t.text.val = v
      BY <3>1, TextOf DEF Holds, AllSettings
    <3> QED BY <2>4, <3>2
  <2>7. r.restored /\ d.files["cfg"].kind = "text" =>
          \A f \in Fields[subject] : d.files["cfg"].val[f] = r.ram[f]
    BY <2>2, <2>4
  <2> QED BY <2>2, <2>5, <2>6, <2>7 DEF RestoredFrom
<1> QED BY <1>1, <1>2

LEMMA WifiRestored ==
  ASSUME NEW d \in Draft, d.up, subject = "wifi", NEW r \in wifi_cfg_restore(d)
  PROVE  RestoredFrom(d, r)
<1>1. CASE ~exists(d, "cfg")
  BY <1>1, NothingRestored DEF wifi_cfg_restore
<1>2. CASE exists(d, "cfg")
  <2> DEFINE found(t) == IF t.text.kind = "text"
                         THEN DOMAIN t.text.val \cap WifiFields(t.text) ELSE {}
             inRange(t, f) == f # "ap_channel" \/ t.text.val[f] # Wrong
  <2>1. PICK t \in Read(d) :
          r = [d EXCEPT !.clean = @ /\ t.clean,
                        !.ram = [f \in DOMAIN @ |->
                                   IF f \in found(t) /\ inRange(t, f) THEN t.text.val[f] ELSE @[f]],
                        !.restored = \/ d.files["cfg"].kind # "text"
                                     \/ found(t) = DOMAIN d.ram /\ inRange(t, "ap_channel")]
    BY <1>2 DEF wifi_cfg_restore
  <2>2. /\ r.files = d.files /\ r.mounted = d.mounted /\ r.clean = (d.clean /\ t.clean)
        /\ r.ram = [f \in DOMAIN d.ram |->
                      IF f \in found(t) /\ inRange(t, f) THEN t.text.val[f] ELSE d.ram[f]]
        /\ r.restored = (\/ d.files["cfg"].kind # "text"
                         \/ found(t) = DOMAIN d.ram /\ inRange(t, "ap_channel"))
    BY <2>1 DEF Draft
  <2>3. d.files["cfg"] \in Content /\ t.text \in Content
    BY ReadFacts, ContentFacts DEF Draft, Names
  <2>4. d.ram \in [Fields["wifi"] -> Values \cup {Wrong}]
    BY DEF Draft, AllSettings
  <2>5. \A f \in found(t) : t.text.val[f] \in Values \cup {Wrong}
    BY <2>3, TextFacts DEF Settings
  <2>6. r.ram \in AllSettings
    BY <2>2, <2>4, <2>5 DEF AllSettings
  <2>7. d.ram["ap_channel"] # Wrong => r.ram["ap_channel"] # Wrong
    BY <2>2, <2>4, ChannelDiffers
  <2>8. t.text.kind # "text" => found(t) = {}
    OBVIOUS
  <2>9. r.restored /\ d.files["cfg"].kind = "text" =>
          \A f \in Fields["wifi"] : d.files["cfg"].val[f] = r.ram[f]
    <3> SUFFICES ASSUME r.restored, d.files["cfg"].kind = "text", NEW f \in Fields["wifi"]
                 PROVE  d.files["cfg"].val[f] = r.ram[f]
      OBVIOUS
    <3>1. found(t) = Fields["wifi"] /\ inRange(t, "ap_channel") /\ inRange(t, f)
      BY <2>2, <2>4
    <3>2. t.text.kind = "text" /\ t.text = d.files["cfg"]
      BY <2>8, <3>1, ChannelDiffers, ReadFacts
    <3> HIDE DEF found, inRange
    <3> QED BY <2>2, <2>4, <3>1, <3>2
  <2>10. ASSUME NEW v \in AllSettings, r.clean, d.files["cfg"] = Text(v),
                v["ap_channel"] # Wrong,
                d.files["longer"] = Absent \/ d.files["longer"].size >= 2
         PROVE  r.ram = v
    <3>1. t.text = Text(v)
      <4>1. t.clean
        BY <2>2, <2>10
      <4> HIDE DEF found, inRange
      <4> QED BY <2>10, <4>1, WholeRead
    <3>2. t.text.kind = "text" /\ t.text.val = v /\ v \in [Fields["wifi"] -> Values \cup {Wrong}]
      BY <3>1, TextOf DEF AllSettings
    <3>3. found(t) = Fields["wifi"]
      BY <3>2 DEF WifiFields, Fields
    <3>4. \A f \in Fields["wifi"] : r.ram[f] = v[f]
      BY <2>2, <2>4, <2>10, <3>2, <3>3
    <3>5. r.ram \in [Fields["wifi"] -> Values \cup {Wrong}]
      BY <2>6 DEF AllSettings
    <3> QED BY <3>2, <3>4, <3>5
  <2> QED BY <2>2, <2>6, <2>7, <2>9, <2>10 DEF RestoredFrom
<1> QED BY <1>1, <1>2

LEMMA RestoreStep ==
  ASSUME NEW d \in Draft, d.up, subject \in Configs, NEW r \in restore_cfg(d)
  PROVE  RestoredFrom(d, r)
<1>1. CASE subject = "wifi"
  BY <1>1, WifiRestored DEF restore_cfg
<1>2. CASE subject # "wifi"
  BY <1>2, RestoreAll
  DEF restore_cfg, Configs, espbot_restore_cfg, cron_restore_cfg, dia_restore_cfg,
      mdns_restore_cfg, ota_restore_cfg, timedate_restore_cfg
<1> QED BY <1>1, <1>2

LEMMA SomeDefaults ==
  ASSUME subject \in Configs
  PROVE  Defaults(subject) \in AllSettings /\ (subject = "wifi" =>
                                                 Defaults(subject)["ap_channel"] # Wrong)
BY ConfigConstants, ChannelDiffers DEF Defaults, AllSettings

LEMMA InitConfigInv == ConfigInit => ConfigInv
<1> SUFFICES ASSUME ConfigInit PROVE ConfigInv
  OBVIOUS
<1>1. ConfigTypes
  BY SomeDefaults, ContentFacts DEF ConfigInit, ConfigTypes
<1>2. SavesWhatWasSet
  BY DEF ConfigInit, SavesWhatWasSet
<1>3. Kept
  BY SomeDefaults DEF ConfigInit, Kept
<1> QED BY <1>1, <1>2, <1>3 DEF ConfigInv

LEMMA StartInv == ConfigInv /\ espbot_init => ConfigInv'
<1> SUFFICES ASSUME ConfigInv, espbot_init PROVE ConfigInv'
  OBVIOUS
<1> DEFINE s == [Now EXCEPT !.up = TRUE, !.ram = Defaults(subject)]
           all == [n \in Names |-> Absent]
<1>1. PICK m \in Mounted(s) : \E d \in restore_cfg(m) :
         /\ up' = TRUE /\ mounted' = d.mounted /\ files' = d.files /\ ram' = d.ram
         /\ promise' = IF d.files = files THEN promise ELSE None
         /\ touched' = {} /\ restored' = d.restored /\ UNCHANGED subject
  BY DEF espbot_init
<1>2. PICK d \in restore_cfg(m) :
         /\ up' = TRUE /\ mounted' = d.mounted /\ files' = d.files /\ ram' = d.ram
         /\ promise' = IF d.files = files THEN promise ELSE None
         /\ touched' = {} /\ restored' = d.restored /\ UNCHANGED subject
  BY <1>1
<1>3. ConfigTypes
  BY DEF ConfigInv
<1>4. s \in Draft /\ s.up /\ s.ram = Defaults(subject)
  <2>1. Defaults(subject) \in AllSettings
    BY <1>3, SomeDefaults DEF ConfigTypes
  <2> QED BY <1>3, <2>1, NowDraft DEF Draft
<1>5. all \in [Names -> Content]
  BY ContentFacts
<1>6. m \in Draft /\ m.up /\ m.ram = s.ram
  <2>1. \/ m = [s EXCEPT !.mounted = TRUE]
        \/ m = Failed([s EXCEPT !.mounted = FALSE])
        \/ \E b \in BOOLEAN : m = Failed([s EXCEPT !.files = all, !.mounted = b])
    BY <1>1 DEF Mounted
  <2> HIDE DEF s, all
  <2> QED BY <1>4, <1>5, <2>1 DEF Draft, Failed
<1>7. RestoredFrom(m, d)
  BY <1>2, <1>3, <1>6, RestoreStep DEF ConfigTypes
<1>8. d.files \in [Names -> Content] /\ d.mounted \in BOOLEAN
  BY <1>6, <1>7 DEF RestoredFrom, Draft
<1>9. ConfigTypes'
  <2>1. AllSettings' = AllSettings /\ Content' = Content
    BY <1>2 DEF AllSettings, Content, Settings
  <2>2. promise' \in {None} \cup {SavedAs(v) : v \in AllSettings}
    BY <1>2, <1>3 DEF ConfigTypes
  <2> QED BY <1>2, <1>3, <1>7, <1>8, <2>1, <2>2 DEF ConfigTypes, RestoredFrom
<1>10. SavesWhatWasSet'
  BY <1>2, <1>7 DEF SavesWhatWasSet, RestoredFrom
<1>11. Kept'
  <2>1. subject = "wifi" => ram'["ap_channel"] # Wrong
    BY <1>2, <1>3, <1>4, <1>6, <1>7, SomeDefaults DEF RestoredFrom, ConfigTypes
  <2> QED BY <1>2, <2>1 DEF ConfigInv, Kept
<1> QED BY <1>9, <1>10, <1>11 DEF ConfigInv

LEMMA OffInv == ConfigInv /\ PowerOff => ConfigInv'
<1> SUFFICES ASSUME ConfigInv, PowerOff PROVE ConfigInv'
  OBVIOUS
<1>1. AllSettings' = AllSettings /\ Content' = Content
  BY DEF AllSettings, Content, Settings, PowerOff
<1> QED BY <1>1 DEF ConfigInv, ConfigTypes, SavesWhatWasSet, Kept, PowerOff

(* Requests. *)

LEMMA WifiSet == Fields["wifi"] = {"station", "ap_channel", "ap_pwd"}
BY DEF Fields

SetsTo(c, new) ==
  /\ up /\ subject = c
  /\ \E d \in SaveOf([Now EXCEPT !.ram = [f \in DOMAIN ram |->
                        IF f \in DOMAIN new THEN new[f] ELSE ram[f]]], c) :
       Done(d, DOMAIN new, TRUE)

LEMMA SetsInv ==
  ASSUME ConfigInv, NEW c, NEW new, SetsTo(c, new), DOMAIN new \subseteq Fields[c],
         \A f \in DOMAIN new : new[f] \in Values \cup {Wrong},
         c = "wifi" /\ "ap_channel" \in DOMAIN new => new["ap_channel"] # Wrong
  PROVE  ConfigInv'
BY SetInv DEF SetsTo

LEMMA OneSetInv == ConfigInv /\ (setDeviceName \/ setCron \/ setMdns) => ConfigInv'
<1> SUFFICES ASSUME ConfigInv, setDeviceName \/ setCron \/ setMdns PROVE ConfigInv'
  OBVIOUS
<1>1. \/ \E v \in Values : SetsTo("espbot", [device_name |-> v])
      \/ \E v \in Values, c \in {"cron", "mdns"} : SetsTo(c, [enabled |-> v])
  BY AllSave DEF setDeviceName, setCron, setMdns, Set, SetsTo
<1>2. ASSUME NEW v \in Values, SetsTo("espbot", [device_name |-> v]) PROVE ConfigInv'
  <2> DEFINE new == [device_name |-> v]
  <2>1. DOMAIN new \subseteq Fields["espbot"] /\ \A f \in DOMAIN new : new[f] \in Values
    BY DEF Fields
  <2> HIDE DEF new
  <2> QED BY <1>2, <2>1, SetsInv DEF new
<1>3. ASSUME NEW v \in Values, NEW c \in {"cron", "mdns"}, SetsTo(c, [enabled |-> v])
      PROVE  ConfigInv'
  <2> DEFINE new == [enabled |-> v]
  <2>1. DOMAIN new \subseteq Fields[c] /\ \A f \in DOMAIN new : new[f] \in Values
    BY DEF Fields
  <2>2. c # "wifi"
    OBVIOUS
  <2> HIDE DEF new
  <2> QED BY <1>3, <2>1, <2>2, SetsInv DEF new
<1> QED BY <1>1, <1>2, <1>3

LEMMA TwoSetInv ==
  ConfigInv /\ (setTimedateCfg \/ setOtaCfg \/ setDiagnosticCfg \/ setWifiApCfg) => ConfigInv'
<1> SUFFICES ASSUME ConfigInv,
                    setTimedateCfg \/ setOtaCfg \/ setDiagnosticCfg \/ setWifiApCfg
             PROVE  ConfigInv'
  OBVIOUS
<1>1. CASE setTimedateCfg
  <2>1. PICK v \in Values, w \in Values :
          SetsTo("timedate", [sntp_enabled |-> v, timezone |-> w])
    BY <1>1, AllSave DEF setTimedateCfg, Set, SetsTo
  <2> DEFINE new == [sntp_enabled |-> v, timezone |-> w]
  <2>2. DOMAIN new \subseteq Fields["timedate"] /\ \A f \in DOMAIN new : new[f] \in Values
    BY DEF Fields
  <2> HIDE DEF new
  <2> QED BY <2>1, <2>2, SetsInv DEF new
<1>2. CASE setOtaCfg
  <2>1. PICK v \in Values, w \in Values : SetsTo("ota", [server |-> v, options |-> w])
    BY <1>2, AllSave DEF setOtaCfg, Set, SetsTo
  <2> DEFINE new == [server |-> v, options |-> w]
  <2>2. DOMAIN new \subseteq Fields["ota"] /\ \A f \in DOMAIN new : new[f] \in Values
    BY DEF Fields
  <2> HIDE DEF new
  <2> QED BY <2>1, <2>2, SetsInv DEF new
<1>3. CASE setDiagnosticCfg
  <2>1. PICK v \in Values, w \in Values \cup {Wrong} :
          SetsTo("diagnostic", [masks |-> v, uart_0_bitrate |-> dia_set_uart_0_bitrate(w)])
    BY <1>3, AllSave DEF setDiagnosticCfg, Set, SetsTo
  <2> DEFINE rate == dia_set_uart_0_bitrate(w)
             new == [masks |-> v, uart_0_bitrate |-> rate]
  <2>2. rate \in Values \cup {Wrong}
    <3>1. subject = "diagnostic" /\ "uart_0_bitrate" \in Fields["diagnostic"]
      BY <2>1 DEF SetsTo, Fields
    <3> QED BY <3>1 DEF dia_set_uart_0_bitrate, ConfigInv, ConfigTypes, AllSettings
  <2> HIDE DEF rate
  <2>3. /\ DOMAIN new \subseteq Fields["diagnostic"]
        /\ \A f \in DOMAIN new : new[f] \in Values \cup {Wrong}
    BY <2>2 DEF Fields
  <2> HIDE DEF new
  <2> QED BY <2>1, <2>3, SetsInv DEF new, rate
<1>4. CASE setWifiApCfg
  <2>1. PICK v \in {espwifi_ap_set_ch(x) : x \in Values \cup {Wrong}}, w \in Values :
          SetsTo("wifi", [ap_channel |-> v, ap_pwd |-> w])
    BY <1>4, AllSave DEF setWifiApCfg, Set, SetsTo
  <2> DEFINE new == [ap_channel |-> v, ap_pwd |-> w]
  <2>2. v \in Values /\ v # Wrong
    BY ConfigConstants DEF espwifi_ap_set_ch
  <2>3. /\ DOMAIN new \subseteq Fields["wifi"] /\ \A f \in DOMAIN new : new[f] \in Values
        /\ new["ap_channel"] # Wrong
    BY <2>2 DEF Fields
  <2> HIDE DEF new
  <2> QED BY <2>1, <2>3, SetsInv DEF new
<1> QED BY <1>1, <1>2, <1>3, <1>4

LEMMA StationInv == ConfigInv /\ (setWifiStationCfg \/ GotIp) => ConfigInv'
<1> SUFFICES ASSUME ConfigInv, setWifiStationCfg \/ GotIp PROVE ConfigInv'
  OBVIOUS
<1>1. ConfigTypes /\ up /\ subject = "wifi"
  BY DEF ConfigInv, setWifiStationCfg, GotIp
<1>2. ram \in [Fields["wifi"] -> Values \cup {Wrong}] /\ ram["ap_channel"] # Wrong
  BY <1>1 DEF ConfigInv, ConfigTypes, AllSettings, Kept
<1>3. CASE setWifiStationCfg
  <2>1. PICK v \in Values : Done([Now EXCEPT !.ram["station"] = v], {"station"}, FALSE)
    BY <1>3 DEF setWifiStationCfg
  <2> DEFINE d == [Now EXCEPT !.ram["station"] = v]
             m == [ram EXCEPT !["station"] = v]
  <2>2. /\ m \in AllSettings /\ \A f \in Fields["wifi"] \ {"station"} : m[f] = ram[f]
        /\ m["ap_channel"] # Wrong
    <3>1. m \in [Fields["wifi"] -> Values \cup {Wrong}]
      BY <1>2
    <3>2. \A f \in Fields["wifi"] \ {"station"} : m[f] = ram[f]
      BY <1>2
    <3>3. m["ap_channel"] # Wrong
      BY <1>2, <3>2, WifiSet
    <3> QED BY <1>1, <3>1, <3>2, <3>3 DEF AllSettings
  <2> HIDE DEF m
  <2>3. d \in Draft /\ d.files = files /\ d.restored = restored /\ d.ram = m
    BY <1>1, <2>2, NowDraft DEF Draft, m
  <2>4. {"station"} \subseteq Fields[subject]
    BY <1>1, WifiSet
  <2> HIDE DEF d
  <2>5. Done(d, {"station"}, FALSE)
    BY <2>1 DEF d
  <2> QED BY <1>1, <2>2, <2>3, <2>4, <2>5, DoneInv
<1>4. CASE GotIp
  <2>1. PICK r \in SaveOf(Now, subject) : Done(r, {}, TRUE)
    BY <1>1, <1>4, AllSave DEF GotIp
  <2>2. Now \in Draft /\ Saved(Now, r) /\ Now.files = files /\ Now.restored = restored
        /\ Now.ram = ram
    BY <1>1, <2>1, NowDraft, SaveSaves
  <2> QED BY <1>1, <1>2, <2>1, <2>2, DoneInv
<1> QED BY <1>3, <1>4

(* The API's files. *)

LEMMA FileDoneInv ==
  ASSUME ConfigInv, up, NEW n \in Names, NEW r, After(Now, r, n), FileDone(r, n)
  PROVE  ConfigInv'
<1>1. /\ r \in Draft /\ r.ram = ram /\ \A m \in Names \ {n} : r.files[m] = files[m]
  BY NowDraft DEF After, ConfigInv
<1>2. /\ up' = r.up /\ mounted' = r.mounted /\ files' = r.files /\ ram' = ram
      /\ promise' = IF n = "cfg" /\ r.files # files THEN None ELSE promise
      /\ restored' = (restored /\ (n = "cfg" => r.files = files))
      /\ subject' = subject /\ touched' = touched
  BY <1>1 DEF FileDone
<1>3. \/ files'["cfg"] = files["cfg"] /\ promise' = promise
      \/ promise' = None /\ ~restored'
  BY <1>1, <1>2 DEF Names
<1>4. ConfigTypes'
  <2>1. AllSettings' = AllSettings /\ Content' = Content
    BY <1>2 DEF AllSettings, Content, Settings
  <2>2. up' \in BOOLEAN /\ mounted' \in BOOLEAN /\ files' \in [Names -> Content]
    BY <1>1, <1>2 DEF Draft
  <2>3. promise' \in {None} \cup {SavedAs(v) : v \in AllSettings}
    BY <1>3 DEF ConfigInv, ConfigTypes
  <2>4. restored' \in BOOLEAN
    BY <1>2 DEF ConfigInv, ConfigTypes
  <2> QED BY <1>2, <2>1, <2>2, <2>3, <2>4 DEF ConfigInv, ConfigTypes
<1>5. SavesWhatWasSet'
  BY <1>2, <1>3 DEF ConfigInv, SavesWhatWasSet
<1>6. Kept'
  BY <1>2, <1>3 DEF ConfigInv, Kept
<1> QED BY <1>4, <1>5, <1>6 DEF ConfigInv

LEMMA ContentsTyped == ASSUME NEW n PROVE Contents(n) \subseteq Content
<1>1. ASSUME NEW S \in SUBSET Fields[subject], NEW v \in Uploads
      PROVE  Text([f \in S |-> v]) \in Content
  <2>1. [f \in S |-> v] \in [S -> Values \cup {Wrong}]
    BY ConfigConstants
  <2> HIDE DEF Text
  <2> QED BY <2>1, ContentFacts DEF Settings
<1>2. ASSUME NEW t \in Contents(n)
      PROVE  \/ t \in {Broken(1), Broken(2)}
             \/ \E S \in SUBSET Fields[subject], v \in Uploads : t = Text([f \in S |-> v])
  BY DEF Contents
<1> QED BY <1>1, <1>2, ContentFacts

LEMMA WrittenAfter ==
  ASSUME ConfigTypes, NEW n \in Names, NEW r \in Written(n)
  PROVE  After(Now, r, n)
<1>1. PICK x \in Espfile(Now, n) : \E t \in Contents(n) : \E y \in n_append(x, n, t) : r \in Closed(y, n)
  BY DEF Written
<1>2. After(Now, x, n) /\ x.cache = Absent /\ Fine(x) /\ x \in Draft
  BY <1>1, NowDraft, EspfileStep DEF After
<1>3. PICK t \in Contents(n) : \E y \in n_append(x, n, t) : r \in Closed(y, n)
  BY <1>1
<1>4. PICK y \in n_append(x, n, t) : r \in Closed(y, n)
  BY <1>3
<1>5. After(x, y, n) /\ Fine(y) /\ y \in Draft
  BY <1>2, <1>4, ContentsTyped, AppendStep DEF After
<1>6. After(y, r, n)
  BY <1>4, <1>5, ClosedStep
<1> QED BY <1>2, <1>5, <1>6, AfterAfter

LEMMA RemovedAfter ==
  ASSUME ConfigTypes, NEW n \in Names, NEW x \in Espfile(Now, n), NEW r \in remove(x, n)
  PROVE  After(Now, r, n)
<1> DEFINE removed == [x EXCEPT !.files[n] = Absent]
<1>1. After(Now, x, n) /\ x \in Draft
  BY NowDraft, EspfileStep DEF After
<1>2. After(x, removed, n) /\ removed \in Draft
  BY <1>1, ContentFacts, DraftFile
<1>3. r = x \/ r = removed \/ r = Failed(x) \/ r = Off(x) \/ r = Off(removed)
  BY DEF remove
<1> HIDE DEF removed
<1>4. After(x, r, n)
  BY <1>1, <1>2, <1>3, DraftOff, AfterAfter
<1> QED BY <1>1, <1>4, AfterAfter

LEMMA FileInv ==
  ASSUME ConfigInv, NEW n \in Names, createFile(n) \/ appendToFile(n) \/ deleteFile(n)
  PROVE  ConfigInv'
<1>1. up /\ ConfigTypes
  BY DEF createFile, appendToFile, deleteFile, exists, Now, ConfigInv
<1>2. \/ \E r \in Written(n) : FileDone(r, n)
      \/ \E x \in Espfile(Now, n) : \E r \in remove(x, n) : FileDone(r, n)
  BY DEF createFile, appendToFile, deleteFile
<1> QED BY <1>1, <1>2, WrittenAfter, RemovedAfter, FileDoneInv

LEMMA NextConfigInv == ConfigInv /\ [ConfigNext]_configVars => ConfigInv'
<1> SUFFICES ASSUME ConfigInv, [ConfigNext]_configVars PROVE ConfigInv'
  OBVIOUS
<1>1. CASE UNCHANGED configVars
  <2>1. AllSettings' = AllSettings /\ Content' = Content
    BY <1>1 DEF AllSettings, Content, Settings, configVars
  <2> QED BY <1>1, <2>1 DEF configVars, ConfigInv, ConfigTypes, SavesWhatWasSet, Kept
<1> QED BY <1>1, StartInv, OffInv, OneSetInv, TwoSetInv, StationInv, FileInv DEF ConfigNext

LEMMA AlwaysConfigInv == ConfigSpec => []ConfigInv
BY InitConfigInv, NextConfigInv, PTL DEF ConfigSpec

\* What is saved is restored from the file as it is.
LEMMA KeptDurable == ConfigInv => Durable
<1> SUFFICES ASSUME ConfigInv, promise # None PROVE Durable
  BY DEF Durable
<1> DEFINE d == [Now EXCEPT !.up = TRUE, !.mounted = TRUE, !.ram = Defaults(subject)]
<1>1. ConfigTypes
  BY DEF ConfigInv
<1>2. d \in Draft /\ d.up /\ d.mounted /\ d.files = files
  <2>1. Defaults(subject) \in AllSettings
    BY <1>1, SomeDefaults DEF ConfigTypes
  <2> QED BY <1>1, <2>1, NowDraft DEF Draft
<1> HIDE DEF d
<1>3. /\ promise.val \in AllSettings /\ files["cfg"] = Text(promise.val)
      /\ subject = "wifi" => promise.val["ap_channel"] # Wrong
  BY <1>1 DEF ConfigInv, ConfigTypes, Kept, SavedAs
<1>4. files["longer"].size \in Int
  BY <1>1, TextFacts DEF ConfigTypes, Names
<1>5. ASSUME NEW r \in restore_cfg(d), r.clean,
             files["longer"] = Absent \/ ~(files["longer"].size < 2)
      PROVE  r.ram = promise.val
  <2>1. RestoredFrom(d, r)
    BY <1>1, <1>2, RestoreStep DEF ConfigTypes
  <2> QED BY <1>2, <1>3, <1>4, <1>5, <2>1 DEF RestoredFrom
<1> QED BY <1>5 DEF Durable, d

-----------------------------------------------------------------------------
\* Whatever fails, wherever the power goes off, and whatever the API writes: a file is
\* absent, empty, garbage or the text of some settings, and RAM holds all the settings.
THEOREM ConfigTypesCorrect == ConfigSpec => []ConfigTypes
BY AlwaysConfigInv, PTL DEF ConfigInv

\* Settings saved without a failure are what a later start restores, for every value, after
\* any number of failed or interrupted saves, starts and requests.
THEOREM DurableCorrect == ConfigSpec => []Durable
BY AlwaysConfigInv, KeptDurable, PTL

\* The file differs from RAM only in fields set since they last agreed: a save does not
\* lose a setting that the request did not name.
THEOREM SavesCorrect == ConfigSpec => []SavesWhatWasSet
BY AlwaysConfigInv, PTL DEF ConfigInv
=============================================================================
