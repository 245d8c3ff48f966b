--------------------------- MODULE Diagnostic_proofs ---------------------------
(***************************************************************************)
(* Theorems about Diagnostic.  The functions of the journal call each      *)
(* other, so the invariant is a predicate of the record they take          *)
(* (Sound), and there is a lemma for each of them.  What makes the journal *)
(* work is how it is read: index k gives the event numbered added - k, or  *)
(* none (Held); reporting shifts every index by one (Reports).  The pins,  *)
(* of which the journal has one, are proved about at the end.              *)
(***************************************************************************)
EXTENDS Diagnostic, Gpio, SequenceTheorems, TLAPS

USE DEF Types

Places == 0..(Size - 1)
Pins == {"unprovisioned", "input", "output"}
Files == {Absent, Garbled} \cup {Good(mask) : mask \in Masks}

Typed(d) ==
  d \in [evnt : [Places -> Event \cup {Empty}], last : Places, added : Nat,
         mask : Masks \cup {{}}, pin : Pins, lit : BOOLEAN, down : BOOLEAN]

\* Read by index, the journal holds the last events and nothing else.
Held(d) ==
  \A k \in Places :
    IF k < d.added THEN dia_get_event(d, k) \in Event /\ dia_get_event(d, k).n = d.added - k
    ELSE dia_get_event(d, k) = Empty

Lights(d, used) ==
  d.mask # {} /\ ~used =>
    /\ d.pin = "output"
    /\ \A i \in Places : d.evnt[i].type \in d.mask /\ ~d.evnt[i].ack => d.lit

Sound(d, used) == Typed(d) /\ Held(d) /\ Lights(d, used)

\* d becomes e by reporting k events.
Reports(d, e, k) ==
  /\ e.added = d.added + k
  /\ \A j \in Places :
       /\ j < k => dia_get_event(e, j).n = e.added - j /\ ~dia_get_event(e, j).ack
       /\ j >= k => dia_get_event(e, j) = dia_get_event(d, j - k)

-----------------------------------------------------------------------------
\* Reading by index: the place, counted back from the last one across the array's end.
Place(d, k) == IF d.last - k < 0 THEN Size + (d.last - k) ELSE d.last - k

LEMMA GetPlace ==
  ASSUME NEW d, Typed(d), NEW k \in Places
  PROVE  dia_get_event(d, k) = d.evnt[Place(d, k)] /\ Place(d, k) \in Places
<1>1. Size \in Nat \ {0} /\ d.last \in Places
  BY DiagnosticConstants DEF Typed
<1>2. k % Size = k
  BY <1>1 DEF Places
<1>3. Place(d, k) \in Places
  BY <1>1 DEF Place, Places
<1> QED
  BY <1>2, <1>3 DEF dia_get_event, Place

LEMMA NextTyped ==
  ASSUME NEW d, Typed(d)
  PROVE  NextPlace(d) \in Places /\ Size \in Nat \ {0}
BY DiagnosticConstants DEF Typed, NextPlace, Places

\* Storing an event makes it the first one and shifts the others by one index.
LEMMA StoredTyped ==
  ASSUME NEW d, Typed(d), NEW t \in Types
  PROVE  LET e == Stored(d, t)
         IN  /\ Typed(e)
             /\ e.evnt = [d.evnt EXCEPT ![NextPlace(d)] = [n |-> d.added + 1, type |-> t, ack |-> FALSE]]
             /\ e.last = NextPlace(d) /\ e.added = d.added + 1
             /\ e.mask = d.mask /\ e.pin = d.pin /\ e.lit = d.lit /\ e.down = d.down
<1> DEFINE new == [n |-> d.added + 1, type |-> t, ack |-> FALSE]
<1>1. NextPlace(d) \in Places
  BY NextTyped
<1>2. d.added + 1 \in Nat /\ new \in Event
  BY DEF Typed, Event
<1>3. [d.evnt EXCEPT ![NextPlace(d)] = new] \in [Places -> Event \cup {Empty}]
  BY <1>1, <1>2 DEF Typed
<1> QED
  BY <1>1, <1>2, <1>3 DEF Typed, Stored

LEMMA StoredReports ==
  ASSUME NEW d, Typed(d), NEW t \in Types
  PROVE  Reports(d, Stored(d, t), 1) /\ dia_get_event(Stored(d, t), 0) \in Event
<1> DEFINE e == Stored(d, t)
           new == [n |-> d.added + 1, type |-> t, ack |-> FALSE]
<1>1. /\ Typed(e) /\ e.evnt = [d.evnt EXCEPT ![NextPlace(d)] = new]
      /\ e.last = NextPlace(d) /\ e.added = d.added + 1
  BY StoredTyped
<1>2. NextPlace(d) \in Places /\ Size \in Nat \ {0} /\ d.last \in Places /\ d.added \in Nat
  BY NextTyped DEF Typed
<1>e. d.evnt \in [Places -> Event \cup {Empty}]
  BY DEF Typed
<1> HIDE DEF e
<1>3. dia_get_event(e, 0) = new
  <2>1. 0 \in Places /\ Place(e, 0) = NextPlace(d)
    BY <1>1, <1>2 DEF Place, Places
  <2> QED
    BY <1>1, <1>2, <1>e, <2>1, GetPlace
<1>4. ASSUME NEW j \in Places, j >= 1
      PROVE  dia_get_event(e, j) = dia_get_event(d, j - 1)
  <2>1. j - 1 \in Places
    BY <1>2, <1>4 DEF Places
  <2>2. Place(e, j) = Place(d, j - 1) /\ Place(e, j) # NextPlace(d)
    BY <1>1, <1>2, <1>4 DEF Place, NextPlace, Places
  <2>3. Place(e, j) \in Places
    BY <1>1, GetPlace
  <2> QED
    BY <1>1, <1>2, <1>e, <2>1, <2>2, <2>3, GetPlace
<1>5. ASSUME NEW j \in Places
      PROVE  /\ j < 1 => dia_get_event(e, j).n = e.added - j /\ ~dia_get_event(e, j).ack
             /\ j >= 1 => dia_get_event(e, j) = dia_get_event(d, j - 1)
  <2>1. CASE j = 0
    BY <1>1, <1>2, <1>3, <2>1
  <2>2. CASE j >= 1
    BY <1>2, <1>4, <2>2 DEF Places
  <2> QED
    BY <1>2, <2>1, <2>2 DEF Places
<1>6. new \in Event
  BY <1>2 DEF Event
<1>7. Reports(d, e, 1)
  BY <1>1, <1>5 DEF Reports
<1> QED
  BY <1>3, <1>6, <1>7 DEF e

LEMMA StoredHeld ==
  ASSUME NEW d, Typed(d), Held(d), NEW t \in Types
  PROVE  Held(Stored(d, t))
<1> DEFINE e == Stored(d, t)
<1>1. Reports(d, e, 1) /\ dia_get_event(e, 0) \in Event /\ Typed(e)
  BY StoredReports, StoredTyped
<1>2. e.added = d.added + 1 /\ d.added \in Nat /\ Size \in Nat \ {0}
  BY <1>1, NextTyped DEF Reports, Typed
<1> HIDE DEF e
<1>3. ASSUME NEW k \in Places
      PROVE  IF k < e.added THEN dia_get_event(e, k) \in Event /\ dia_get_event(e, k).n = e.added - k
             ELSE dia_get_event(e, k) = Empty
  <2>1. CASE k = 0
    BY <1>1, <1>2, <2>1 DEF Reports, Places
  <2>2. CASE k >= 1
    <3>1. dia_get_event(e, k) = dia_get_event(d, k - 1) /\ k - 1 \in Places
      BY <1>1, <1>2, <2>2 DEF Reports, Places
    <3>2. IF k - 1 < d.added THEN dia_get_event(d, k - 1) \in Event /\ dia_get_event(d, k - 1).n = d.added - (k - 1)
          ELSE dia_get_event(d, k - 1) = Empty
      BY <3>1 DEF Held
    <3> QED
      BY <1>2, <3>1, <3>2 DEF Places
  <2> QED
    BY <1>2, <2>1, <2>2 DEF Places
<1> QED
  BY <1>3 DEF Held, e

-----------------------------------------------------------------------------
\* Composing reports, and what does not touch the buffer.
LEMMA ReportsNone ==
  ASSUME NEW d, NEW e, Typed(d), e.evnt = d.evnt, e.last = d.last, e.added = d.added
  PROVE  Reports(d, e, 0) /\ \A k : dia_get_event(e, k) = dia_get_event(d, k)
<1>1. \A k : dia_get_event(e, k) = dia_get_event(d, k)
  BY DEF dia_get_event
<1>2. d.added + 0 = d.added
  BY DEF Typed
<1>3. ASSUME NEW j \in Places
      PROVE  ~(j < 0) /\ j - 0 = j
  BY DiagnosticConstants DEF Places
<1> QED
  BY <1>1, <1>2, <1>3 DEF Reports

LEMMA HeldSame ==
  ASSUME NEW d, NEW e, Typed(d), Held(d), e.evnt = d.evnt, e.last = d.last, e.added = d.added
  PROVE  Held(e)
BY ReportsNone DEF Held

LEMMA ReportsTwice ==
  ASSUME NEW c, NEW d, NEW e, Typed(c), Typed(d), Typed(e), NEW k \in Nat,
         Reports(c, d, k), Reports(d, e, 1)
  PROVE  Reports(c, e, k + 1)
<1>1. Size \in Nat \ {0} /\ c.added \in Nat /\ d.added = c.added + k /\ e.added = d.added + 1
  BY NextTyped DEF Typed, Reports
<1>2. ASSUME NEW j \in Places
      PROVE  /\ j < k + 1 => dia_get_event(e, j).n = e.added - j /\ ~dia_get_event(e, j).ack
             /\ j >= k + 1 => dia_get_event(e, j) = dia_get_event(c, j - (k + 1))
  <2>1. CASE j = 0
    BY <1>1, <2>1 DEF Reports, Places
  <2>2. CASE j >= 1
    <3>1. j - 1 \in Places /\ dia_get_event(e, j) = dia_get_event(d, j - 1)
      BY <1>1, <2>2 DEF Reports, Places
    <3>2. CASE j < k + 1
      BY <1>1, <3>1, <3>2 DEF Reports, Places
    <3>3. CASE j >= k + 1
      <4>1. dia_get_event(d, j - 1) = dia_get_event(c, (j - 1) - k)
        BY <1>1, <3>1, <3>3 DEF Reports, Places
      <4>2. (j - 1) - k = j - (k + 1)
        BY DEF Places
      <4> QED
        BY <1>1, <3>1, <3>3, <4>1, <4>2 DEF Places
    <3> QED
      BY <1>1, <3>2, <3>3 DEF Places
  <2> QED
    BY <1>1, <2>1, <2>2 DEF Places
<1> QED
  BY <1>1, <1>2 DEF Reports

LEMMA ReportsNothing ==
  ASSUME NEW c, NEW d, NEW e, Typed(d), Typed(e), NEW k \in Nat,
         Reports(c, d, k), Reports(d, e, 0)
  PROVE  Reports(c, e, k)
<1>1. e.added = d.added
  BY DEF Reports, Typed
<1>2. ASSUME NEW j \in Places
      PROVE  dia_get_event(e, j) = dia_get_event(d, j)
  <2>1. j \in Int /\ j >= 0 /\ j - 0 = j
    BY DiagnosticConstants DEF Places
  <2> QED
    BY <2>1 DEF Reports
<1>3. d.added = c.added + k
  BY DEF Reports
<1>4. ASSUME NEW j \in Places
      PROVE  /\ j < k => dia_get_event(e, j).n = e.added - j /\ ~dia_get_event(e, j).ack
             /\ j >= k => dia_get_event(e, j) = dia_get_event(c, j - k)
  BY <1>1, <1>2 DEF Reports
<1> QED
  BY <1>1, <1>3, <1>4 DEF Reports

-----------------------------------------------------------------------------
\* The LED's pin.  If it is an input an event comes with it, or the stack overflows.
LEMMA GpioSet ==
  ASSUME NEW d, Typed(d), Held(d), ~d.down, NEW on \in BOOLEAN
  PROVE  LET e == gpio_set(d, on)
         IN  \/ e.down
             \/ /\ Typed(e) /\ Held(e) /\ ~e.down /\ e.mask = d.mask /\ e.pin = d.pin
                /\ \E k \in 0..1 : Reports(d, e, k)
                /\ d.pin = "output" => e.lit = on /\ e.evnt = d.evnt
                /\ d.pin # "input" => e.evnt = d.evnt
                /\ d.pin # "output" => e.lit = d.lit
<1>1. CASE d.pin = "output"
  <2> DEFINE e == [d EXCEPT !.lit = on]
  <2>1. gpio_set(d, on) = e
    BY <1>1 DEF gpio_set
  <2>2. /\ Typed(e) /\ e.evnt = d.evnt /\ e.last = d.last /\ e.added = d.added
        /\ e.mask = d.mask /\ e.pin = d.pin /\ e.lit = on /\ e.down = d.down
    BY DEF Typed
  <2> HIDE DEF e
  <2>3. Reports(d, e, 0) /\ Held(e)
    BY <2>2, ReportsNone, HeldSame
  <2> QED
    BY <1>1, <2>1, <2>2, <2>3
<1>2. CASE d.pin = "input" /\ "warn" \in d.mask
  <2>1. gpio_set(d, on).down
    BY <1>2 DEF gpio_set, Typed
  <2> QED
    BY <2>1
<1>3. CASE d.pin = "input" /\ "warn" \notin d.mask
  <2>1. gpio_set(d, on) = Stored(d, "warn")
    BY <1>3 DEF gpio_set
  <2> DEFINE e == Stored(d, "warn")
  <2>2. /\ Typed(e) /\ e.mask = d.mask /\ e.pin = d.pin /\ e.lit = d.lit /\ e.down = d.down
    BY StoredTyped
  <2>3. Held(e) /\ Reports(d, e, 1)
    BY StoredReports, StoredHeld
  <2> HIDE DEF e
  <2>4. \E k \in 0..1 : Reports(d, e, k)
    BY <2>3
  <2> QED
    BY <1>3, <2>1, <2>2, <2>3, <2>4 DEF e
<1>4. CASE d.pin \notin {"input", "output"}
  <2>1. gpio_set(d, on) = d
    BY <1>4 DEF gpio_set
  <2> QED
    BY <1>4, <2>1, ReportsNone
<1> QED
  BY <1>1, <1>2, <1>3, <1>4

\* Reporting an event keeps the journal and the LED sound, and adds one or two events.
LEMMA AddEvent ==
  ASSUME NEW d, NEW used \in BOOLEAN, Sound(d, used), ~d.down, NEW t \in Types
  PROVE  LET e == dia_add_event(d, t)
         IN  \/ e.down
             \/ Sound(e, used) /\ ~e.down /\ \E k \in 1..2 : Reports(d, e, k)
<1> DEFINE s == Stored(d, t)
           new == [n |-> d.added + 1, type |-> t, ack |-> FALSE]
<1>1. /\ Typed(s) /\ Held(s) /\ Reports(d, s, 1)
      /\ s.evnt = [d.evnt EXCEPT ![NextPlace(d)] = new]
      /\ s.mask = d.mask /\ s.pin = d.pin /\ s.lit = d.lit /\ s.down = d.down
  BY StoredTyped, StoredReports, StoredHeld DEF Sound
<1>2. NextPlace(d) \in Places /\ d.evnt \in [Places -> Event \cup {Empty}]
  BY NextTyped DEF Sound, Typed
<1> HIDE DEF s
<1>3. CASE t \notin d.mask
  <2>1. dia_add_event(d, t) = s
    BY <1>3 DEF dia_add_event, s
  <2>2. Lights(s, used)
    <3> SUFFICES ASSUME s.mask # {}, ~used
                 PROVE  /\ s.pin = "output"
                        /\ \A i \in Places : s.evnt[i].type \in s.mask /\ ~s.evnt[i].ack => s.lit
      BY DEF Lights
    <3>1. ASSUME NEW i \in Places, s.evnt[i].type \in s.mask, ~s.evnt[i].ack
          PROVE  s.lit
      <4>1. i # NextPlace(d)
        BY <1>1, <1>2, <1>3, <3>1
      <4> QED
        BY <1>1, <1>2, <3>1, <4>1 DEF Sound, Lights
    <3> QED
      BY <1>1, <3>1 DEF Sound, Lights
  <2> QED
    BY <1>1, <2>1, <2>2 DEF Sound
<1>4. CASE t \in d.mask
  <2> DEFINE e == gpio_set(s, TRUE)
  <2>1. dia_add_event(d, t) = e
    BY <1>4 DEF dia_add_event, s
  <2>2. \/ e.down
        \/ /\ Typed(e) /\ Held(e) /\ ~e.down /\ e.mask = s.mask /\ e.pin = s.pin
           /\ \E k \in 0..1 : Reports(s, e, k)
           /\ s.pin = "output" => e.lit = TRUE /\ e.evnt = s.evnt
    BY <1>1, GpioSet
  <2> HIDE DEF e
  <2>3. CASE ~e.down
    <3>1. /\ Typed(e) /\ Held(e) /\ ~e.down /\ e.mask = s.mask /\ e.pin = s.pin
          /\ s.pin = "output" => e.lit = TRUE
      BY <2>2, <2>3
    <3>2. PICK k \in 0..1 : Reports(s, e, k)
      BY <2>2, <2>3
    <3>3. Lights(e, used)
      BY <1>1, <3>1 DEF Sound, Lights
    <3>4. \E j \in 1..2 : Reports(d, e, j)
      <4>1. CASE k = 0
        <5>1. Reports(d, e, 1)
          BY <1>1, <3>1, <3>2, <4>1, ReportsNothing
        <5> QED
          BY <5>1
      <4>2. CASE k = 1
        <5>1. Reports(d, e, 1 + 1)
          BY <1>1, <3>1, <3>2, <4>2, ReportsTwice DEF Sound
        <5> QED
          BY <5>1
      <4> QED
        BY <3>2, <4>1, <4>2
    <3> QED
      BY <2>1, <2>3, <3>1, <3>3, <3>4 DEF Sound
  <2> QED
    BY <2>1, <2>3
<1> QED
  BY <1>3, <1>4

\* An event that is shown on a pin that is not an input brings no other one with it.
LEMMA AddOne ==
  ASSUME NEW d, Sound(d, FALSE), ~d.down, d.pin # "input", NEW t \in Types
  PROVE  LET e == dia_add_event(d, t)
         IN  Sound(e, FALSE) /\ ~e.down /\ e.pin # "input" /\ Reports(d, e, 1)
<1> DEFINE s == Stored(d, t)
           e == dia_add_event(d, t)
<1>1. Typed(s) /\ Reports(d, s, 1) /\ s.pin = d.pin /\ s.down = d.down /\ Typed(d)
  BY StoredTyped, StoredReports DEF Sound
<1>2. e = IF t \in d.mask THEN gpio_set(s, TRUE) ELSE s
  BY DEF dia_add_event
<1>3. e.down \/ Sound(e, FALSE)
  BY AddEvent
<1> HIDE DEF s, e
<1>4. /\ e.evnt = s.evnt /\ e.last = s.last /\ e.added = s.added
      /\ e.pin = s.pin /\ e.down = s.down
  <2>1. CASE e = s
    BY <2>1
  <2>2. CASE e = [s EXCEPT !.lit = TRUE]
    BY <1>1, <2>2 DEF Typed
  <2>3. gpio_set(s, TRUE) = s \/ gpio_set(s, TRUE) = [s EXCEPT !.lit = TRUE]
    BY <1>1 DEF gpio_set
  <2> QED
    BY <1>2, <2>1, <2>2, <2>3
<1>5. Sound(e, FALSE) /\ ~e.down /\ e.pin # "input"
  BY <1>1, <1>3, <1>4
<1>6. Reports(s, e, 0)
  BY <1>1, <1>4, ReportsNone
<1>7. Reports(d, e, 1)
  BY <1>1, <1>5, <1>6, ReportsNothing DEF Sound
<1> QED
  BY <1>5, <1>7 DEF e

-----------------------------------------------------------------------------
AckOf(r) == [r EXCEPT !.ack = TRUE]
Marked(d) ==
  [d EXCEPT !.evnt = [i \in 0..(Size - 1) |->
     IF d.evnt[i].type = "none" THEN d.evnt[i] ELSE [d.evnt[i] EXCEPT !.ack = TRUE]]]

\* Acknowledging marks every event that can be read, and moves none.
LEMMA MarkedGet ==
  ASSUME NEW d, Typed(d), Held(d)
  PROVE  LET e == Marked(d)
         IN  /\ Typed(e) /\ Held(e) /\ e.added = d.added
             /\ e.mask = d.mask /\ e.pin = d.pin /\ e.lit = d.lit /\ e.down = d.down
             /\ \A i \in Places : e.evnt[i].type # "none" => e.evnt[i].ack
             /\ \A k \in Places : dia_get_event(e, k) =
                  IF k < d.added THEN AckOf(dia_get_event(d, k)) ELSE Empty
<1> DEFINE e == Marked(d)
<1>1. d.evnt \in [Places -> Event \cup {Empty}] /\ d.added \in Nat
  BY DEF Typed
<1>2. ASSUME NEW i \in Places
      PROVE  /\ d.evnt[i].type = "none" => d.evnt[i] = Empty
             /\ d.evnt[i].type # "none" => AckOf(d.evnt[i]) \in Event /\ AckOf(d.evnt[i]).ack
                                           /\ AckOf(d.evnt[i]).n = d.evnt[i].n
  <2>1. ASSUME NEW r \in Event
        PROVE  r.type # "none" /\ AckOf(r) \in Event /\ AckOf(r).ack = TRUE /\ AckOf(r).n = r.n
    BY <2>1 DEF Event, AckOf
  <2>2. Empty.type = "none"
    BY DEF Empty
  <2>3. d.evnt[i] \in Event \/ d.evnt[i] = Empty
    BY <1>1
  <2> QED
    BY <2>1, <2>2, <2>3
<1> DEFINE marked == [i \in 0..(Size - 1) |->
     IF d.evnt[i].type = "none" THEN d.evnt[i] ELSE [d.evnt[i] EXCEPT !.ack = TRUE]]
<1>3. /\ marked \in [Places -> Event \cup {Empty}]
      /\ \A i \in Places : marked[i] = IF d.evnt[i].type = "none" THEN Empty ELSE AckOf(d.evnt[i])
  BY <1>2 DEF Places, AckOf
<1>4. e = [d EXCEPT !.evnt = marked]
  BY DEF Marked
<1> HIDE DEF marked, e
<1>5. /\ Typed(e) /\ e.evnt = marked /\ e.last = d.last /\ e.added = d.added
      /\ e.mask = d.mask /\ e.pin = d.pin /\ e.lit = d.lit /\ e.down = d.down
  BY <1>3, <1>4 DEF Typed
<1>6. ASSUME NEW i \in Places, e.evnt[i].type # "none"
      PROVE  e.evnt[i].ack
  BY <1>2, <1>3, <1>5, <1>6 DEF Empty
<1>7. ASSUME NEW k \in Places
      PROVE  dia_get_event(e, k) = IF k < d.added THEN AckOf(dia_get_event(d, k)) ELSE Empty
  <2>1. /\ dia_get_event(d, k) = d.evnt[Place(d, k)] /\ Place(d, k) \in Places
        /\ dia_get_event(e, k) = e.evnt[Place(e, k)]
    BY <1>5, GetPlace
  <2>2. Place(e, k) = Place(d, k)
    BY <1>5 DEF Place
  <2>3. k < d.added => dia_get_event(d, k) \in Event
    BY DEF Held
  <2>4. ~(k < d.added) => dia_get_event(d, k) = Empty
    BY DEF Held
  <2>5. k < d.added => dia_get_event(d, k).type # "none"
    BY <2>3 DEF Event
  <2>6. ~(k < d.added) => dia_get_event(d, k).type = "none"
    BY <2>4 DEF Empty
  <2> QED
    BY <1>3, <1>5, <2>1, <2>2, <2>5, <2>6
<1>8. Held(e)
  <2>1. ASSUME NEW k \in Places, k < d.added
        PROVE  dia_get_event(e, k) \in Event /\ dia_get_event(e, k).n = d.added - k
    <3>1. dia_get_event(d, k) \in Event /\ dia_get_event(d, k).n = d.added - k
      BY <2>1 DEF Held
    <3>2. dia_get_event(e, k) = AckOf(dia_get_event(d, k))
      BY <1>7, <2>1
    <3> QED
      BY <3>1, <3>2 DEF AckOf, Event
  <2> QED
    BY <1>5, <1>7, <2>1 DEF Held
<1> QED
  BY <1>5, <1>6, <1>7, <1>8 DEF e

LEMMA AckEvents ==
  ASSUME NEW d, NEW used \in BOOLEAN, Sound(d, used), ~d.down
  PROVE  LET e == dia_ack_events(d)
         IN  \/ e.down
             \/ /\ Sound(e, used) /\ ~e.down
                /\ \E k \in 0..1 : Reports(Marked(d), e, k)
<1> DEFINE a == Marked(d)
           e == dia_ack_events(d)
<1>1. /\ Typed(a) /\ Held(a) /\ a.mask = d.mask /\ a.pin = d.pin /\ a.lit = d.lit /\ ~a.down
      /\ \A i \in Places : a.evnt[i].type # "none" => a.evnt[i].ack
  BY MarkedGet DEF Sound
<1>2. e = IF d.mask # {} THEN gpio_set(a, FALSE) ELSE a
  BY DEF dia_ack_events, Marked
<1> HIDE DEF a, e
<1>3. CASE d.mask = {}
  <2>1. Lights(a, used)
    BY <1>1, <1>3 DEF Lights
  <2>2. Reports(a, a, 0)
    BY <1>1, ReportsNone
  <2> QED
    BY <1>1, <1>2, <1>3, <2>1, <2>2 DEF Sound, a, e
<1>4. CASE d.mask # {} /\ ~e.down
  <2>1. /\ Typed(e) /\ Held(e) /\ e.mask = a.mask /\ e.pin = a.pin
        /\ \E k \in 0..1 : Reports(a, e, k)
        /\ a.pin = "output" => e.lit = FALSE /\ e.evnt = a.evnt
    BY <1>1, <1>2, <1>4, GpioSet
  <2>2. Lights(e, used)
    <3> SUFFICES ASSUME e.mask # {}, ~used
                 PROVE  /\ e.pin = "output"
                        /\ \A i \in Places : ~(e.evnt[i].type \in e.mask /\ ~e.evnt[i].ack)
      BY DEF Lights
    <3>1. e.pin = "output" /\ e.evnt = a.evnt
      BY <1>1, <2>1 DEF Sound, Lights
    <3>2. e.mask \in SUBSET Types
      BY <2>1, DiagnosticConstants DEF Typed
    <3>3. ASSUME NEW i \in Places, e.evnt[i].type \in e.mask
          PROVE  e.evnt[i].ack
      BY <1>1, <3>1, <3>2, <3>3
    <3> QED
      BY <3>1, <3>3
  <2> QED
    BY <1>4, <2>1, <2>2 DEF Sound, a, e
<1> QED
  BY <1>3, <1>4 DEF e

\* Setting the mask leaves the journal as it is.
LEMMA SetLedMask ==
  ASSUME NEW d, Typed(d), Held(d), ~d.down, NEW mask \in Masks \cup {{}}
  PROVE  LET e == dia_set_led_mask(d, mask)
         IN  /\ Sound(e, FALSE) /\ ~e.down /\ e.mask = mask /\ e.pin # "input"
             /\ e.evnt = d.evnt /\ e.last = d.last /\ e.added = d.added
<1> DEFINE e == dia_set_led_mask(d, mask)
<1>1. CASE mask = {}
  <2>1. e = [d EXCEPT !.mask = mask, !.pin = "unprovisioned"]
    BY <1>1 DEF dia_set_led_mask
  <2>2. /\ Typed(e) /\ e.evnt = d.evnt /\ e.last = d.last /\ e.added = d.added
        /\ e.mask = mask /\ e.down = d.down /\ e.pin = "unprovisioned"
    BY <2>1 DEF Typed, Pins
  <2> HIDE DEF e
  <2>3. Held(e) /\ Lights(e, FALSE)
    BY <1>1, <2>2, HeldSame DEF Lights
  <2> QED
    BY <2>2, <2>3 DEF Sound, e
<1>2. CASE mask # {}
  <2> DEFINE on == \E i \in 0..(Size - 1) : d.evnt[i].type \in mask
  <2>1. e = [d EXCEPT !.mask = mask, !.pin = "output", !.lit = on]
    BY <1>2 DEF dia_set_led_mask
  <2>2. on \in BOOLEAN
    OBVIOUS
  <2>3. \A i \in Places : d.evnt[i].type \in mask => on
    BY DEF Places
  <2> HIDE DEF on, e
  <2>4. /\ Typed(e) /\ e.evnt = d.evnt /\ e.last = d.last /\ e.added = d.added
        /\ e.mask = mask /\ e.down = d.down /\ e.pin = "output" /\ e.lit = on
    BY <2>1, <2>2 DEF Typed, Pins
  <2>5. Held(e)
    BY <2>4, HeldSame
  <2>6. Lights(e, FALSE)
    BY <2>3, <2>4 DEF Lights
  <2> QED
    BY <2>4, <2>5, <2>6 DEF Sound, e
<1> QED
  BY <1>1, <1>2

-----------------------------------------------------------------------------
\* Without a file system a save reports five events.
LEMMA NotMountedSound ==
  ASSUME NEW d, Sound(d, FALSE), ~d.down, d.pin # "input"
  PROVE  LET e == NotMounted(d) IN Sound(e, FALSE) /\ ~e.down /\ Reports(d, e, 5)
<1> DEFINE E(x) == dia_add_event(x, "error")
           Quiet(x) == Sound(x, FALSE) /\ ~x.down /\ x.pin # "input"
<1>1. ASSUME NEW x, NEW k \in Nat, Quiet(x), Reports(d, x, k)
      PROVE  Quiet(E(x)) /\ Reports(d, E(x), k + 1)
  <2>1. "error" \in Types
    OBVIOUS
  <2>2. Quiet(E(x)) /\ Reports(x, E(x), 1)
    BY <1>1, <2>1, AddOne
  <2> HIDE DEF E
  <2>3. Typed(d) /\ Typed(x) /\ Typed(E(x))
    BY <1>1, <2>2 DEF Sound
  <2>4. Reports(d, E(x), k + 1)
    BY <1>1, <2>2, <2>3, ReportsTwice
  <2> QED
    BY <2>2, <2>4
<1> HIDE DEF E
<1>2. Quiet(d) /\ Reports(d, d, 0)
  BY ReportsNone DEF Sound
<1> HIDE DEF Quiet
<1>3. Quiet(E(d)) /\ Reports(d, E(d), 1)
  <2>1. Quiet(E(d)) /\ Reports(d, E(d), 0 + 1)
    BY <1>1, <1>2
  <2> QED
    BY <2>1
<1>4. Quiet(E(E(d))) /\ Reports(d, E(E(d)), 2)
  <2>1. Quiet(E(E(d))) /\ Reports(d, E(E(d)), 1 + 1)
    BY <1>1, <1>3
  <2> QED
    BY <2>1
<1>5. Quiet(E(E(E(d)))) /\ Reports(d, E(E(E(d))), 3)
  <2>1. Quiet(E(E(E(d)))) /\ Reports(d, E(E(E(d))), 2 + 1)
    BY <1>1, <1>4
  <2> QED
    BY <2>1
<1>6. Quiet(E(E(E(E(d))))) /\ Reports(d, E(E(E(E(d)))), 4)
  <2>1. Quiet(E(E(E(E(d))))) /\ Reports(d, E(E(E(E(d)))), 3 + 1)
    BY <1>1, <1>5
  <2> QED
    BY <2>1
<1>7. Quiet(E(E(E(E(E(d)))))) /\ Reports(d, E(E(E(E(E(d))))), 5)
  <2>1. Quiet(E(E(E(E(E(d)))))) /\ Reports(d, E(E(E(E(E(d))))), 4 + 1)
    BY <1>1, <1>6
  <2> QED
    BY <2>1
<1>8. NotMounted(d) = E(E(E(E(E(d)))))
  BY DEF NotMounted, E
<1> QED
  BY <1>7, <1>8 DEF Quiet

-----------------------------------------------------------------------------
\* The journal at a restart: three to six events in an empty buffer.
LEMMA FreshSound == Typed(Fresh) /\ Held(Fresh) /\ Fresh.mask = {} /\ ~Fresh.down /\ Fresh.added = 0
<1>1. Size \in Nat \ {0}
  BY DiagnosticConstants
<1>2. [i \in 0..(Size - 1) |-> Empty] \in [Places -> Event \cup {Empty}]
  BY DEF Places
<1>3. Size - 1 \in Places
  BY <1>1 DEF Places
<1>4. /\ Typed(Fresh) /\ Fresh.mask = {} /\ ~Fresh.down /\ Fresh.added = 0
      /\ \A i \in Places : Fresh.evnt[i] = Empty
  BY <1>2, <1>3 DEF Fresh, Typed, Pins, Places
<1>5. ASSUME NEW k \in Places
      PROVE  dia_get_event(Fresh, k) = Empty /\ ~(k < Fresh.added)
  BY <1>1, <1>4, GetPlace DEF Places
<1> QED
  BY <1>4, <1>5 DEF Held

\* d is what a restart leaves after k events, before the LED's mask is read.
Starting(d, k) == Typed(d) /\ Held(d) /\ ~d.down /\ d.mask = {} /\ Reports(Fresh, d, k)

LEMMA StartingNext ==
  ASSUME NEW d, NEW k \in Nat, Starting(d, k), NEW t \in Types
  PROVE  Starting(Stored(d, t), k + 1)
<1> DEFINE e == Stored(d, t)
<1>1. Typed(d) /\ Held(d) /\ ~d.down /\ d.mask = {} /\ Reports(Fresh, d, k)
  BY DEF Starting
<1>2. Typed(e) /\ e.mask = d.mask /\ e.down = d.down
  BY <1>1, StoredTyped
<1>3. Held(e)
  BY <1>1, StoredHeld
<1>4. Reports(d, e, 1)
  BY <1>1, StoredReports
<1> HIDE DEF e
<1>5. Reports(Fresh, e, k + 1)
  BY <1>1, <1>2, <1>4, FreshSound, ReportsTwice
<1> QED
  BY <1>1, <1>2, <1>3, <1>5 DEF Starting, e

LEMMA StartingSound ==
  ASSUME NEW d, NEW k \in 3..6, Starting(d, k)
  PROVE  Sound(d, FALSE) /\ ~d.down /\ \E j \in 3..6 : Reports(Fresh, d, j)
<1>1. Typed(d) /\ Held(d) /\ ~d.down /\ d.mask = {} /\ Reports(Fresh, d, k)
  BY DEF Starting
<1>2. Lights(d, FALSE)
  BY <1>1 DEF Lights
<1> QED
  BY <1>1, <1>2 DEF Sound

\* What esp_spiffs_mount reports.
LEMMA MountStarts ==
  /\ Starting(esp_spiffs_mount("mounted"), 3) /\ Starting(esp_spiffs_mount("formatted"), 4)
  /\ Starting(esp_spiffs_mount("unmountable"), 1) /\ Starting(esp_spiffs_mount("lost"), 2)
<1>1. Starting(Fresh, 0)
  BY FreshSound, ReportsNone DEF Starting
<1>2. ASSUME NEW d, NEW k \in Nat, Starting(d, k)
      PROVE  Starting(InUse(d), k + 3)
  <2> DEFINE a == Stored(d, "info")
             b == Stored(a, "info")
             c == Stored(b, "info")
  <2>1. Starting(a, k + 1)
    BY <1>2, StartingNext
  <2> HIDE DEF a
  <2>2. Starting(b, (k + 1) + 1)
    BY <2>1, StartingNext
  <2> HIDE DEF b
  <2>3. Starting(c, ((k + 1) + 1) + 1)
    BY <2>2, StartingNext
  <2>4. c = InUse(d) /\ ((k + 1) + 1) + 1 = k + 3
    BY DEF InUse, a, b
  <2> HIDE DEF c
  <2> QED
    BY <2>3, <2>4
<1>3. Starting(Stored(Fresh, "info"), 1) /\ Starting(Stored(Fresh, "fatal"), 1)
  <2>1. Starting(Stored(Fresh, "info"), 0 + 1) /\ Starting(Stored(Fresh, "fatal"), 0 + 1)
    BY <1>1, StartingNext
  <2> QED
    BY <2>1
<1> DEFINE formatted == Stored(Fresh, "info")
<1>4. Starting(Stored(formatted, "fatal"), 1 + 1)
  <2> HIDE DEF formatted
  <2> QED
    BY <1>3, StartingNext DEF formatted
<1>5. Starting(InUse(Fresh), 0 + 3) /\ Starting(InUse(Stored(Fresh, "info")), 1 + 3)
  BY <1>1, <1>2, <1>3
<1> QED
  BY <1>3, <1>4, <1>5 DEF esp_spiffs_mount

\* The journal after a start.
Begun(e) == Sound(e, FALSE) /\ ~e.down /\ \E k \in 3..6 : Reports(Fresh, e, k)

\* Reading the configuration reports nothing, or up to three events.
LEMMA RestoreStarts ==
  ASSUME NEW s, NEW n \in 2..4, Starting(s, n), NEW f \in Files, NEW readable \in BOOLEAN,
         n = 3 \/ f = Absent
  PROVE  Begun(dia_restore_cfg(s, f, readable))
<1> DEFINE e == dia_restore_cfg(s, f, readable)
<1>1. CASE f.state = "absent"
  <2>1. e = Stored(s, "warn")
    BY <1>1 DEF dia_restore_cfg
  <2>2. Starting(Stored(s, "warn"), n + 1)
    BY StartingNext
  <2>3. n + 1 \in 3..6
    OBVIOUS
  <2> HIDE DEF e
  <2>4. Starting(e, n + 1)
    BY <2>1, <2>2
  <2>5. Begun(e)
    BY <2>3, <2>4, StartingSound DEF Begun
  <2> QED
    BY <2>5 DEF e
<1>2. CASE f.state # "absent"
  <2>0. n = 3
    BY <1>2 DEF Absent
  <2>1. CASE f.state = "good" /\ readable
    <3>1. e = dia_set_led_mask(s, f.mask)
      BY <2>1 DEF dia_restore_cfg
    <3>2. f.mask \in Masks \cup {{}}
      BY <2>1 DEF Files, Absent, Garbled, Good
    <3>3. Typed(s) /\ Held(s) /\ ~s.down /\ Reports(Fresh, s, 3)
      BY <2>0 DEF Starting
    <3> HIDE DEF e
    <3>4. /\ Sound(e, FALSE) /\ ~e.down
          /\ e.evnt = s.evnt /\ e.last = s.last /\ e.added = s.added
      BY <3>1, <3>2, <3>3, SetLedMask
    <3>5. Reports(s, e, 0)
      BY <3>3, <3>4, ReportsNone
    <3>6. Reports(Fresh, e, 3)
      BY <3>3, <3>4, <3>5, ReportsNothing DEF Sound
    <3>7. 3 \in 3..6
      OBVIOUS
    <3>8. Begun(e)
      BY <3>4, <3>6, <3>7 DEF Begun
    <3> QED
      BY <3>8 DEF e
  <2>2. CASE ~(f.state = "good" /\ readable)
    <3> DEFINE tried == IF readable THEN s ELSE Stored(s, "error")
    <3>1. e = Stored(Stored(tried, "error"), "warn")
      BY <1>2, <2>2 DEF dia_restore_cfg
    <3>2. \E k \in 3..4 : Starting(tried, k)
      <4>1. CASE readable
        BY <2>0, <4>1
      <4>2. CASE ~readable
        <5>1. Starting(Stored(s, "error"), 3 + 1)
          BY <2>0, StartingNext
        <5> QED
          BY <4>2, <5>1
      <4> QED
        BY <4>1, <4>2
    <3>3. PICK k \in 3..4 : Starting(tried, k)
      BY <3>2
    <3> HIDE DEF tried, e
    <3>4. Starting(Stored(tried, "error"), k + 1)
      BY <3>3, StartingNext
    <3>5. Starting(Stored(Stored(tried, "error"), "warn"), (k + 1) + 1)
      BY <3>4, StartingNext
    <3>6. (k + 1) + 1 \in 3..6
      OBVIOUS
    <3>7. Begun(e)
      BY <3>1, <3>5, <3>6, StartingSound DEF Begun
    <3> QED
      BY <3>7 DEF e
  <2> QED
    BY <2>1, <2>2
<1> QED
  BY <1>1, <1>2

LEMMA BootedSound ==
  ASSUME NEW how \in Mounts, NEW f \in Files, NEW readable \in BOOLEAN
  PROVE  Begun(Booted(how, f, readable))
<1> DEFINE d == esp_spiffs_mount(how)
<1>1. Absent \in Files
  BY DEF Files
<1>2. CASE how = "mounted"
  <2>1. Starting(d, 3)
    BY <1>2, MountStarts
  <2>2. Booted(how, f, readable) = dia_restore_cfg(d, f, readable)
    BY <1>2 DEF Booted
  <2> HIDE DEF d
  <2>3. Begun(dia_restore_cfg(d, f, readable))
    BY <2>1, RestoreStarts
  <2> QED
    BY <2>2, <2>3
<1>3. CASE how = "formatted"
  <2>1. Starting(d, 4)
    BY <1>3, MountStarts
  <2>2. Booted(how, f, readable) = dia_restore_cfg(d, Absent, TRUE)
    BY <1>3 DEF Booted
  <2> HIDE DEF d
  <2>3. Begun(dia_restore_cfg(d, Absent, TRUE))
    <3>1. 4 \in 2..4 /\ TRUE \in BOOLEAN
      OBVIOUS
    <3> QED
      BY <1>1, <2>1, <3>1, RestoreStarts
  <2> QED
    BY <2>2, <2>3
<1>4. CASE how \in {"unmountable", "lost"}
  <2>1. \E n \in 1..2 : Starting(d, n)
    BY <1>4, MountStarts
  <2>2. PICK n \in 1..2 : Starting(d, n)
    BY <2>1
  <2>3. Booted(how, f, readable) = dia_restore_cfg(Stored(d, "error"), Absent, TRUE)
    BY <1>4 DEF Booted
  <2> HIDE DEF d
  <2>4. Starting(Stored(d, "error"), n + 1) /\ n + 1 \in 2..4
    BY <2>2, StartingNext
  <2> DEFINE s == Stored(d, "error")
  <2> HIDE DEF s
  <2>5. Starting(s, n + 1)
    BY <2>4 DEF s
  <2>6. Begun(dia_restore_cfg(s, Absent, TRUE))
    BY <1>1, <2>4, <2>5, RestoreStarts
  <2> QED
    BY <2>3, <2>6 DEF s
<1> QED
  BY <1>2, <1>3, <1>4 DEF Mounts

-----------------------------------------------------------------------------
\* What is read for an answer.
LEMMA CountIs ==
  ASSUME NEW d, Typed(d), Held(d)
  PROVE  Count(d) = IF d.added < Size THEN d.added ELSE Size
<1> DEFINE least == IF d.added < Size THEN d.added ELSE Size
           P(n) == /\ \A k \in 0..(n - 1) : dia_get_event(d, k).type # "none"
                   /\ n = Size \/ dia_get_event(d, n).type = "none"
<1>1. Size \in Nat \ {0} /\ d.added \in Nat
  BY DiagnosticConstants DEF Typed
<1>2. ASSUME NEW k \in Places
      PROVE  dia_get_event(d, k).type = "none" <=> ~(k < d.added)
  <2>1. k < d.added => dia_get_event(d, k) \in Event
    BY DEF Held
  <2>2. ~(k < d.added) => dia_get_event(d, k) = Empty
    BY DEF Held
  <2> QED
    BY <2>1, <2>2 DEF Event, Empty
<1>3. least \in 0..Size /\ P(least)
  BY <1>1, <1>2 DEF Places
<1>4. ASSUME NEW n \in 0..Size, P(n)
      PROVE  n = least
  <2>1. CASE n < least
    BY <1>1, <1>2, <1>4, <2>1 DEF Places
  <2>2. CASE n > least
    <3>1. least \in 0..(n - 1) /\ least \in Places /\ ~(least < d.added)
      BY <1>1, <2>2 DEF Places
    <3> QED
      BY <1>2, <1>4, <3>1
  <2> QED
    BY <1>1, <2>1, <2>2
<1>5. Count(d) = CHOOSE n \in 0..Size : P(n)
  BY DEF Count
<1> HIDE DEF P, least
<1>6. Count(d) = least
  BY <1>3, <1>4, <1>5
<1> QED
  BY <1>6 DEF least

LEMMA NumbersAre ==
  ASSUME NEW d, Typed(d), Held(d), NEW from \in Nat, NEW to \in Nat,
         from <= to, to <= Size, to <= d.added
  PROVE  /\ Numbers(d, from, to) \in Seq(Nat) /\ Len(Numbers(d, from, to)) = to - from
         /\ \A k \in 1..(to - from) : Numbers(d, from, to)[k] = d.added - from - k + 1
<1>1. Size \in Nat \ {0} /\ d.added \in Nat
  BY DiagnosticConstants DEF Typed
<1>2. ASSUME NEW k \in 1..(to - from)
      PROVE  dia_get_event(d, from + k - 1).n = d.added - from - k + 1
  <2>1. from + k - 1 \in Places /\ from + k - 1 < d.added
    BY <1>1 DEF Places
  <2>2. dia_get_event(d, from + k - 1).n = d.added - (from + k - 1)
    BY <2>1 DEF Held
  <2> QED
    BY <1>1, <2>2
<1>3. \A k \in 1..(to - from) : Numbers(d, from, to)[k] = d.added - from - k + 1
  BY <1>2 DEF Numbers
<1>4. ASSUME NEW k \in 1..(to - from)
      PROVE  dia_get_event(d, from + k - 1).n \in Nat
  <2>1. d.added - from - k + 1 \in Nat
    BY <1>1
  <2> QED
    BY <1>2, <2>1
<1>5. to - from \in Nat
  OBVIOUS
<1>6. Numbers(d, from, to) \in [1..(to - from) -> Nat]
  BY <1>4 DEF Numbers
<1> QED
  BY <1>3, <1>5, <1>6

LEMMA PieceSizes == PieceEvents \in Nat /\ LastEvents \in Nat /\ PieceEvents <= LastEvents
<1>1. EventMax \in Nat \ {0} /\ MsgMax \in Nat /\ MsgMax - 18 \in Nat /\ MsgMax - 2 \in Nat
  BY DiagnosticConstants
<1>2. \A x, m \in Nat : m > 0 => x \div m \in Nat
  OBVIOUS
<1>3. \A x, y, m \in Nat : m > 0 /\ x <= y => x \div m <= y \div m
  OBVIOUS
<1> QED
  BY <1>1, <1>2, <1>3 DEF PieceEvents, LastEvents

-----------------------------------------------------------------------------
\* An answer under way, when n events were reported: its events are numbered down from at
\* most n, without a gap, and what it still lacks is in the journal.
Answers(a, n) ==
  /\ a \in [count : 0..Size, transferred : 0..Size, sent : Seq(Nat)]
  /\ a.count <= n /\ a.transferred <= a.count /\ Len(a.sent) = a.transferred
  /\ \A k \in 1..Len(a.sent) : a.sent[k] > 0 /\ a.sent[k] <= n - k + 1
  /\ \A k \in 1..(Len(a.sent) - 1) : a.sent[k + 1] >= a.sent[k] - 1

LEMMA AnswersLater ==
  ASSUME NEW a, NEW n \in Nat, Answers(a, n), NEW m \in Nat, n <= m
  PROVE  Answers(a, m)
<1>1. a.sent \in Seq(Nat) /\ a.count \in 0..Size
  BY DEF Answers
<1>2. ASSUME NEW k \in 1..Len(a.sent)
      PROVE  a.sent[k] <= m - k + 1
  <2>1. a.sent[k] \in Nat /\ a.sent[k] <= n - k + 1 /\ k \in Nat
    BY <1>1 DEF Answers
  <2> QED
    BY <2>1
<1>3. a.count <= m
  BY <1>1 DEF Answers
<1> QED
  BY <1>2, <1>3 DEF Answers

LEMMA NoAnswerAnswers ==
  ASSUME NEW n \in Nat
  PROVE  Answers(NoAnswer, n)
<1>1. <<>> \in Seq(Nat) /\ Len(<<>>) = 0 /\ 0 \in 0..Size
  BY DiagnosticConstants
<1> QED
  BY <1>1 DEF NoAnswer, Answers

\* The first piece.
LEMMA FirstAnswers ==
  ASSUME NEW d, Typed(d), Held(d), NEW count \in 0..Size, count <= d.added, NEW n \in 0..count
  PROVE  Answers([count |-> count, transferred |-> n, sent |-> Numbers(d, 0, n)], d.added)
<1> DEFINE s == Numbers(d, 0, n)
<1>1. Size \in Nat \ {0} /\ d.added \in Nat
  BY DiagnosticConstants DEF Typed
<1>2. s \in Seq(Nat) /\ Len(s) = n /\ \A k \in 1..n : s[k] = d.added - k + 1
  <2>1. /\ s \in Seq(Nat) /\ Len(s) = n - 0
        /\ \A k \in 1..(n - 0) : s[k] = d.added - 0 - k + 1
    <3>1. 0 \in Nat /\ n \in Nat /\ 0 <= n /\ n <= Size /\ n <= d.added
      BY <1>1
    <3> QED
      BY <3>1, NumbersAre
  <2> QED
    BY <1>1, <2>1
<1> HIDE DEF s
<1>3. ASSUME NEW k \in 1..Len(s)
      PROVE  s[k] > 0 /\ s[k] <= d.added - k + 1
  BY <1>1, <1>2
<1>4. ASSUME NEW k \in 1..(Len(s) - 1)
      PROVE  s[k + 1] >= s[k] - 1
  BY <1>1, <1>2
<1>5. n \in 0..Size
  BY <1>1
<1> QED
  BY <1>1, <1>2, <1>3, <1>4, <1>5 DEF Answers, s

\* A later piece, read from a journal that may hold other events at the same index.
LEMMA NextAnswers ==
  ASSUME NEW d, Typed(d), Held(d), NEW a, Answers(a, d.added),
         NEW n \in 0..(a.count - a.transferred)
  PROVE  Answers([a EXCEPT !.transferred = @ + n,
                           !.sent = @ \o Numbers(d, a.transferred, a.transferred + n)], d.added)
<1> DEFINE t == a.transferred
           s == a.sent
           p == Numbers(d, t, t + n)
           b == [a EXCEPT !.transferred = @ + n, !.sent = @ \o p]
           r == s \o p
<1>1. /\ Size \in Nat \ {0} /\ d.added \in Nat /\ a.count \in 0..Size /\ t \in 0..Size
      /\ a.count <= d.added /\ t <= a.count /\ s \in Seq(Nat) /\ Len(s) = t /\ n \in Nat
  BY DiagnosticConstants DEF Typed, Answers
<1>2. p \in Seq(Nat) /\ Len(p) = n /\ \A k \in 1..n : p[k] = d.added - t - k + 1
  <2>1. /\ p \in Seq(Nat) /\ Len(p) = (t + n) - t
        /\ \A k \in 1..((t + n) - t) : p[k] = d.added - t - k + 1
    <3>1. t \in Nat /\ t + n \in Nat /\ t <= t + n /\ t + n <= Size /\ t + n <= d.added
      BY <1>1
    <3> QED
      BY <3>1, NumbersAre
  <2> QED
    BY <1>1, <2>1
<1>3. b.count = a.count /\ b.transferred = t + n /\ b.sent = r
  <2>1. a \in [count : 0..Size, transferred : 0..Size, sent : Seq(Nat)]
    BY DEF Answers
  <2> HIDE DEF p
  <2> QED
    BY <2>1
<1>4. \A k \in 1..t : s[k] \in Nat /\ s[k] > 0 /\ s[k] <= d.added - k + 1
  BY <1>1 DEF Answers
<1>5. \A k \in 1..(t - 1) : s[k + 1] >= s[k] - 1
  BY <1>1 DEF Answers
<1> HIDE DEF p, s, t, b
<1>6. /\ r \in Seq(Nat) /\ Len(r) = t + n
      /\ \A k \in 1..(t + n) : r[k] = IF k <= t THEN s[k] ELSE p[k - t]
  BY <1>1, <1>2, ConcatProperties
<1> HIDE DEF r
<1>7. t + n \in 0..Size /\ t + n <= a.count
  BY <1>1 DEF t
<1>8. ASSUME NEW k \in 1..(t + n)
      PROVE  r[k] \in Nat /\ r[k] > 0 /\ r[k] <= d.added - k + 1
                /\ (k > t => r[k] = d.added - k + 1)
  <2>1. CASE k <= t
    BY <1>1, <1>4, <1>6, <2>1
  <2>2. CASE k > t
    <3>1. r[k] = p[k - t] /\ k - t \in 1..n
      BY <1>1, <1>6, <2>2
    <3>2. r[k] = d.added - t - (k - t) + 1
      BY <1>2, <3>1
    <3>3. t \in Nat /\ n \in Nat /\ k \in Nat /\ k <= d.added
      BY <1>1, <1>7
    <3>4. d.added - t - (k - t) + 1 = d.added - k + 1
      BY <1>1, <3>3
    <3> QED
      BY <1>1, <2>2, <3>2, <3>3, <3>4
  <2> QED
    BY <1>1, <2>1, <2>2
<1>9. ASSUME NEW k \in 1..(t + n - 1)
      PROVE  r[k + 1] >= r[k] - 1
  <2>1. CASE k < t
    <3>1. k \in 1..(t - 1) /\ r[k] = s[k] /\ r[k + 1] = s[k + 1]
      BY <1>1, <1>6, <2>1
    <3> QED
      BY <1>5, <3>1
  <2>2. CASE k >= t
    <3>1. k \in 1..(t + n) /\ k + 1 \in 1..(t + n) /\ k + 1 > t
      BY <1>1, <2>2
    <3>2. r[k + 1] = d.added - (k + 1) + 1 /\ r[k] \in Nat /\ r[k] <= d.added - k + 1
      BY <1>8, <3>1
    <3> QED
      BY <1>1, <3>2
  <2> QED
    BY <1>1, <2>1, <2>2
<1>10. \A k \in 1..Len(r) : r[k] > 0 /\ r[k] <= d.added - k + 1
  <2>1. Len(r) = t + n
    BY <1>6
  <2> QED
    BY <1>8, <2>1
<1>11. \A k \in 1..(Len(r) - 1) : r[k + 1] >= r[k] - 1
  <2>1. Len(r) = t + n
    BY <1>6
  <2>2. Len(r) - 1 = t + n - 1
    BY <1>1, <2>1
  <2> QED
    BY <1>9, <2>2
<1>12. b \in [count : 0..Size, transferred : 0..Size, sent : Seq(Nat)]
  <2>1. a \in [count : 0..Size, transferred : 0..Size, sent : Seq(Nat)]
    BY DEF Answers
  <2> QED
    BY <1>6, <1>7, <2>1 DEF b, r, s, t
<1>13. Answers(b, d.added)
  BY <1>1, <1>3, <1>6, <1>7, <1>10, <1>11, <1>12 DEF Answers
<1> QED
  BY <1>13 DEF b, p, t

-----------------------------------------------------------------------------
\* What a step may do to the journal: report, mark and report, or start anew.
Moves(d, e) ==
  \/ \E k \in 0..2 \cup {5} : Reports(d, e, k)
  \/ \E k \in 0..1 : Reports(Marked(d), e, k)
  \/ \E k \in 3..6 : Reports(Fresh, e, k)

Inv ==
  /\ Sound(Diag, taken) /\ taken \in BOOLEAN
  /\ file \in Files /\ faults \in 0..MaxFaults
  /\ Answers(answer, added)

LEMMA DiagFields ==
  /\ Diag.evnt = evnt /\ Diag.last = last /\ Diag.added = added /\ Diag.mask = led_mask
  /\ Diag.pin = pin /\ Diag.lit = lit /\ Diag.down = FALSE
BY DEF Diag

LEMMA IsDiag ==
  ASSUME NEW d, Typed(d), ~d.down, Is(d)
  PROVE  Diag' = d
<1>1. d.down = FALSE
  BY DEF Typed
<1> QED
  BY <1>1 DEF Typed, Is, Diag

\* A handler that leaves the journal sound, and an answer from it, keeps the invariant.
LEMMA SoundInv ==
  ASSUME NEW d, Sound(d, taken'), Is(d), ~d.down, taken' \in BOOLEAN,
         file' \in Files, faults' \in 0..MaxFaults, Answers(answer', d.added)
  PROVE  Inv' /\ Diag' = d
<1>1. Diag' = d /\ added' = d.added
  BY IsDiag DEF Sound, Is
<1>2. Sound(Diag, taken)'
  BY <1>1 DEF Sound, Typed, Held, Lights, dia_get_event
<1>3. Answers(answer, added)'
  BY <1>1 DEF Answers
<1> QED
  BY <1>1, <1>2, <1>3 DEF Inv, Files, Good, Absent, Garbled

\* The same when the answer is left as it is.
LEMMA LeavesInv ==
  ASSUME Inv, NEW d, Sound(d, taken'), Is(d), ~d.down, d.added >= added, taken' \in BOOLEAN,
         file' \in Files, faults' \in 0..MaxFaults, UNCHANGED answer
  PROVE  Inv' /\ Diag' = d
<1>1. added \in Nat /\ d.added \in Nat
  BY DiagFields DEF Inv, Sound, Typed
<1>2. Answers(answer, d.added)
  BY <1>1, AnswersLater DEF Inv
<1> QED
  BY <1>2, SoundInv

LEMMA BootInv ==
  ASSUME Inv, NEW f \in Files, Boot(f)
  PROVE  Inv' /\ Moves(Diag, Diag')
<1>1. PICK how \in Mounts, readable \in BOOLEAN :
        /\ Is(Booted(how, f, readable))
        /\ IF how = "mounted" /\ readable THEN UNCHANGED faults
           ELSE faults < MaxFaults /\ faults' = faults + 1
        /\ file' \in CASE how = "mounted"     -> {f}
                       [] how = "unmountable" -> {f, Absent}
                       [] OTHER               -> {Absent}
        /\ taken' = FALSE /\ answer' = NoAnswer
  BY DEF Boot
<1> DEFINE d == Booted(how, f, readable)
<1>2. Sound(d, FALSE) /\ ~d.down /\ \E k \in 3..6 : Reports(Fresh, d, k)
  BY BootedSound DEF Begun
<1>3. Is(d)
  BY <1>1
<1> HIDE DEF d
<1>4. Diag' = d /\ added' = d.added /\ d.added \in Nat
  BY <1>2, <1>3, IsDiag DEF Sound, Is, Typed
<1>5. taken' = FALSE /\ file' \in Files /\ answer' = NoAnswer
  <2>1. file' \in {f, Absent} /\ Absent \in Files
    BY <1>1 DEF Files
  <2> QED
    BY <1>1, <2>1
<1>6. faults' \in 0..MaxFaults
  <2>1. UNCHANGED faults \/ (faults < MaxFaults /\ faults' = faults + 1)
    BY <1>1
  <2>2. faults \in 0..MaxFaults /\ MaxFaults \in Nat
    BY DiagnosticConstants DEF Inv
  <2> QED
    BY <2>1, <2>2
<1>7. Sound(Diag, taken)'
  BY <1>2, <1>4, <1>5 DEF Sound, Typed, Held, Lights, dia_get_event
<1>8. Answers(answer, added)'
  BY <1>4, <1>5, NoAnswerAnswers DEF Answers
<1>9. Inv'
  BY <1>5, <1>6, <1>7, <1>8 DEF Inv, Files, Good, Absent, Garbled
<1> QED
  BY <1>2, <1>4, <1>9 DEF Moves

\* A handler that reports the event e.
LEMMA ReportingInv ==
  ASSUME Inv, NEW t \in Types, NEW d, d = dia_add_event(Diag, t), Leaves(d),
         UNCHANGED <<taken, file, answer>>, faults' \in 0..MaxFaults
  PROVE  Inv' /\ Moves(Diag, Diag')
<1>1. Sound(Diag, taken) /\ taken \in BOOLEAN /\ ~Diag.down /\ added \in Nat
  BY DiagFields DEF Inv, Sound, Typed
<1>2. ~d.down /\ Is(d)
  BY DEF Leaves
<1>3. Sound(d, taken) /\ \E k \in 1..2 : Reports(Diag, d, k)
  BY <1>1, <1>2, AddEvent
<1>4. d.added >= added
  BY <1>1, <1>3, DiagFields DEF Reports
<1>5. Inv' /\ Diag' = d
  BY <1>1, <1>2, <1>3, <1>4, LeavesInv DEF Inv
<1>6. \E k \in 0..2 : Reports(Diag, d, k)
  BY <1>3
<1> QED
  BY <1>5, <1>6 DEF Moves

LEMMA FailsBound ==
  ASSUME Inv
  PROVE  /\ Fails => faults' \in 0..MaxFaults
         /\ UNCHANGED faults => faults' \in 0..MaxFaults
BY DiagnosticConstants DEF Inv, Fails

\* A step that leaves the journal and the LED alone.
LEMMA StillMoves ==
  ASSUME Inv, UNCHANGED <<journal, led_mask, pin, lit>>
  PROVE  Diag' = Diag /\ Moves(Diag, Diag')
<1>1. Diag' = Diag
  BY DEF Diag, journal
<1>2. Typed(Diag)
  BY DEF Inv, Sound
<1>3. Reports(Diag, Diag', 0)
  BY <1>1, <1>2, ReportsNone
<1> QED
  BY <1>1, <1>3 DEF Moves

-----------------------------------------------------------------------------
LEMMA ReportInv ==
  ASSUME Inv, NEW t \in Reported, Report(t)
  PROVE  Inv' /\ Moves(Diag, Diag')
<1> DEFINE d == dia_add_event(Diag, t)
<1>1. t \in Types
  BY DiagnosticConstants
<1>2. CASE Leaves(d) /\ UNCHANGED <<taken, file, mounted, answer, faults>>
  BY <1>1, <1>2, ReportingInv, FailsBound
<1>3. CASE Overflows(d)
  BY <1>3, BootInv DEF Overflows, Inv
<1> QED
  BY <1>2, <1>3 DEF Report

LEMMA AckInv ==
  ASSUME Inv, ackDiagnosticEvents
  PROVE  Inv' /\ Moves(Diag, Diag')
<1> DEFINE d == dia_ack_events(Diag)
<1>1. CASE Leaves(d) /\ UNCHANGED <<taken, file, mounted, answer, faults>>
  <2>1. Sound(Diag, taken) /\ taken \in BOOLEAN /\ ~Diag.down /\ added \in Nat
    BY DiagFields DEF Inv, Sound, Typed
  <2>2. ~d.down /\ Is(d)
    BY <1>1 DEF Leaves
  <2>3. Sound(d, taken) /\ \E k \in 0..1 : Reports(Marked(Diag), d, k)
    BY <2>1, <2>2, AckEvents
  <2>4. Marked(Diag).added = added
    BY <2>1, MarkedGet, DiagFields DEF Sound
  <2> HIDE DEF d
  <2>5. d.added >= added
    BY <2>1, <2>3, <2>4 DEF Reports
  <2>6. Inv' /\ Diag' = d
    BY <1>1, <2>1, <2>2, <2>3, <2>5, LeavesInv DEF Inv
  <2> QED
    BY <2>3, <2>6 DEF Moves
<1>2. CASE Overflows(d)
  BY <1>2, BootInv DEF Overflows, Inv
<1> QED
  BY <1>1, <1>2 DEF ackDiagnosticEvents

LEMMA CfgInv ==
  ASSUME Inv, NEW mask \in Masks, setDiagnosticCfg(mask)
  PROVE  Inv' /\ Moves(Diag, Diag')
<1> DEFINE d == dia_set_led_mask(Diag, mask)
           e == dia_add_event(d, "error")
<1>1. /\ Typed(Diag) /\ Held(Diag) /\ ~Diag.down /\ added \in Nat
  BY DiagFields DEF Inv, Sound, Typed
<1>2. /\ Sound(d, FALSE) /\ ~d.down /\ d.pin # "input"
      /\ d.evnt = Diag.evnt /\ d.last = Diag.last /\ d.added = Diag.added
  <2>1. mask \in Masks \cup {{}}
    OBVIOUS
  <2>2. Typed(Diag) /\ Held(Diag) /\ ~Diag.down
    BY <1>1
  <2> QED
    BY <2>1, <2>2, SetLedMask
<1>3. \A k : Reports(d, e, k) <=> Reports(Diag, e, k)
  BY <1>2, ReportsNone, <1>1 DEF Reports
<1>4. Reports(Diag, d, 0)
  BY <1>1, <1>2, ReportsNone
<1>5. Good(mask) \in Files /\ Garbled \in Files /\ file \in Files
  BY DEF Files, Inv
<1> HIDE DEF d
<1>6. CASE Leaves(d) /\ taken' = FALSE /\ UNCHANGED answer /\ file' = Good(mask) /\ UNCHANGED faults
  <2>1. Is(d) /\ taken' \in BOOLEAN /\ file' \in Files
    BY <1>5, <1>6 DEF Leaves
  <2>2. d.added >= added
    BY <1>1, <1>2, DiagFields
  <2>3. Sound(d, taken')
    BY <1>2, <1>6
  <2>4. faults' \in 0..MaxFaults
    BY <1>6, FailsBound
  <2>5. Inv' /\ Diag' = d
    BY <1>2, <1>6, <2>1, <2>2, <2>3, <2>4, LeavesInv
  <2> QED
    BY <1>4, <2>5 DEF Moves
<1>7. CASE Leaves(e) /\ taken' = FALSE /\ UNCHANGED answer /\ file' \in {Good(mask), Garbled, file} /\ Fails
  <2>1. ~e.down /\ Is(e)
    BY <1>7 DEF Leaves
  <2>2. Sound(e, FALSE) /\ \E k \in 1..2 : Reports(d, e, k)
    BY <1>2, <2>1, AddEvent
  <2> HIDE DEF e
  <2>3. PICK k \in 1..2 : Reports(Diag, e, k)
    BY <1>3, <2>2
  <2>4. e.added >= added
    BY <1>1, <2>3, DiagFields DEF Reports
  <2>5. file' \in Files /\ faults' \in 0..MaxFaults
    BY <1>5, <1>7, FailsBound
  <2>8. Sound(e, taken') /\ taken' \in BOOLEAN
    BY <1>7, <2>2
  <2>6. Inv' /\ Diag' = e
    BY <1>7, <2>1, <2>4, <2>5, <2>8, LeavesInv
  <2>7. k \in 0..2
    OBVIOUS
  <2> QED
    BY <2>3, <2>6, <2>7 DEF Moves
<1>8. CASE \E f \in {file} \cup (IF mounted THEN {Garbled, Good(mask)} ELSE {}) : Boot(f)
  BY <1>5, <1>8, BootInv
<1>9. CASE Leaves(NotMounted(d)) /\ taken' = FALSE /\ UNCHANGED <<file, answer, faults>>
  <2> DEFINE n == NotMounted(d)
  <2>1. Sound(n, FALSE) /\ ~n.down /\ Reports(d, n, 5)
    BY <1>2, NotMountedSound
  <2>2. Is(n)
    BY <1>9 DEF Leaves
  <2> HIDE DEF n
  <2>3. Reports(Diag, n, 5)
    BY <1>1, <1>2, <2>1, ReportsNone DEF Reports
  <2>4. n.added >= added
    BY <1>1, <2>3, DiagFields DEF Reports
  <2>5. Sound(n, taken') /\ taken' \in BOOLEAN /\ file' \in Files /\ faults' \in 0..MaxFaults
    BY <1>5, <1>9, <2>1, FailsBound
  <2>6. Inv' /\ Diag' = n
    BY <1>9, <2>1, <2>2, <2>4, <2>5, LeavesInv
  <2> QED
    BY <2>3, <2>6 DEF Moves
<1>10. \/ /\ taken' = FALSE /\ UNCHANGED <<answer, mounted>>
          /\ IF mounted
             THEN \/ Leaves(d) /\ file' = Good(mask) /\ UNCHANGED faults
                  \/ Fails /\ Leaves(e) /\ file' \in {Good(mask), Garbled, file}
             ELSE Leaves(NotMounted(d)) /\ UNCHANGED <<file, faults>>
       \/ \E f \in {file} \cup (IF mounted THEN {Garbled, Good(mask)} ELSE {}) : Boot(f)
  BY Zenon DEF setDiagnosticCfg, d
<1> HIDE DEF e
<1>11. CASE /\ taken' = FALSE /\ UNCHANGED <<answer, mounted>>
            /\ IF mounted
               THEN \/ Leaves(d) /\ file' = Good(mask) /\ UNCHANGED faults
                    \/ Fails /\ Leaves(e) /\ file' \in {Good(mask), Garbled, file}
               ELSE Leaves(NotMounted(d)) /\ UNCHANGED <<file, faults>>
  BY <1>6, <1>7, <1>9, <1>11
<1> QED
  BY <1>8, <1>10, <1>11

LEMMA GpioCfgInv ==
  ASSUME Inv, NEW pin_type \in Pins, setGpioCfg(pin_type)
  PROVE  Inv' /\ Moves(Diag, Diag')
<1> DEFINE d == [Diag EXCEPT !.pin = pin_type, !.lit = IF pin_type = "input" THEN FALSE ELSE lit]
<1>1. Typed(Diag) /\ Held(Diag) /\ ~Diag.down /\ added \in Nat /\ lit \in BOOLEAN
  BY DiagFields DEF Inv, Sound, Typed
<1>2. (IF pin_type = "input" THEN FALSE ELSE lit) \in BOOLEAN
  BY <1>1
<1>3. /\ Typed(d) /\ d.evnt = evnt /\ d.last = last /\ d.added = added /\ d.mask = led_mask
      /\ d.pin = pin_type /\ d.lit = (IF pin_type = "input" THEN FALSE ELSE lit) /\ ~d.down
  BY <1>1, <1>2, DiagFields DEF Typed
<1> HIDE DEF d
<1>4. Held(d) /\ Reports(Diag, d, 0)
  BY <1>1, <1>3, DiagFields, HeldSame, ReportsNone
<1>5. taken' = TRUE /\ UNCHANGED <<file, mounted, answer, faults>>
  BY DEF setGpioCfg
<1>6. Is(d)
  BY <1>3 DEF setGpioCfg, Is, journal
<1>7. Sound(d, taken')
  BY <1>3, <1>4, <1>5 DEF Sound, Lights
<1>8. file' \in Files /\ faults' \in 0..MaxFaults /\ d.added >= added /\ taken' \in BOOLEAN
  BY <1>1, <1>3, <1>5 DEF Inv
<1>9. Inv' /\ Diag' = d
  BY <1>3, <1>5, <1>6, <1>7, <1>8, LeavesInv
<1> QED
  BY <1>4, <1>9 DEF Moves

LEMMA GpioLevelInv ==
  ASSUME Inv, NEW on \in BOOLEAN, setGpioLevel(on)
  PROVE  Inv' /\ Moves(Diag, Diag')
<1> DEFINE d == gpio_set(Diag, on)
<1>1. Typed(Diag) /\ Held(Diag) /\ ~Diag.down /\ added \in Nat
  BY DiagFields DEF Inv, Sound, Typed
<1>2. CASE Leaves(d) /\ taken' = TRUE /\ UNCHANGED <<file, mounted, answer, faults>>
  <2>1. ~d.down /\ Is(d)
    BY <1>2 DEF Leaves
  <2>2. Typed(d) /\ Held(d) /\ \E k \in 0..1 : Reports(Diag, d, k)
    BY <1>1, <2>1, GpioSet
  <2> HIDE DEF d
  <2>3. PICK k \in 0..1 : Reports(Diag, d, k)
    BY <2>2
  <2>4. d.added >= added
    BY <1>1, <2>3, DiagFields DEF Reports
  <2>5. Sound(d, taken') /\ taken' \in BOOLEAN
    BY <1>2, <2>2 DEF Sound, Lights
  <2>6. file' \in Files /\ faults' \in 0..MaxFaults
    BY <1>2 DEF Inv
  <2>7. Inv' /\ Diag' = d
    BY <1>2, <2>1, <2>4, <2>5, <2>6, LeavesInv
  <2>8. k \in 0..2
    OBVIOUS
  <2> QED
    BY <2>3, <2>7, <2>8 DEF Moves
<1>3. CASE Overflows(d)
  BY <1>3, BootInv DEF Overflows, Inv
<1> QED
  BY <1>2, <1>3 DEF setGpioLevel

LEMMA GetEventsInv ==
  ASSUME Inv, getDiagnosticEvents
  PROVE  Inv' /\ Moves(Diag, Diag')
<1> DEFINE late == dia_add_event(Diag, "error")
           count == Count(Diag)
<1>1. /\ Sound(Diag, taken) /\ Typed(Diag) /\ Held(Diag) /\ ~Diag.down /\ taken \in BOOLEAN
      /\ Diag.added = added /\ added \in Nat /\ Size \in Nat \ {0}
  BY DiagFields, DiagnosticConstants DEF Inv, Sound, Typed
<1>2. count \in 0..Size /\ count <= added
  BY <1>1, CountIs
<1>3. Reports(Diag, Diag, 0)
  BY <1>1, ReportsNone
<1>4. "error" \in Types
  OBVIOUS
<1>5. late.down \/ (Sound(late, taken) /\ ~late.down /\ \E k \in 1..2 : Reports(Diag, late, k))
  BY <1>1, <1>4, AddEvent
<1> HIDE DEF late, count
<1>6. ASSUME NEW d \in {Diag, late}, IF d = Diag THEN UNCHANGED faults ELSE Fails, Leaves(d),
             NEW n \in {count, PieceEvents}, n <= count,
             answer' = [count |-> count, transferred |-> n, sent |-> Numbers(d, 0, n)],
             UNCHANGED <<taken, file, mounted>>
      PROVE  Inv' /\ Moves(Diag, Diag')
  <2>1. ~d.down /\ Is(d)
    BY <1>6 DEF Leaves
  <2>2. Sound(d, taken) /\ \E k \in 0..2 : Reports(Diag, d, k)
    <3>1. CASE d = Diag
      <4>1. 0 \in 0..2
        OBVIOUS
      <4> QED
        BY <1>1, <1>3, <3>1, <4>1
    <3>2. CASE d = late
      <4>1. PICK k \in 1..2 : Reports(Diag, late, k)
        BY <1>5, <2>1, <3>2
      <4>2. k \in 0..2
        OBVIOUS
      <4> QED
        BY <1>5, <2>1, <3>2, <4>1, <4>2
    <3> QED
      BY <3>1, <3>2
  <2>3. d.added \in Nat /\ d.added >= added
    BY <1>1, <2>2 DEF Reports
  <2>4. n \in 0..count
    BY <1>2, <1>6, PieceSizes
  <2>5. count <= d.added /\ Typed(d) /\ Held(d)
    BY <1>1, <1>2, <2>2, <2>3 DEF Sound
  <2>6. Answers(answer', d.added)
    BY <1>2, <1>6, <2>4, <2>5, FirstAnswers
  <2>7. faults' \in 0..MaxFaults
    BY <1>6, FailsBound
  <2>8. Sound(d, taken') /\ taken' \in BOOLEAN /\ file' \in Files
    BY <1>1, <1>6, <2>2 DEF Inv
  <2>9. Inv' /\ Diag' = d
    BY <2>1, <2>6, <2>7, <2>8, SoundInv
  <2> QED
    BY <2>2, <2>9 DEF Moves
<1>7. CASE Fails /\ Leaves(late) /\ UNCHANGED <<taken, file, mounted, answer>>
  BY <1>4, <1>7, ReportingInv, FailsBound DEF late
<1>8. CASE Overflows(late)
  BY <1>8, BootInv DEF Overflows, Inv
<1> QED
  BY <1>6, <1>7, <1>8 DEF getDiagnosticEvents, late, count

LEMMA GetNextInv ==
  ASSUME Inv, getDiagnosticEvents_next
  PROVE  Inv' /\ Moves(Diag, Diag')
<1> DEFINE left == answer.count - answer.transferred
           n == IF left > LastEvents THEN PieceEvents ELSE left
           a == [answer EXCEPT !.transferred = @ + n,
                               !.sent = @ \o Numbers(Diag, answer.transferred, answer.transferred + n)]
<1>1. Typed(Diag) /\ Held(Diag) /\ Diag.added = added /\ Answers(answer, added)
  BY DiagFields DEF Inv, Sound
<1>2. UNCHANGED <<journal, led_mask, pin, lit, taken, file, mounted, faults>> /\ answer' = a
  BY DEF getDiagnosticEvents_next
<1>3. left \in Nat /\ answer.count \in 0..Size /\ answer.transferred \in 0..Size
  BY <1>1 DEF Answers, getDiagnosticEvents_next
<1>4. n \in 0..(answer.count - answer.transferred)
  BY <1>3, PieceSizes
<1> HIDE DEF n
<1>5. Answers(a, added)
  BY <1>1, <1>4, NextAnswers
<1>6. Diag' = Diag /\ Moves(Diag, Diag') /\ added' = added
  BY <1>2, StillMoves DEF journal
<1>7. Answers(answer, added)'
  BY <1>2, <1>5, <1>6 DEF Answers
<1>8. Sound(Diag, taken)'
  BY <1>2, <1>6 DEF Inv, Sound, Typed, Held, Lights, dia_get_event
<1> QED
  BY <1>2, <1>6, <1>7, <1>8 DEF Inv, Files, Good, Absent, Garbled

LEMMA GivesUpInv ==
  ASSUME Inv, GivesUp
  PROVE  Inv' /\ Moves(Diag, Diag')
<1> DEFINE d == dia_add_event(Diag, "error")
<1>1. /\ Sound(Diag, taken) /\ taken \in BOOLEAN /\ ~Diag.down /\ added \in Nat
      /\ Diag.added = added
  BY DiagFields DEF Inv, Sound, Typed
<1>2. CASE answer' = NoAnswer /\ UNCHANGED <<journal, led_mask, pin, lit, faults>> /\ UNCHANGED <<taken, file, mounted>>
  <2>1. Diag' = Diag /\ Moves(Diag, Diag')
    BY <1>2, StillMoves
  <2>2. Answers(answer, added)'
    BY <1>1, <1>2, NoAnswerAnswers DEF journal, Answers
  <2>3. Sound(Diag, taken)'
    BY <1>2, <2>1 DEF Inv, Sound, Typed, Held, Lights, dia_get_event
  <2> QED
    BY <1>2, <2>1, <2>2, <2>3 DEF Inv, Files, Good, Absent, Garbled
<1>3. CASE answer' = NoAnswer /\ Fails /\ Leaves(d) /\ UNCHANGED <<taken, file, mounted>>
  <2>1. ~d.down /\ Is(d)
    BY <1>3 DEF Leaves
  <2>2. "error" \in Types
    OBVIOUS
  <2>3. Sound(d, taken) /\ \E k \in 1..2 : Reports(Diag, d, k)
    BY <1>1, <2>1, <2>2, AddEvent
  <2> HIDE DEF d
  <2>4. PICK k \in 1..2 : Reports(Diag, d, k)
    BY <2>3
  <2>5. d.added \in Nat /\ k \in 0..2
    BY <2>3 DEF Sound, Typed
  <2>6. Answers(answer', d.added)
    BY <1>3, <2>5, NoAnswerAnswers
  <2>7. Sound(d, taken') /\ taken' \in BOOLEAN /\ file' \in Files /\ faults' \in 0..MaxFaults
    BY <1>1, <1>3, <2>3, FailsBound DEF Inv
  <2>8. Inv' /\ Diag' = d
    BY <2>1, <2>6, <2>7, SoundInv
  <2> QED
    BY <2>4, <2>5, <2>8 DEF Moves
<1>4. CASE Overflows(d)
  BY <1>4, BootInv DEF Overflows, Inv
<1> QED
  BY <1>2, <1>3, <1>4 DEF GivesUp

-----------------------------------------------------------------------------
LEMMA InvInit == Init => Inv /\ \E k \in 3..6 : Reports(Fresh, Diag, k)
<1> SUFFICES ASSUME Init PROVE Inv /\ \E k \in 3..6 : Reports(Fresh, Diag, k)
  OBVIOUS
<1>1. Absent \in Files /\ {"mounted", "formatted"} \subseteq Mounts
  BY DEF Files, Mounts
<1>0. PICK how \in {"mounted", "formatted"} :
        LET d == Booted(how, Absent, TRUE)
        IN  /\ evnt = d.evnt /\ last = d.last /\ added = d.added
            /\ led_mask = d.mask /\ pin = d.pin /\ lit = d.lit
            /\ file = Absent /\ taken = FALSE /\ answer = NoAnswer /\ faults = 0
  BY DEF Init
<1> DEFINE d == Booted(how, Absent, TRUE)
<1>2. Sound(d, FALSE) /\ ~d.down /\ \E k \in 3..6 : Reports(Fresh, d, k)
  BY <1>1, BootedSound DEF Begun
<1>3. /\ evnt = d.evnt /\ last = d.last /\ added = d.added
      /\ led_mask = d.mask /\ pin = d.pin /\ lit = d.lit
      /\ file = Absent /\ taken = FALSE /\ answer = NoAnswer /\ faults = 0
  BY <1>0
<1> HIDE DEF d
<1>4. Diag = d
  <2>1. d.down = FALSE
    BY <1>2 DEF Sound, Typed
  <2> QED
    BY <1>2, <1>3, <2>1 DEF Sound, Typed, Diag
<1>5. added \in Nat /\ 0 \in 0..MaxFaults
  BY <1>2, <1>3, DiagnosticConstants DEF Sound, Typed
<1>6. Answers(answer, added)
  BY <1>3, <1>5, NoAnswerAnswers
<1> QED
  BY <1>1, <1>2, <1>3, <1>4, <1>5, <1>6 DEF Inv

LEMMA InvNext == Inv /\ [Next]_vars => Inv' /\ Moves(Diag, Diag')
<1> SUFFICES ASSUME Inv, [Next]_vars PROVE Inv' /\ Moves(Diag, Diag')
  OBVIOUS
<1>1. ASSUME NEW t \in Reported, Report(t) PROVE Inv' /\ Moves(Diag, Diag')
  BY <1>1, ReportInv
<1>2. CASE ackDiagnosticEvents
  BY <1>2, AckInv
<1>3. ASSUME NEW mask \in Masks, setDiagnosticCfg(mask) PROVE Inv' /\ Moves(Diag, Diag')
  BY <1>3, CfgInv
<1>4. ASSUME NEW t \in Pins, setGpioCfg(t) PROVE Inv' /\ Moves(Diag, Diag')
  BY <1>4, GpioCfgInv
<1>5. ASSUME NEW on \in BOOLEAN, setGpioLevel(on) PROVE Inv' /\ Moves(Diag, Diag')
  BY <1>5, GpioLevelInv
<1>6. CASE getDiagnosticEvents
  BY <1>6, GetEventsInv
<1>7. CASE getDiagnosticEvents_next
  BY <1>7, GetNextInv
<1>8. CASE GivesUp
  BY <1>8, GivesUpInv
<1>9. CASE PowerLoss
  BY <1>9, BootInv DEF PowerLoss, Inv
<1>10. CASE UNCHANGED vars
  <2>1. UNCHANGED <<journal, led_mask, pin, lit>> /\ UNCHANGED <<added, taken, file, answer, faults>>
    BY <1>10 DEF vars, journal
  <2>2. Diag' = Diag /\ Moves(Diag, Diag')
    BY <2>1, StillMoves
  <2>3. Sound(Diag, taken)' /\ Answers(answer, added)'
    BY <2>1, <2>2 DEF Inv, Sound, Typed, Held, Lights, dia_get_event, Answers
  <2> QED
    BY <2>1, <2>2, <2>3 DEF Inv, Files, Good, Absent, Garbled
<1> QED
  BY <1>1, <1>2, <1>3, <1>4, <1>5, <1>6, <1>7, <1>8, <1>9, <1>10 DEF Next, Pins

\* Every reachable journal is sound.
LEMMA InvCorrect == Spec => []Inv
<1>1. Init => Inv
  BY InvInit
<1>2. Inv /\ [Next]_vars => Inv'
  BY InvNext
<1> QED
  BY <1>1, <1>2, PTL DEF Spec

MountKnown == mounted \in BOOLEAN

LEMMA MountedCorrect == Spec => []MountKnown
<1>1. Init => MountKnown
  BY DEF Init, MountKnown
<1>2. ASSUME MountKnown, [Next]_vars PROVE MountKnown'
  <2>1. ASSUME NEW f, Boot(f) PROVE mounted' \in BOOLEAN
    BY <2>1 DEF Boot
  <2>2. ASSUME mounted' = mounted PROVE mounted' \in BOOLEAN
    BY <1>2, <2>2 DEF MountKnown
  <2>3. mounted' = mounted \/ \E f : Boot(f)
    <3>1. ASSUME NEW mask, setDiagnosticCfg(mask) PROVE mounted' = mounted \/ \E f : Boot(f)
      BY <3>1 DEF setDiagnosticCfg
    <3>2. CASE getDiagnosticEvents \/ getDiagnosticEvents_next \/ GivesUp
      BY <3>2 DEF getDiagnosticEvents, getDiagnosticEvents_next, GivesUp, Overflows
    <3>3. CASE ackDiagnosticEvents \/ PowerLoss \/ UNCHANGED vars
      BY <3>3 DEF ackDiagnosticEvents, PowerLoss, Overflows, vars
    <3>4. ASSUME NEW t, Report(t) \/ setGpioCfg(t) \/ setGpioLevel(t)
          PROVE  mounted' = mounted \/ \E f : Boot(f)
      BY <3>4 DEF Report, setGpioCfg, setGpioLevel, Overflows
    <3> QED
      BY <1>2, <3>1, <3>2, <3>3, <3>4 DEF Next
  <2> QED
    BY <2>1, <2>2, <2>3 DEF MountKnown
<1> QED
  BY <1>1, <1>2, PTL DEF Spec

\* The variables of the journal, the LED, the file and the answer keep their types.
THEOREM TypeCorrect == Spec => []TypeOK
<1>1. Inv /\ MountKnown => TypeOK
  <2> SUFFICES ASSUME Inv, MountKnown PROVE TypeOK
    OBVIOUS
  <2>1. Typed(Diag) /\ Answers(answer, added)
    BY DEF Inv, Sound
  <2>2. /\ evnt \in [0..(Size - 1) -> Event \cup {Empty}]
        /\ last \in 0..(Size - 1) /\ added \in Nat
        /\ led_mask \in Masks \cup {{}} /\ pin \in {"unprovisioned", "input", "output"}
        /\ lit \in BOOLEAN
    BY <2>1, DiagFields DEF Typed, Places, Pins
  <2>3. answer \in [count : 0..Size, transferred : 0..Size, sent : Seq(Nat)]
    BY <2>1 DEF Answers
  <2> QED
    BY <2>2, <2>3 DEF TypeOK, Inv, Files, MountKnown
<1> QED
  BY <1>1, InvCorrect, MountedCorrect, PTL

\* While the API leaves its pin alone, the LED is lit as long as an event of its mask is not
\* acknowledged, whichever way dia_add_event, dia_ack_events and dia_set_led_mask alternate.
THEOREM LedCorrect == Spec => []LedShows
<1>1. Inv => LedShows
  BY DiagFields DEF Inv, Sound, Lights, LedShows, Places
<1> QED
  BY <1>1, InvCorrect, PTL

\* The answer of getDiagnosticEvents, continued by index while events are reported, holds as
\* many events as its header counts, and no event between two it holds is missing.
THEOREM AnswerCorrect == Spec => []AnswerSound
<1>1. Inv => AnswerSound
  BY DEF Inv, Answers, AnswerSound, AnswerFilled, NoneSkipped
<1> QED
  BY <1>1, InvCorrect, PTL
-----------------------------------------------------------------------------
\* The log that is read in a journal.
LogOf(d) == [i \in 1..Count(d) |-> dia_get_event(d, i - 1)]

LEMMA LogRead ==
  ASSUME NEW d, Typed(d), Held(d)
  PROVE  /\ Count(d) = (IF d.added < Size THEN d.added ELSE Size) /\ Count(d) \in Nat
         /\ d.added \in Nat /\ Size \in Nat \ {0}
         /\ LogOf(d) \in Seq(Event) /\ Len(LogOf(d)) = Count(d)
         /\ \A i \in 1..Count(d) : LogOf(d)[i] = dia_get_event(d, i - 1)
         /\ Reader!Newest(LogOf(d)) = d.added
<1>1. /\ Count(d) = (IF d.added < Size THEN d.added ELSE Size)
      /\ d.added \in Nat /\ Size \in Nat \ {0}
  BY CountIs, DiagnosticConstants DEF Typed
<1>2. Count(d) \in Nat
  BY <1>1
<1>3. ASSUME NEW i \in 1..Count(d)
      PROVE  dia_get_event(d, i - 1) \in Event /\ dia_get_event(d, i - 1).n = d.added - (i - 1)
  <2>1. i - 1 \in Places /\ i - 1 < d.added
    BY <1>1 DEF Places
  <2> QED
    BY <2>1 DEF Held
<1>4. LogOf(d) \in [1..Count(d) -> Event]
  BY <1>3 DEF LogOf
<1>5. LogOf(d) \in Seq(Event) /\ Len(LogOf(d)) = Count(d)
  BY <1>2, <1>4
<1>6. \A i \in 1..Count(d) : LogOf(d)[i] = dia_get_event(d, i - 1)
  BY DEF LogOf
<1>7. Reader!Newest(LogOf(d)) = d.added
  <2>1. CASE d.added = 0
    <3>1. LogOf(d) = <<>>
      BY <1>1, <1>5, <2>1
    <3> QED
      BY <2>1, <3>1 DEF Reader!Newest
  <2>2. CASE d.added # 0
    <3>1. 1 \in 1..Count(d)
      BY <1>1, <2>2
    <3>2. LogOf(d)[1].n = d.added - (1 - 1)
      BY <1>3, <1>6, <3>1
    <3>3. LogOf(d) # <<>>
      BY <1>5, <3>1
    <3> QED
      BY <1>1, <3>2, <3>3 DEF Reader!Newest
  <2> QED
    BY <2>1, <2>2
<1> QED
  BY <1>1, <1>2, <1>5, <1>6, <1>7

LEMMA LogReported ==
  ASSUME NEW d, NEW e, Typed(d), Held(d), Typed(e), Held(e), NEW k \in Nat, Reports(d, e, k)
  PROVE  Reader!ReportedTo(LogOf(d), LogOf(e), k)
<1> DEFINE s == LogOf(d)
           t == LogOf(e)
<1>1. /\ Len(s) = (IF d.added < Size THEN d.added ELSE Size)
      /\ Len(t) = (IF e.added < Size THEN e.added ELSE Size)
      /\ \A i \in 1..Len(s) : s[i] = dia_get_event(d, i - 1)
      /\ \A i \in 1..Len(t) : t[i] = dia_get_event(e, i - 1)
      /\ Reader!Newest(s) = d.added
      /\ d.added \in Nat /\ Size \in Nat \ {0}
  BY LogRead
<1>2. e.added = d.added + k
  BY DEF Reports
<1> HIDE DEF s, t
<1>3. Len(t) = IF Len(s) + k > Size THEN Size ELSE Len(s) + k
  <2> DEFINE a == d.added
  <2>1. /\ Len(s) = (IF a < Size THEN a ELSE Size)
        /\ Len(t) = (IF a + k < Size THEN a + k ELSE Size)
        /\ a \in Nat /\ Size \in Nat
    BY <1>1, <1>2
  <2> HIDE DEF a
  <2>2. CASE a < Size
    BY <2>1, <2>2
  <2>3. CASE ~(a < Size)
    BY <2>1, <2>3
  <2> QED
    BY <2>2, <2>3
<1>4. ASSUME NEW i \in 1..Len(t), i <= k
      PROVE  t[i].n = Reader!Newest(s) + k + 1 - i /\ ~t[i].ack
  <2>1. i - 1 \in Places /\ i - 1 < k
    BY <1>1, <1>2, <1>4 DEF Places
  <2>2. dia_get_event(e, i - 1).n = e.added - (i - 1) /\ ~dia_get_event(e, i - 1).ack
    BY <2>1 DEF Reports
  <2>3. e.added - (i - 1) = Reader!Newest(s) + k + 1 - i
    BY <1>1, <1>2
  <2> QED
    BY <1>1, <2>2, <2>3
<1>5. ASSUME NEW i \in 1..Len(t), i > k
      PROVE  t[i] = s[i - k]
  <2>1. i - 1 \in Places /\ i - 1 >= k /\ i - k \in 1..Len(s)
    BY <1>1, <1>2, <1>5 DEF Places
  <2>2. dia_get_event(e, i - 1) = dia_get_event(d, (i - 1) - k)
    BY <2>1 DEF Reports
  <2>3. (i - 1) - k = (i - k) - 1
    OBVIOUS
  <2> QED
    BY <1>1, <2>1, <2>2, <2>3
<1> QED
  BY <1>3, <1>4, <1>5 DEF Reader!ReportedTo, s, t

LEMMA LogSame ==
  ASSUME NEW d, NEW e, Typed(d), Held(d), Typed(e), Held(e), Reports(d, e, 0)
  PROVE  LogOf(e) = LogOf(d)
<1>1. Count(e) = Count(d) /\ Count(d) <= Size /\ Count(d) \in Nat
  BY LogRead DEF Reports
<1>2. ASSUME NEW i \in 1..Count(d)
      PROVE  dia_get_event(e, i - 1) = dia_get_event(d, i - 1)
  <2>1. i - 1 \in Places /\ i - 1 >= 0 /\ (i - 1) - 0 = i - 1
    BY <1>1, DiagnosticConstants DEF Places
  <2> QED
    BY <2>1 DEF Reports
<1> QED
  BY <1>1, <1>2 DEF LogOf

LEMMA LogMarked ==
  ASSUME NEW d, Typed(d), Held(d)
  PROVE  LogOf(Marked(d)) = Reader!Acked(LogOf(d))
<1> DEFINE e == Marked(d)
<1>1. /\ Typed(e) /\ Held(e) /\ e.added = d.added
      /\ \A k \in Places : dia_get_event(e, k) =
           IF k < d.added THEN AckOf(dia_get_event(d, k)) ELSE Empty
  BY MarkedGet
<1> HIDE DEF e
<1>2. /\ Count(e) = Count(d) /\ Len(LogOf(d)) = Count(d)
      /\ Count(d) = (IF d.added < Size THEN d.added ELSE Size)
      /\ d.added \in Nat /\ Size \in Nat \ {0}
      /\ \A i \in 1..Count(d) : LogOf(d)[i] = dia_get_event(d, i - 1)
  BY <1>1, LogRead
<1>3. ASSUME NEW i \in 1..Count(d)
      PROVE  dia_get_event(e, i - 1) = [LogOf(d)[i] EXCEPT !.ack = TRUE]
  <2>1. i - 1 \in Places /\ i - 1 < d.added
    BY <1>2 DEF Places
  <2> QED
    BY <1>1, <1>2, <2>1 DEF AckOf
<1>4. LogOf(e) = Reader!Acked(LogOf(d))
  BY <1>2, <1>3 DEF LogOf, Reader!Acked
<1> QED
  BY <1>4 DEF e

LEMMA LogFresh == LogOf(Fresh) = <<>>
<1>1. LogOf(Fresh) \in Seq(Event) /\ Len(LogOf(Fresh)) = 0
  BY LogRead, FreshSound
<1> QED
  BY <1>1

LEMMA LogStarted ==
  ASSUME NEW e, Typed(e), Held(e), NEW k \in 3..6, Reports(Fresh, e, k)
  PROVE  Reader!Started(LogOf(e))
<1>1. Reader!ReportedTo(<<>>, LogOf(e), k)
  BY LogReported, LogFresh, FreshSound
<1> QED
  BY <1>1 DEF Reader!Started

LEMMA LogMoves ==
  ASSUME Inv, Inv', Moves(Diag, Diag'), Log = LogOf(Diag), Log' = LogOf(Diag')
  PROVE  [Reader!Next]_Log
<1>1. Typed(Diag) /\ Held(Diag)
  BY DEF Inv, Sound
<1>2. Typed(Diag') /\ Held(Diag')
  BY DEF Inv, Sound, Typed, Held, dia_get_event
<1>3. ASSUME NEW k \in 0..2 \cup {5}, Reports(Diag, Diag', k)
      PROVE  [Reader!Next]_Log
  <2>1. CASE k = 0
    BY <1>1, <1>2, <1>3, <2>1, LogSame
  <2>2. CASE k \in {1, 2, 5}
    <3>1. Reader!ReportedTo(Log, Log', k)
      BY <1>1, <1>2, <1>3, LogReported
    <3>2. Reader!Report(Log, Log')
      BY <2>2, <3>1 DEF Reader!Report
    <3> QED
      BY <3>2 DEF Reader!Next
  <2> QED
    BY <2>1, <2>2
<1>4. ASSUME NEW k \in 0..1, Reports(Marked(Diag), Diag', k)
      PROVE  [Reader!Next]_Log
  <2>1. Typed(Marked(Diag)) /\ Held(Marked(Diag)) /\ LogOf(Marked(Diag)) = Reader!Acked(Log)
    BY <1>1, MarkedGet, LogMarked
  <2>2. Reader!ReportedTo(Reader!Acked(Log), Log', k)
    BY <1>2, <1>4, <2>1, LogReported
  <2>3. Reader!Acknowledge(Log, Log')
    BY <2>2 DEF Reader!Acknowledge
  <2> QED
    BY <2>3 DEF Reader!Next
<1>5. ASSUME NEW k \in 3..6, Reports(Fresh, Diag', k)
      PROVE  [Reader!Next]_Log
  <2>1. Reader!Started(Log')
    BY <1>2, <1>5, LogStarted
  <2> QED
    BY <2>1 DEF Reader!Next
<1> QED
  BY <1>3, <1>4, <1>5 DEF Moves

\* Read by index, the circular buffer is the log of the last events: what dia_add_event,
\* dia_ack_events and a restart do to it is what they do to the log.
THEOREM LogCorrect == Spec => LogKept
<1>1. Log = LogOf(Diag)
  BY DEF Log, LogOf
<1>2. Log' = LogOf(Diag')
  BY DEF Log, LogOf, Count, dia_get_event
<1>3. Init => Reader!Init
  <2> SUFFICES ASSUME Init PROVE Reader!Init
    OBVIOUS
  <2>1. Inv /\ \E k \in 3..6 : Reports(Fresh, Diag, k)
    BY InvInit
  <2>2. Reader!Started(Log)
    BY <1>1, <2>1, LogStarted DEF Inv, Sound
  <2> QED
    BY <2>2 DEF Reader!Init
<1>4. Inv /\ Inv' /\ [Next]_vars => [Reader!Next]_Log
  BY <1>1, <1>2, InvNext, LogMoves
<1> QED
  BY <1>3, <1>4, InvCorrect, PTL DEF Spec, LogKept, Reader!Spec

-----------------------------------------------------------------------------
(***************************************************************************)
(* The pins.  The operators on the two words are read as what they do to   *)
(* the map: Mode and Drives are the map of the words g.                    *)
(***************************************************************************)
PinTypes == {"unprovisioned", "input", "output"}

Words == [provisioned : SUBSET D, type : SUBSET D, driven : SUBSET D, latch : [D -> Levels]]

Mode(g) == [p \in D |-> gpio_get_config(g, p)]
Drives(g) == [p \in D |-> IF p \in g.driven THEN g.latch[p] ELSE "no"]

Make(g, p, t) == IF t = "unprovisioned" THEN gpio_unconfig(g, p) ELSE gpio_config(g, p, t)

\* A pin is made what it is asked to be, and no other pin is.
LEMMA MakeIs ==
  ASSUME NEW g \in Words, NEW p \in D, NEW t \in PinTypes
  PROVE  /\ Make(g, p, t) \in Words
         /\ Mode(Make(g, p, t)) = [Mode(g) EXCEPT ![p] = t]
         /\ Drives(Make(g, p, t)) = IF t = "input" THEN [Drives(g) EXCEPT ![p] = "no"]
                                    ELSE Drives(g)
<1> DEFINE h == Make(g, p, t)
<1>1. /\ h \in Words /\ h.latch = g.latch
      /\ h.driven = IF t = "input" THEN g.driven \ {p} ELSE g.driven
      /\ h.type = IF t = "input" THEN g.type \ {p} ELSE IF t = "output" THEN g.type \cup {p} ELSE g.type
      /\ h.provisioned = IF t = "unprovisioned" THEN g.provisioned \ {p} ELSE g.provisioned \cup {p}
  <2>1. CASE t = "unprovisioned"
    BY <2>1 DEF Make, gpio_unconfig, Words
  <2>2. CASE t = "input"
    BY <2>2 DEF Make, gpio_config, Words
  <2>3. CASE t = "output"
    BY <2>3 DEF Make, gpio_config, Words
  <2> QED BY <2>1, <2>2, <2>3 DEF PinTypes
<1> HIDE DEF h
<1>2. \A q \in D : gpio_get_config(h, q) = IF q = p THEN t ELSE gpio_get_config(g, q)
  BY <1>1 DEF gpio_get_config, PinTypes
<1>3. \A q \in D : (IF q \in h.driven THEN h.latch[q] ELSE "no")
                   = IF q = p /\ t = "input" THEN "no"
                     ELSE IF q \in g.driven THEN g.latch[q] ELSE "no"
  BY <1>1
<1>4. Mode(h) = [Mode(g) EXCEPT ![p] = t]
  BY <1>2 DEF Mode
<1>5. Drives(h) = IF t = "input" THEN [Drives(g) EXCEPT ![p] = "no"] ELSE Drives(g)
  BY <1>3 DEF Drives
<1> USE DEF h
<1> QED BY <1>1, <1>4, <1>5

\* Only an output is set, and it alone.
LEMMA SetIs ==
  ASSUME NEW g \in Words, NEW p \in D, NEW l \in Levels
  PROVE  /\ gpio_set_pin(g, p, l) \in Words
         /\ Mode(gpio_set_pin(g, p, l)) = Mode(g)
         /\ SetFails(g, p) => gpio_set_pin(g, p, l) = g
         /\ ~SetFails(g, p) => /\ Mode(g)[p] = "output"
                               /\ Drives(gpio_set_pin(g, p, l)) = [Drives(g) EXCEPT ![p] = l]
<1> DEFINE h == gpio_set_pin(g, p, l)
<1>1. SetFails(g, p) => h = g
  BY DEF gpio_set_pin
<1>2. ASSUME ~SetFails(g, p)
      PROVE  /\ h \in Words /\ Mode(h) = Mode(g) /\ Mode(g)[p] = "output"
             /\ Drives(h) = [Drives(g) EXCEPT ![p] = l]
  <2>1. h = [g EXCEPT !.driven = @ \cup {p}, !.latch[p] = l]
    BY <1>2 DEF gpio_set_pin
  <2>2. /\ h \in Words /\ h.provisioned = g.provisioned /\ h.type = g.type
        /\ h.driven = g.driven \cup {p} /\ h.latch = [g.latch EXCEPT ![p] = l]
        /\ g.latch \in [D -> Levels]
    <3>1. g.latch \in [D -> Levels] /\ g.driven \cup {p} \in SUBSET D
      BY DEF Words
    <3>2. [g.latch EXCEPT ![p] = l] \in [D -> Levels]
      BY <3>1
    <3>3. h = [g EXCEPT !.driven = g.driven \cup {p}, !.latch = [g.latch EXCEPT ![p] = l]]
      BY <2>1 DEF Words
    <3> QED BY <3>1, <3>2, <3>3 DEF Words
  <2> HIDE DEF h
  <2>3. \A q \in D : gpio_get_config(h, q) = gpio_get_config(g, q)
    BY <2>2 DEF gpio_get_config
  <2>4. gpio_get_config(g, p) = "output"
    BY <1>2 DEF SetFails, gpio_get_config
  <2>5. \A q \in D : (IF q \in h.driven THEN h.latch[q] ELSE "no")
                     = IF q = p THEN l ELSE IF q \in g.driven THEN g.latch[q] ELSE "no"
    BY <2>2
  <2> QED BY <2>2, <2>3, <2>4, <2>5 DEF Mode, Drives
<1> QED BY <1>1, <1>2

\* What is read of a pin is what an answer may tell of it.
LEMMA ReadIs ==
  ASSUME NEW g \in Words, NEW p \in D, NEW b \in gpio_read(g, p)
  PROVE  \/ Mode(g)[p] = "unprovisioned" /\ b = "unprovisioned"
         \/ Mode(g)[p] # "unprovisioned" /\ Drives(g)[p] # "no" /\ b = Drives(g)[p]
         \/ Mode(g)[p] # "unprovisioned" /\ Drives(g)[p] = "no" /\ b \in Levels
<1>1. g.latch[p] \in Levels
  BY DEF Words
<1> QED BY <1>1 DEF gpio_read, Mode, Drives, gpio_get_config, Levels

\* A pin that was made an output is driven when it is set.
LEMMA Driven ==
  ASSUME NEW g \in Words, NEW p \in D, Mode(g)[p] = "output"
  PROVE  ~SetFails(g, p)
BY DEF Mode, gpio_get_config, SetFails

-----------------------------------------------------------------------------
WordsInv == Pins0 \in Words

\* The map under the refinement is the map of the words.
LEMMA Mapped ==
  ASSUME NEW g, Are(g), g \in Words
  PROVE  Pins0' = g
BY DEF Are, Pins0, Words

LEMMA MakeStep ==
  ASSUME WordsInv, NEW p \in D, NEW t \in PinTypes, Are(Make(Pins0, p, t))
  PROVE  WordsInv' /\ Promised!Become(p, t)
<1>1. /\ Make(Pins0, p, t) \in Words
      /\ Mode(Make(Pins0, p, t)) = [Mode(Pins0) EXCEPT ![p] = t]
      /\ Drives(Make(Pins0, p, t)) = IF t = "input" THEN [Drives(Pins0) EXCEPT ![p] = "no"]
                                    ELSE Drives(Pins0)
  BY MakeIs DEF WordsInv
<1>2. Pins0' = Make(Pins0, p, t)
  BY <1>1, Mapped
<1> DEFINE q == Drives(Pins0)[p]
<1>3. [Drives(Pins0) EXCEPT ![p] = q] = Drives(Pins0)
  BY DEF Drives
<1>4. Mode(Pins0)' = Mode(Make(Pins0, p, t)) /\ Drives(Pins0)' = Drives(Make(Pins0, p, t))
  BY <1>2 DEF Mode, Drives, gpio_get_config, Pins0
<1> QED BY <1>1, <1>2, <1>3, <1>4 DEF Promised!Become, Mode, Drives, PinTypes, WordsInv, Pins0

LEMMA SetStep ==
  ASSUME WordsInv, NEW p \in D, NEW l \in Levels, Are(gpio_set_pin(Pins0, p, l))
  PROVE  /\ WordsInv'
         /\ IF SetFails(Pins0, p) THEN Pins0' = Pins0 ELSE Promised!Drive(p, l)
<1>1. Pins0' = gpio_set_pin(Pins0, p, l) /\ WordsInv'
  BY SetIs, Mapped DEF WordsInv
<1>2. SetFails(Pins0, p) => Pins0' = Pins0
  BY <1>1, SetIs DEF WordsInv
<1>3. ASSUME ~SetFails(Pins0, p)
      PROVE  Promised!Drive(p, l)
  <2>1. /\ Mode(gpio_set_pin(Pins0, p, l)) = Mode(Pins0) /\ Mode(Pins0)[p] = "output"
        /\ Drives(gpio_set_pin(Pins0, p, l)) = [Drives(Pins0) EXCEPT ![p] = l]
    BY <1>3, SetIs DEF WordsInv
  <2>2. Mode(Pins0)' = Mode(Pins0) /\ Drives(Pins0)' = [Drives(Pins0) EXCEPT ![p] = l]
    BY <1>1, <2>1 DEF Mode, Drives, gpio_get_config
  <2> QED BY <2>1, <2>2 DEF Promised!Drive, Mode, Drives, Pins0
<1> QED BY <1>1, <1>2, <1>3

\* Nothing of the map has changed.
LEMMA SameStep ==
  ASSUME WordsInv, Are(Pins0)
  PROVE  WordsInv' /\ UNCHANGED <<Mode(Pins0), Drives(Pins0)>>
<1>1. Pins0' = Pins0
  BY Mapped DEF WordsInv
<1> QED BY <1>1 DEF WordsInv, Mode, Drives, gpio_get_config

\* An answer tells what the pin was left as.
LEMMA TellConfig ==
  ASSUME WordsInv', NEW p \in D, Replies(p, {gpio_get_config(Pins0', p)})
  PROVE  Promised!Tell(p) \/ Promised!Refuse
<1>1. reply' = <<"200", p, Mode(Pins0')[p]>> => Promised!Tell(p)
  BY DEF Promised!Tell, Mode, Pins0
<1>2. reply' = <<"500">> \/ reply' = <<"200", p, Mode(Pins0')[p]>>
  BY DEF Replies, Ok, Mode
<1> QED BY <1>1, <1>2 DEF Promised!Refuse

LEMMA TellLevel ==
  ASSUME WordsInv', NEW p \in D, Replies(p, gpio_read(Pins0', p))
  PROVE  Promised!Tell(p) \/ Promised!Refuse
<1>1. Promised!Tell(p) <=>
        \/ reply' = <<"200", p, Mode(Pins0')[p]>>
        \/ /\ Drives(Pins0')[p] # "no" /\ Mode(Pins0')[p] # "unprovisioned"
           /\ reply' = <<"200", p, Drives(Pins0')[p]>>
        \/ /\ Drives(Pins0')[p] = "no" /\ Mode(Pins0')[p] # "unprovisioned"
           /\ \E l \in {"low", "high"} : reply' = <<"200", p, l>>
  BY DEF Promised!Tell, Mode, Drives, Pins0
<1>2. CASE reply' = <<"500">>
  BY <1>2 DEF Promised!Refuse
<1>3. CASE \E b \in gpio_read(Pins0', p) : reply' = <<"200", p, b>>
  <2>1. PICK b \in gpio_read(Pins0', p) : reply' = <<"200", p, b>>
    BY <1>3
  <2>2. Pins0' \in Words
    BY DEF WordsInv
  <2>3. \/ Mode(Pins0')[p] = "unprovisioned" /\ b = "unprovisioned"
        \/ Mode(Pins0')[p] # "unprovisioned" /\ Drives(Pins0')[p] # "no" /\ b = Drives(Pins0')[p]
        \/ Mode(Pins0')[p] # "unprovisioned" /\ Drives(Pins0')[p] = "no" /\ b \in Levels
    BY <2>1, <2>2, ReadIs
  <2> QED BY <1>1, <2>1, <2>3 DEF Levels
<1> QED BY <1>2, <1>3 DEF Replies, Ok

LEMMA Refused ==
  ASSUME WordsInv, Are(Pins0), reply' \in {<<"400">>, <<"500">>}
  PROVE  WordsInv' /\ Promised!Next
<1>1. WordsInv' /\ UNCHANGED <<Mode(Pins0), Drives(Pins0)>>
  BY SameStep
<1> QED BY <1>1 DEF Promised!Next, Promised!Refuse, Mode, Drives, Pins0

LEMMA RequestStep ==
  ASSUME WordsInv, NEW p \in D \cup {NotAPin}, Request(p)
  PROVE  WordsInv' /\ Promised!Next
<1>1. CASE reply' = <<"400">> /\ Are(Pins0)
  BY <1>1, Refused
<1>2. CASE getGpioCfg(p) /\ ~(reply' = <<"400">> /\ Are(Pins0))
  <2>1. p \in D /\ Are(Pins0) /\ Replies(p, {gpio_get_config(Pins0, p)})
    BY <1>2 DEF getGpioCfg, WrongId
  <2>2. WordsInv' /\ UNCHANGED <<Mode(Pins0), Drives(Pins0)>> /\ Pins0' = Pins0
    BY <2>1, SameStep, Mapped DEF WordsInv
  <2>3. Promised!Tell(p) \/ Promised!Refuse
    BY <2>1, <2>2, TellConfig
  <2> QED BY <2>1, <2>2, <2>3 DEF Promised!Next, Mode, Drives, Pins0
<1>3. CASE getGpioLevel(p) /\ ~(reply' = <<"400">> /\ Are(Pins0))
  <2>1. p \in D /\ Are(Pins0) /\ Replies(p, gpio_read(Pins0, p))
    BY <1>3 DEF getGpioLevel, WrongId
  <2>2. WordsInv' /\ UNCHANGED <<Mode(Pins0), Drives(Pins0)>> /\ Pins0' = Pins0
    BY <2>1, SameStep, Mapped DEF WordsInv
  <2>3. Promised!Tell(p) \/ Promised!Refuse
    BY <2>1, <2>2, TellLevel
  <2> QED BY <2>1, <2>2, <2>3 DEF Promised!Next, Mode, Drives, Pins0
<1>4. CASE setPinCfg(p) /\ ~(reply' = <<"400">> /\ Are(Pins0))
  <2>1. p \in D /\ \E t \in PinTypes : /\ Are(Make(Pins0, p, t))
                                     /\ Replies(p, {gpio_get_config(Make(Pins0, p, t), p)})
    BY <1>4 DEF setPinCfg, WrongId, PinTypes, Make
  <2>2. PICK t \in PinTypes : /\ Are(Make(Pins0, p, t))
                              /\ Replies(p, {gpio_get_config(Make(Pins0, p, t), p)})
    BY <2>1
  <2>3. WordsInv' /\ Promised!Become(p, t)
    BY <2>1, <2>2, MakeStep
  <2>4. Pins0' = Make(Pins0, p, t)
    BY <2>1, <2>2, MakeIs, Mapped DEF WordsInv
  <2>5. Promised!Tell(p) \/ Promised!Refuse
    BY <2>1, <2>2, <2>3, <2>4, TellConfig
  <2> QED BY <2>1, <2>3, <2>5 DEF Promised!Next, PinTypes
<1>5. CASE setPinLevel(p) /\ ~(reply' = <<"400">> /\ Are(Pins0))
  <2>1. p \in D /\ \E l \in Levels :
          /\ Are(gpio_set_pin(Pins0, p, l))
          /\ IF SetFails(Pins0, p) THEN reply' = <<"400">>
             ELSE Replies(p, gpio_read(gpio_set_pin(Pins0, p, l), p))
    BY <1>5 DEF setPinLevel, WrongId
  <2>2. PICK l \in Levels :
          /\ Are(gpio_set_pin(Pins0, p, l))
          /\ IF SetFails(Pins0, p) THEN reply' = <<"400">>
             ELSE Replies(p, gpio_read(gpio_set_pin(Pins0, p, l), p))
    BY <2>1
  <2>3. WordsInv' /\ Pins0' = gpio_set_pin(Pins0, p, l)
    BY <2>1, <2>2, SetIs, Mapped DEF WordsInv
  <2>4. CASE SetFails(Pins0, p)
    <3>1. Are(Pins0)
      BY <2>1, <2>2, <2>4, SetIs DEF WordsInv
    <3> QED BY <2>2, <2>4, <3>1, Refused
  <2>5. CASE ~SetFails(Pins0, p)
    <3>1. Promised!Drive(p, l)
      BY <2>1, <2>2, <2>5, SetStep
    <3>2. Promised!Tell(p) \/ Promised!Refuse
      BY <2>1, <2>2, <2>3, <2>5, TellLevel
    <3> QED BY <2>1, <2>3, <3>1, <3>2 DEF Promised!Next, Levels
  <2> QED BY <2>4, <2>5
<1> QED BY <1>1, <1>2, <1>3, <1>4, <1>5 DEF Request

\* The journal makes its pin an output and drives it at once.
LEMMA LedStep ==
  ASSUME WordsInv, LedOn \/ LedOff \/ \E mask, shown \in BOOLEAN : LedMask(mask, shown)
  PROVE  WordsInv' /\ [Promised!Next]_<<Mode(Pins0), Drives(Pins0), reply>>
<1>0. DIA_LED \in D /\ UNCHANGED reply
  BY GpioConstants DEF LedOn, LedOff, LedMask
<1>1. CASE LedOn \/ LedOff
  <2>1. PICK l \in Levels : Are(gpio_set_pin(Pins0, DIA_LED, l))
    BY <1>1 DEF LedOn, LedOff, Levels
  <2>2. /\ WordsInv'
        /\ IF SetFails(Pins0, DIA_LED) THEN Pins0' = Pins0 ELSE Promised!Drive(DIA_LED, l)
    BY <1>0, <2>1, SetStep
  <2> QED BY <1>0, <2>2 DEF Promised!Next, Levels, Mode, Drives, gpio_get_config
<1>2. CASE Are(gpio_unconfig(Pins0, DIA_LED))
  <2>1. Are(Make(Pins0, DIA_LED, "unprovisioned")) /\ "unprovisioned" \in PinTypes
    BY <1>2 DEF Make, PinTypes
  <2>2. WordsInv' /\ Promised!Become(DIA_LED, "unprovisioned")
    BY <1>0, <2>1, MakeStep
  <2> QED BY <1>0, <2>2 DEF Promised!Next
<1>3. ASSUME NEW l \in Levels,
             LET out == Make(Pins0, DIA_LED, "output")
                 on == gpio_set_pin(out, DIA_LED, "high")
             IN  Are(IF l = "low" THEN gpio_set_pin(on, DIA_LED, "low") ELSE on)
      PROVE  WordsInv' /\ Promised!Next
  <2> DEFINE out == Make(Pins0, DIA_LED, "output")
             on == gpio_set_pin(out, DIA_LED, "high")
             h == IF l = "low" THEN gpio_set_pin(on, DIA_LED, "low") ELSE on
  <2>1. /\ out \in Words /\ Mode(out) = [Mode(Pins0) EXCEPT ![DIA_LED] = "output"]
        /\ Drives(out) = Drives(Pins0)
    BY <1>0, MakeIs DEF WordsInv, PinTypes
  <2>2. Mode(out)[DIA_LED] = "output"
    BY <1>0, <2>1 DEF Mode
  <2> HIDE DEF out
  <2>3. /\ on \in Words /\ Mode(on) = Mode(out)
        /\ Drives(on) = [Drives(out) EXCEPT ![DIA_LED] = "high"]
    BY <1>0, <2>1, <2>2, SetIs, Driven DEF Levels
  <2> HIDE DEF on
  <2>4. /\ gpio_set_pin(on, DIA_LED, "low") \in Words
        /\ Mode(gpio_set_pin(on, DIA_LED, "low")) = Mode(out)
        /\ Drives(gpio_set_pin(on, DIA_LED, "low")) = [Drives(on) EXCEPT ![DIA_LED] = "low"]
    <3>1. Mode(on)[DIA_LED] = "output" /\ "low" \in Levels
      BY <2>2, <2>3 DEF Levels
    <3>2. ~SetFails(on, DIA_LED)
      BY <1>0, <2>3, <3>1, Driven
    <3> DEFINE low == gpio_set_pin(on, DIA_LED, "low")
    <3>3. low \in Words /\ Mode(low) = Mode(on) /\ Drives(low) = [Drives(on) EXCEPT ![DIA_LED] = "low"]
      <4>1. on \in Words /\ DIA_LED \in D /\ "low" \in Levels
        BY <1>0, <2>3, <3>1
      <4> QED BY <4>1, <3>2, SetIs
    <3> HIDE DEF low
    <3>4. Mode(low) = Mode(out)
      BY <2>3, <3>3
    <3> QED BY <3>3, <3>4 DEF low
  <2>5. /\ h \in Words /\ Mode(h) = [Mode(Pins0) EXCEPT ![DIA_LED] = "output"]
        /\ Drives(h) = [Drives(Pins0) EXCEPT ![DIA_LED] = l]
    <3>1. [Drives(on) EXCEPT ![DIA_LED] = "low"] = [Drives(Pins0) EXCEPT ![DIA_LED] = "low"]
      BY <1>0, <2>1, <2>3 DEF Drives
    <3>2. CASE l = "low"
      BY <2>1, <2>4, <3>1, <3>2
    <3>3. CASE l = "high"
      BY <2>1, <2>3, <3>3
    <3> QED BY <3>2, <3>3 DEF Levels
  <2> HIDE DEF h
  <2>6. Pins0' = h
    BY <1>3, <2>5, Mapped DEF h, on, out
  <2>7. WordsInv' /\ Promised!Become(DIA_LED, "output")
    <3>1. Mode(Pins0)' = Mode(h) /\ Drives(Pins0)' = Drives(h) /\ WordsInv'
      BY <2>5, <2>6 DEF Mode, Drives, gpio_get_config, WordsInv
    <3>2. /\ Mode(Pins0)' = [Mode(Pins0) EXCEPT ![DIA_LED] = "output"]
          /\ l \in {"low", "high"} /\ Drives(Pins0)' = [Drives(Pins0) EXCEPT ![DIA_LED] = l]
      BY <2>5, <3>1 DEF Levels
    <3>3. Promised!Become(DIA_LED, "output") <=>
            /\ Mode(Pins0)' = [Mode(Pins0) EXCEPT ![DIA_LED] = "output"]
            /\ \E v \in {Drives(Pins0)[DIA_LED], "low", "high"} :
                 Drives(Pins0)' = [Drives(Pins0) EXCEPT ![DIA_LED] = v]
      BY DEF Promised!Become, Mode, Drives, Pins0
    <3> HIDE DEF Mode, Drives
    <3> QED BY <3>1, <3>2, <3>3
  <2> QED BY <1>0, <2>7 DEF Promised!Next
<1>4. ASSUME NEW mask \in BOOLEAN, NEW shown \in BOOLEAN, LedMask(mask, shown)
      PROVE  \/ Are(gpio_unconfig(Pins0, DIA_LED))
             \/ \E l \in Levels :
                  LET out == Make(Pins0, DIA_LED, "output")
                      on == gpio_set_pin(out, DIA_LED, "high")
                  IN  Are(IF l = "low" THEN gpio_set_pin(on, DIA_LED, "low") ELSE on)
  BY <1>4 DEF LedMask, Make, Levels
<1> QED BY <1>1, <1>2, <1>3, <1>4

\* The two words are a map of pins that do not disturb one another.
THEOREM PinsCorrect == GpioSpec => PinsApart
<1>1. GpioInit => WordsInv /\ Promised!Init
  BY DEF GpioInit, WordsInv, Words, Levels, Promised!Init, Pins0, gpio_get_config
<1>2. WordsInv /\ [GpioNext]_gpioVars => WordsInv' /\ [Promised!Next]_<<Mode(Pins0), Drives(Pins0), reply>>
  <2> SUFFICES ASSUME WordsInv, [GpioNext]_gpioVars
               PROVE  WordsInv' /\ [Promised!Next]_<<Mode(Pins0), Drives(Pins0), reply>>
    OBVIOUS
  <2>1. CASE UNCHANGED gpioVars
    BY <2>1 DEF gpioVars, WordsInv, Pins0, Mode, Drives, gpio_get_config
  <2>2. ASSUME NEW p \in D \cup {NotAPin}, Request(p)
        PROVE  WordsInv' /\ Promised!Next
    BY <2>2, RequestStep
  <2>3. CASE LedOn \/ LedOff \/ \E mask, shown \in BOOLEAN : LedMask(mask, shown)
    BY <2>3, LedStep
  <2> QED BY <2>1, <2>2, <2>3 DEF GpioNext
<1>3. WordsInv /\ [GpioNext]_gpioVars => WordsInv' /\ [Promised!Next]_(Promised!pinVars)
  BY <1>2 DEF Promised!pinVars, Mode, Drives, Pins0
<1> QED BY <1>1, <1>3, PTL DEF GpioSpec, PinsApart, Promised!Spec
=================================================================================
