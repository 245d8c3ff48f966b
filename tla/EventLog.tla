------------------------------- MODULE EventLog -------------------------------
(***************************************************************************)
(* What the event journal promises to those who read it: the last Size     *)
(* events, the newest first, numbered since the restart.  Reporting puts   *)
(* events in front, the oldest go when there is no room; acknowledging     *)
(* marks all there are, and may report one more.                           *)
(***************************************************************************)
EXTENDS Integers, Sequences

CONSTANT Size

VARIABLE log     \* sequence of events: their number n, their type, and ack

Newest(s) == IF s = <<>> THEN 0 ELSE s[1].n
Acked(s) == [i \in 1..Len(s) |-> [s[i] EXCEPT !.ack = TRUE]]

\* s becomes t by reporting k events.
ReportedTo(s, t, k) ==
  /\ Len(t) = IF Len(s) + k > Size THEN Size ELSE Len(s) + k
  /\ \A i \in 1..Len(t) : i <= k => t[i].n = Newest(s) + k + 1 - i /\ ~t[i].ack
  /\ \A i \in 1..Len(t) : i > k => t[i] = s[i - k]

\* A start reports three to six events before the journal is of use: what became of the
\* file system, and of the configuration in it.
Started(t) == \E k \in 3..6 : ReportedTo(<<>>, t, k)

\* An event, with the one of the LED's pin, or five of a save without a file system.
Report(s, t) == \E k \in {1, 2, 5} : ReportedTo(s, t, k)
Acknowledge(s, t) == \E k \in 0..1 : ReportedTo(Acked(s), t, k)

Init == Started(log)
Next == \E s \in {log}, t \in {log'} : Report(s, t) \/ Acknowledge(s, t) \/ Started(t)
Spec == Init /\ [][Next]_log
===============================================================================
