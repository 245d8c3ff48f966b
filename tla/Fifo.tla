--------------------------------- MODULE Fifo ---------------------------------
(***************************************************************************)
(* What a Queue of espbot_queue.hpp promises: its elements leave in the    *)
(* order they came in, none is lost or made up, and never more than        *)
(* Capacity wait.  answer is what the last call returned.                  *)
(***************************************************************************)
EXTENDS Naturals, Sequences

CONSTANTS Elems, Capacity

VARIABLES
  items,    \* the elements that wait, oldest first
  room,     \* Capacity, or 0 when the queue has no memory
  walked,   \* the element that next() goes on from: its place, or 0
  answer

fifoVars == <<items, room, walked, answer>>

\* A pointer that is no element's: NULL, or what an unwritten place holds.
Nothing == {"NULL", "wild"}

Init == items = <<>> /\ room \in {0, Capacity} /\ walked = 0 /\ answer = <<"new">>

Push(x) ==
  \/ /\ Len(items) < room
     /\ items' = Append(items, x) /\ answer' = <<"push", "ok">>
     /\ UNCHANGED <<room, walked>>
  \/ /\ Len(items) = room
     /\ answer' = <<"push", "full">> /\ UNCHANGED <<items, room, walked>>

\* The place the walk has reached may be the one that leaves.
Pop ==
  \/ /\ items # <<>>
     /\ items' = Tail(items) /\ answer' = <<"pop", "ok">>
     /\ walked' = 0 /\ UNCHANGED room
  \/ /\ items = <<>>
     /\ answer' = <<"pop", "empty">> /\ UNCHANGED <<items, room, walked>>

Front ==
  \/ /\ items # <<>>
     /\ answer' = <<"front", Head(items)>> /\ walked' = 1 /\ UNCHANGED <<items, room>>
  \/ /\ items = <<>>
     /\ answer' = <<"front", "NULL">> /\ UNCHANGED <<items, room, walked>>

\* Once past the last element, nothing is promised but that no element is returned.
Following ==
  /\ walked > 0
  /\ UNCHANGED <<items, room>>
  /\ \/ /\ walked < Len(items)
        /\ walked' = walked + 1 /\ answer' = <<"next", items[walked + 1]>>
     \/ /\ walked >= Len(items)
        /\ walked' = 0 /\ \E p \in Nothing : answer' = <<"next", p>>

Counted ==
  /\ \/ answer' = <<"size", Len(items)>>
     \/ answer' = <<"empty", items = <<>> >>
     \/ answer' = <<"full", Len(items) = Capacity>>
  /\ UNCHANGED <<items, room, walked>>

Rebuilt == items' = <<>> /\ room' \in {0, Capacity} /\ walked' = 0 /\ answer' = <<"new">>

Next == Pop \/ Front \/ Following \/ Counted \/ Rebuilt \/ \E x \in Elems : Push(x)

Spec == Init /\ [][Next]_fifoVars
===============================================================================
