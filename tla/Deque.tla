--------------------------------- MODULE Deque ---------------------------------
(***************************************************************************)
(* What a List of espbot_list.hpp promises: a sequence that is added to    *)
(* and taken from at both ends, with one cursor to walk it in either       *)
(* direction and to take an element out of the middle.  answer is the last *)
(* call, what it returned, and the elements it deleted.                    *)
(***************************************************************************)
EXTENDS Naturals, Sequences

CONSTANTS Elems, Capacity, Deletes

VARIABLES
  items,    \* the elements, first to last
  at,       \* the cursor: the place of an element, or 0
  answer

dequeVars == <<items, at, answer>>

Gone(S) == IF Deletes THEN S ELSE {}
Only(s, i) == SubSeq(s, 1, i - 1) \o SubSeq(s, i + 1, Len(s))

Init == items = <<>> /\ at = 0 /\ answer = <<"new", "ok", {}>>

\* The heap may be exhausted, for any addition.
NoHeap(call) == answer' = <<call, "alloc_fail", {}>> /\ UNCHANGED <<items, at>>
Refused(call) == Len(items) = Capacity /\ answer' = <<call, "full", {}>> /\ UNCHANGED <<items, at>>

PushFront(x, override) ==
  \/ NoHeap("push_front")
  \/ ~override /\ Refused("push_front")
  \/ /\ Len(items) < Capacity
     /\ items' = <<x>> \o items /\ answer' = <<"push_front", "ok", {}>>
     /\ at' = IF at = 0 THEN 0 ELSE at + 1
  \/ /\ override /\ Len(items) = Capacity
     /\ items' = <<x>> \o Only(items, Capacity)
     /\ answer' = <<"push_front", "ok", Gone({items[Capacity]})>>
     /\ at' = IF at \in {0, Capacity} THEN 0 ELSE at + 1

PushBack(x, override) ==
  \/ NoHeap("push_back")
  \/ ~override /\ Refused("push_back")
  \/ /\ Len(items) < Capacity
     /\ items' = Append(items, x) /\ answer' = <<"push_back", "ok", {}>>
     /\ UNCHANGED at
  \/ /\ override /\ Len(items) = Capacity
     /\ items' = Append(Tail(items), x)
     /\ answer' = <<"push_back", "ok", Gone({Head(items)})>>
     /\ at' = IF at <= 1 THEN 0 ELSE at - 1

\* The element in place i leaves, and with it the cursor if it is there.
Leaves(i, call) ==
  /\ items' = Only(items, i)
  /\ answer' = <<call, "ok", Gone({items[i]})>>
  /\ at' = IF at = i THEN 0 ELSE IF at > i THEN at - 1 ELSE at

Pop ==
  \/ items # <<>> /\ Leaves(1, "pop_front")
  \/ items # <<>> /\ Leaves(Len(items), "pop_back")
  \/ /\ items = <<>> /\ \E call \in {"pop_front", "pop_back"} : answer' = <<call, "empty", {}>>
     /\ UNCHANGED <<items, at>>

Remove == at # 0 /\ Leaves(at, "remove")

\* The cursor is moved to place i, or stays where it is when there is no element.
Moved(call, i) ==
  /\ UNCHANGED items
  /\ IF i \in DOMAIN items THEN at' = i /\ answer' = <<call, items[i], {}>>
     ELSE at' = at /\ answer' = <<call, "NULL", {}>>

Walk ==
  \/ Moved("front", 1) \/ Moved("back", Len(items))
  \/ at # 0 /\ (Moved("next", at + 1) \/ Moved("prev", at - 1))

Counted ==
  /\ \/ answer' = <<"size", Len(items), {}>>
     \/ answer' = <<"empty", items = <<>>, {}>>
     \/ answer' = <<"full", Len(items) = Capacity, {}>>
  /\ UNCHANGED <<items, at>>

\* The list is destroyed and another one made.
Destroyed ==
  /\ items' = <<>> /\ at' = 0
  /\ answer' = <<"new", "ok", Gone({items[i] : i \in DOMAIN items})>>

Next ==
  \/ Pop \/ Remove \/ Walk \/ Counted \/ Destroyed
  \/ \E x \in Elems, override \in BOOLEAN : PushFront(x, override) \/ PushBack(x, override)

Spec == Init /\ [][Next]_dequeVars
===============================================================================
