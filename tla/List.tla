--------------------------------- MODULE List ---------------------------------
(***************************************************************************)
(* The template of espbot_list.hpp: the doubly linked list that the jobs,  *)
(* the pending messages and the client's associations are kept in.  One    *)
(* action is one call of a member function.  object is the List itself,     *)
(* cell the heap its nodes come from: nodes are alike, and it gives some   *)
(* free one.                                                               *)
(*                                                                         *)
(* remove and the pops leave m_cursor where it was, on a deleted node.     *)
(* Callers rewind with front() or back() before they use it again.         *)
(***************************************************************************)
EXTENDS Integers, Sequences, FiniteSets

CONSTANTS
  ListElems,    \* what is put in it: pointers, never NULL
  ListSize,     \* max_size
  Nodes,        \* bound: nodes the heap has room for
  Deletes       \* built with delete_content

ASSUME ListConstants ==
  /\ ListSize \in Nat \ {0} /\ Deletes \in BOOLEAN
  /\ 0 \notin Nodes /\ IsFiniteSet(Nodes)

VARIABLES
  object,       \* m_size, m_front, m_back and m_cursor; 0 is NULL
  cell,         \* the nodes: content, next and prev
  rewound,      \* history: m_cursor is on a node of the list
  answer        \* the last call, what it returned and which elements it deleted

listVars == <<object, cell, rewound, answer>>

Freed == [used |-> FALSE, content |-> "wild", next |-> 0, prev |-> 0]
Here == [m |-> object, cell |-> cell, gone |-> {}, ok |-> "ok"]

ListInit ==
  /\ object = [size |-> 0, front |-> 0, back |-> 0, cursor |-> 0]
  /\ cell = [p \in Nodes |-> Freed]
  /\ rewound = FALSE /\ answer = <<"new", "ok", {}>>

Contents(S) == IF Deletes THEN {cell[p].content : p \in S} ELSE {}

-----------------------------------------------------------------------------
\* m_front is unlinked and deleted; m_back once nothing is left.
pop_front_Back(d) ==     \* mutant: m_back stays on the deleted node
  LET p == d.m.front
      q == d.cell[p].next
      linked == IF q = 0 THEN d.cell ELSE [d.cell EXCEPT ![q].prev = 0]
  IN  IF p = 0 THEN [d EXCEPT !.ok = "empty"]
      ELSE [d EXCEPT !.m.size = @ - 1, !.m.front = q,
                     !.cell = [linked EXCEPT ![p] = Freed], !.gone = Contents({p})]

pop_front(d) ==
  LET p == d.m.front
      q == d.cell[p].next
      linked == IF q = 0 THEN d.cell ELSE [d.cell EXCEPT ![q].prev = 0]
  IN  IF p = 0 THEN [d EXCEPT !.ok = "empty"]
      ELSE [d EXCEPT !.m.size = @ - 1, !.m.front = q,
                     !.m.back = IF d.m.size = 1 THEN 0 ELSE @,
                     !.cell = [linked EXCEPT ![p] = Freed], !.gone = Contents({p})]

pop_back(d) ==
  LET p == d.m.back
      q == d.cell[p].prev
      linked == IF q = 0 THEN d.cell ELSE [d.cell EXCEPT ![q].next = 0]
  IN  IF p = 0 THEN [d EXCEPT !.ok = "empty"]
      ELSE [d EXCEPT !.m.size = @ - 1, !.m.back = q,
                     !.m.front = IF d.m.size = 1 THEN 0 ELSE @,
                     !.cell = [linked EXCEPT ![p] = Freed], !.gone = Contents({p})]

\* The node comes first: when the list is full and stays as it is, it is never freed.
Full(d) == d.m.size = ListSize
Leaked(d, p) == [d EXCEPT !.ok = "full", !.cell[p].used = TRUE]

push_front(p, x, override) ==
  LET d == IF Full(Here) THEN pop_back(Here) ELSE Here
      old == d.m.front
      new == [used |-> TRUE, content |-> x, next |-> old, prev |-> 0]
      linked == IF old = 0 THEN d.cell ELSE [d.cell EXCEPT ![old].prev = p]
  IN  IF Full(Here) /\ ~override THEN Leaked(Here, p)
      ELSE [d EXCEPT !.m.size = @ + 1, !.m.front = p, !.m.back = IF @ = 0 THEN p ELSE @,
                     !.cell = [linked EXCEPT ![p] = new]]

push_back(p, x, override) ==
  LET d == IF Full(Here) THEN pop_front(Here) ELSE Here
      old == d.m.back
      new == [used |-> TRUE, content |-> x, next |-> 0, prev |-> old]
      linked == IF old = 0 THEN d.cell ELSE [d.cell EXCEPT ![old].next = p]
  IN  IF Full(Here) /\ ~override THEN Leaked(Here, p)
      ELSE [d EXCEPT !.m.size = @ + 1, !.m.back = p, !.m.front = IF @ = 0 THEN p ELSE @,
                     !.cell = [linked EXCEPT ![p] = new]]

\* The node under the cursor: the first, the last, or one with two neighbours.
Middle(d, before, after) == [d.cell EXCEPT ![before].next = after, ![after].prev = before]

remove(d) ==
  LET p == d.m.cursor
      before == d.cell[p].prev
      after == d.cell[p].next
  IN  IF p = d.m.front THEN pop_front(d)
      ELSE IF p = d.m.back THEN pop_back(d)
      ELSE [d EXCEPT !.m.size = @ - 1, !.gone = Contents({p}),
                     !.cell = [Middle(d, before, after) EXCEPT ![p] = Freed]]

-----------------------------------------------------------------------------
NewNode == CHOOSE p \in Nodes : ~cell[p].used

Returns(call, d) ==
  /\ object' = d.m /\ cell' = d.cell /\ answer' = <<call, d.ok, d.gone>>
  /\ rewound' = (rewound /\ d.cell[d.m.cursor].used)

list_push(x, override) ==
  \/ /\ \E p \in Nodes : ~cell[p].used
     /\ \/ Returns("push_front", push_front(NewNode, x, override))
        \/ Returns("push_back", push_back(NewNode, x, override))
  \/ \E call \in {"push_front", "push_back"} :     \* no heap
       answer' = <<call, "alloc_fail", {}>> /\ UNCHANGED <<object, cell, rewound>>

list_pop == Returns("pop_front", pop_front(Here)) \/ Returns("pop_back", pop_back(Here))
list_remove == rewound /\ Returns("remove", remove(Here))

\* front() and back() set the cursor, next() and prev() move it if they can.
Cursor(call, p) ==
  /\ object' = [object EXCEPT !.cursor = p] /\ rewound' = (p # 0)
  /\ answer' = <<call, IF p = 0 THEN "NULL" ELSE cell[p].content, {}>>
  /\ UNCHANGED cell
Step(call, p) ==
  /\ rewound
  /\ IF p # 0 THEN Cursor(call, p)
     ELSE answer' = <<call, "NULL", {}>> /\ UNCHANGED <<object, cell, rewound>>

list_front == Cursor("front", object.front)
list_back == Cursor("back", object.back)
list_next == Step("next", cell[object.cursor].next)
list_prev == Step("prev", cell[object.cursor].prev)

list_asked ==
  /\ \/ answer' = <<"size", object.size, {}>>
     \/ answer' = <<"empty", object.size = 0, {}>>
     \/ answer' = <<"full", object.size = ListSize, {}>>
  /\ UNCHANGED <<object, cell, rewound>>

\* The nodes from m_front on, as next links them.
Chain ==
  LET node[i \in 1..object.size] == IF i = 1 THEN object.front ELSE cell[node[i - 1]].next
  IN  node

\* ~List() and another List; nodes that were leaked stay so.
list_renewed ==
  LET mine == {Chain[i] : i \in 1..object.size}
  IN  /\ cell' = [p \in Nodes |-> IF p \in mine THEN Freed ELSE cell[p]]
      /\ object' = [size |-> 0, front |-> 0, back |-> 0, cursor |-> object.cursor]
      /\ rewound' = FALSE /\ answer' = <<"new", "ok", Contents(mine)>>

ListNext ==
  \/ \E x \in ListElems, override \in BOOLEAN : list_push(x, override)
  \/ list_pop \/ list_remove
  \/ list_front \/ list_back \/ list_next \/ list_prev
  \/ list_asked \/ list_renewed

ListSpec == ListInit /\ [][ListNext]_listVars

-----------------------------------------------------------------------------
LItems == [i \in 1..object.size |-> cell[Chain[i]].content]
LAt == LET places == {i \in 1..object.size : rewound /\ Chain[i] = object.cursor}
       IN  IF places = {} THEN 0 ELSE CHOOSE i \in places : TRUE

Sequence == INSTANCE Deque WITH
  Elems <- ListElems, Capacity <- ListSize, items <- LItems, at <- LAt

\* The linked nodes are a sequence: whatever is added and taken away at either end or
\* under the cursor, both directions of links show the same elements in the same order,
\* every call returns what a sequence's would, the size agrees with the links, and what
\* leaves is deleted by the very call that takes it out, and by no other.
ListOrder == Sequence!Spec
===============================================================================
