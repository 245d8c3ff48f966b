-------------------------------- MODULE Json --------------------------------
(***************************************************************************)
(* The JSON reader of espbot_json.cpp: it copies nothing and remembers no  *)
(* structure.  A JSONP or a JSONP_ARRAY is a stretch of somebody else's    *)
(* text; each getter scans that stretch again from its start, and what it  *)
(* hands over is a stretch of the same text.                               *)
(*                                                                         *)
(* A text is a sequence of characters.  A stretch goes from `from' up to,  *)
(* and without, `end'; position 0 is the pointer NULL.  The place an error *)
(* is reported at is left out: only that there is one.                     *)
(***************************************************************************)
EXTENDS Integers, Sequences, FiniteSets

CONSTANTS
  Texts,       \* the texts a parser may be given
  Edits,       \* the characters a damaged text has in place of its own
  Keys,        \* the names the getters are called with, each a sequence
  Indexes,     \* the indexes they are called with
  IntRoom,     \* what getInt has room for: 15 characters
  FloatRoom,   \* what getFloat has room for: 63 characters
  StrRooms     \* the lengths of the buffers given to getStr

ASSUME JsonConstants ==
  Texts \subseteq Seq(STRING) /\ Edits \subseteq STRING /\ Indexes \subseteq Int

VARIABLES
  text,        \* the text under the parsers
  damaged,     \* one of its characters has been changed or lost
  objs,        \* "doc": the JSONP of the text; "sub": the last one of getObj
  arr          \* the last JSONP_ARRAY

jsonVars == <<text, damaged, objs, arr>>

Space == {" "}
Quote == "\""
Special == {"{", "}", "[", "]", ":", ","}
Digit == {"0", "1"}

NoValue == [type |-> "unknown", from |-> 0, end |-> 0]

-----------------------------------------------------------------------------
(***************************************************************************)
(* The scanners.  e is where the stretch ends; each answers 0 when what it *)
(* looks for is not there.                                                 *)
(***************************************************************************)

SkipSpace(p, e) ==
  IF p >= e THEN p
  ELSE CHOOSE q \in p..e : /\ q = e \/ text[q] \notin Space
                           /\ \A r \in p..(q - 1) : text[r] \in Space

\* Where the characters from p on stop being part of a string.
StringEnd(p, e) ==
  LET ends == {q \in p..(e - 1) : text[q] \in Special \cup {Quote}}
      q == CHOOSE x \in ends : \A y \in ends : x <= y
  IN  IF ends # {} /\ text[q] = Quote THEN q ELSE 0

\* Names, unlike values, have a first character.
NameEnd(p, e) == IF p < e /\ text[p] # Quote THEN StringEnd(p, e) ELSE 0

NumberEnd(p, e, stops) ==
  LET ends == {q \in p..(e - 1) : text[q] \notin Digit \cup {"."}}
      q == CHOOSE x \in ends : \A y \in ends : x <= y
  IN  IF ends # {} /\ text[q] \in stops \cup Space THEN q ELSE 0

\* The bracket that pairs the one at p.  The count goes to the end of the
\* text, whatever the stretch.
Count(c, p, q) == Cardinality({i \in p..q : text[i] = c})
PairedEnd(p, open, close) ==
  LET ends == {q \in p..Len(text) : /\ text[q] = close
                                    /\ Count(open, p, q) = Count(close, p, q)}
  IN  IF ends = {} THEN 0 ELSE CHOOSE x \in ends : \A y \in ends : x <= y
find_object_end(p) == PairedEnd(p, "{", "}")
find_array_end(p) == PairedEnd(p, "[", "]")

\* The value that starts at p, and the last of its characters.  Where it ends
\* is q, 0 if nowhere; a bracket's last character is then taken to be 0.
Unknown == [type |-> "unknown", from |-> 0, end |-> 0, last |-> 0]
StrValue(p, q) ==
  IF q = 0 THEN Unknown ELSE [type |-> "str", from |-> p, end |-> q, last |-> q]
NumValue(p, q) ==
  IF q = 0 THEN Unknown
  ELSE [type |-> "num", from |-> p, end |-> q,
        last |-> IF text[q] \in Space THEN q ELSE q - 1]
NestedValue(type, p, q) == [type |-> type, from |-> p, end |-> q + 1, last |-> q]

Value(p, e, stops) ==
  CASE text[p] = Quote -> StrValue(p + 1, StringEnd(p + 1, e))
    [] text[p] \in Digit \cup {"-"} -> NumValue(p, NumberEnd(p + 1, e, stops))
    [] text[p] = "{" -> NestedValue("obj", p, find_object_end(p))
    [] text[p] = "[" -> NestedValue("array", p, find_array_end(p))
    [] OTHER -> Unknown

\* What a turn of a loop finds from p on: a pair or an element, where what is
\* after it begins, and whether the loop goes on from there.
Nothing == [next |-> 0]
Stretch(val) == [type |-> val.type, from |-> val.from, end |-> val.end]

PairOf(name, val, e) ==
  LET d == SkipSpace(val.last + 1, e)
  IN  IF val.type # "unknown" /\ d # e /\ (d < e => text[d] \in {",", "}"})
      THEN [name |-> name, value |-> Stretch(val), next |-> d, more |-> d < e]
      ELSE Nothing
Pair(p, e) ==
  LET n == SkipSpace(p, e)
      m == NameEnd(n + 1, e)
      c == SkipSpace(m + 1, e)
      v == SkipSpace(c + 1, e)
  IN  IF /\ n < e /\ text[n] = Quote
         /\ m # 0
         /\ c < e /\ text[c] = ":"
         /\ v < e
      THEN PairOf(SubSeq(text, n + 1, m - 1), Value(v, e, {",", "}"}), e)
      ELSE Nothing

ElemOf(val, e) ==
  LET d == SkipSpace(val.last + 1, e)
  IN  IF val.type # "unknown"
      THEN [value |-> Stretch(val), next |-> d, more |-> d < e /\ text[d] = ","]
      ELSE Nothing
Elem(p, e) ==
  LET v == SkipSpace(p, e)
  IN  IF v < e THEN ElemOf(Value(v, e, {",", "}", "]"}), e) ELSE Nothing
Item(what, p, e) == IF what = "pairs" THEN Pair(p, e) ELSE Elem(p, e)

Rest_Any(p, e) == TRUE            \* mutant: text after the last bracket is let through
Rest(p, e) == \A q \in p..(e - 1) : text[q] \in Space

-----------------------------------------------------------------------------
(***************************************************************************)
(* The loops of syntax_check, find_key and find_elem: the pairs or the     *)
(* elements from p on, in their order.  A text has no more of them than    *)
(* one before its first comma and one after each.                          *)
(***************************************************************************)
Turns == Count(",", 1, Len(text)) + 1

\* The items a loop has come by, and the one its next turn comes to.
Longer(items, item) == IF item = Nothing THEN items ELSE Append(items, item)
WithNext(what, p, e, items) ==
  LET last == items[Len(items)]
      from == IF items = <<>> THEN p ELSE last.next + 1
  IN  Longer(items, IF items = <<>> \/ last.more THEN Item(what, from, e) ELSE Nothing)

Items(what, p, e) ==
  LET after[k \in 0..Turns] ==
        IF k = 0 THEN <<>> ELSE WithNext(what, p, e, after[k - 1])
  IN  after[Turns]

\* A value is right when what its bracket opens is; right tells of which it
\* is, and an end is 1 when there is none.
NestedOk(right, v) ==
  v.type \in {"obj", "array"} => v.end > 1 /\ right[v.from]

\* Right values with commas between them, and after them nothing but what
\* closes them.
ItemsOk(right, items, e, close) ==
  LET n == Len(items)
  IN  /\ n > 0
      /\ \A k \in 1..n : NestedOk(right, items[k].value)
      /\ \A k \in 1..(n - 1) : text[items[k].next] = ","
      /\ items[n].next # e
      /\ items[n].next < e =>
           text[items[n].next] = close /\ Rest(items[n].next + 1, e)

Closes(p, e, close) == LET q == SkipSpace(p, e) IN q < e /\ text[q] = close

\* The pairs from p on.  An object without pairs is left at its bracket.
PairsOk(right, p, e) ==
  Closes(p, e, "}") \/ ItemsOk(right, Items("pairs", p, e), e, "}")

\* The elements from p on: how many there are, or -1.
CountOk(right, elems, e) == IF ItemsOk(right, elems, e, "]") THEN Len(elems) ELSE -1
ElemsCount(right, p, e) ==
  IF Closes(p, e, "]") THEN 0
  ELSE CountOk(right, Items("elems", p, e), e)

\* Of each bracket, whether what it opens is right up to its pair.
Right[p \in DOMAIN text] ==
  CASE text[p] = "{" -> PairsOk(Right, p + 1, find_object_end(p) + 1)
    [] text[p] = "[" -> ElemsCount(Right, p + 1, find_array_end(p) + 1) >= 0
    [] OTHER -> TRUE

\* JSONP::syntax_check.
ObjectOk(from, e) ==
  LET p == SkipSpace(from, e)
  IN  from > 0 /\ p < e /\ text[p] = "{" /\ PairsOk(Right, p + 1, e)

\* JSONP_ARRAY::syntax_check: how many elements there are, or -1.
ArrayLen(from, e) ==
  LET p == SkipSpace(from, e)
  IN  IF from > 0 /\ p < e /\ text[p] = "[" THEN ElemsCount(Right, p + 1, e)
      ELSE -1

-----------------------------------------------------------------------------
(* What the getters look for. *)

\* JSONP::find_key: the syntax first, then pair by pair from the start.
FirstNamed(pairs, name) ==
  LET named == {k \in DOMAIN pairs : pairs[k].name = name}
  IN  IF named = {} THEN NoValue
      ELSE pairs[CHOOSE k \in named : \A m \in named : k <= m].value
find_key(o, name) ==
  IF ObjectOk(o.from, o.end)
  THEN FirstNamed(Items("pairs", SkipSpace(o.from, o.end) + 1, o.end), name)
  ELSE NoValue

\* JSONP_ARRAY::find_elem: element by element from the start.
ValueAt(elems, i) == IF i \in DOMAIN elems THEN elems[i].value ELSE NoValue
find_elem(a, idx) ==
  LET p == SkipSpace(a.from, a.end)
  IN  IF p < a.end /\ text[p] = "["
      THEN ValueAt(Items("elems", p + 1, a.end), idx + 1) ELSE NoValue

-----------------------------------------------------------------------------
(* The objects of the two classes. *)

JSONP(from, e) == [from |-> from, end |-> e,
                   err |-> IF ObjectOk(from, e) THEN "noerr" ELSE "syntax"]
NoJSONP == [from |-> 0, end |-> 0, err |-> "empty"]

\* syntax_check leaves the count of a wrong array at 0.
Counted(from, e, n) ==
  [from |-> from, end |-> e, err |-> IF n >= 0 THEN "noerr" ELSE "syntax",
   count |-> IF n >= 0 THEN n ELSE 0, id |-> -1, cur |-> NoValue]
JSONP_ARRAY(from, e) == Counted(from, e, ArrayLen(from, e))
NoArray == [from |-> 0, end |-> 0, err |-> "empty",
            count |-> 0, id |-> -1, cur |-> NoValue]

JsonInit ==
  /\ text \in Texts
  /\ damaged = FALSE
  /\ objs = [h \in {"doc", "sub"} |-> NoJSONP]
  /\ arr = NoArray

\* A text may come with one character changed, lost or doubled.
Damage ==
  /\ ~damaged /\ objs["doc"] = NoJSONP
  /\ damaged' = TRUE
  /\ \E i \in 1..Len(text) :
       LET before == SubSeq(text, 1, i - 1)
           after == SubSeq(text, i + 1, Len(text))
       IN  \/ text' = before \o after
           \/ \E c \in Edits : text' = before \o <<c>> \o after
           \/ \E c \in Edits : text' = before \o <<c, text[i]>> \o after
  /\ UNCHANGED <<objs, arr>>

\* JSONP(text, length): routes and configuration files give the exact length.
Open ==
  /\ objs["doc"] = NoJSONP
  /\ objs' = [objs EXCEPT !["doc"] = JSONP(1, Len(text) + 1)]
  /\ UNCHANGED <<text, damaged, arr>>

(* What the getters are for: a type, the room for it, whole numbers only. *)
ForInt == [type |-> "num", room |-> IntRoom, whole |-> TRUE]
ForFloat == [type |-> "num", room |-> FloatRoom, whole |-> FALSE]
ForStr(len) == [type |-> "str", room |-> len, whole |-> FALSE]
ForStrlen == [type |-> "str", room |-> Len(text), whole |-> FALSE]
ForObj == [type |-> "obj", room |-> Len(text), whole |-> FALSE]
ForArray == [type |-> "array", room |-> Len(text), whole |-> FALSE]

Fits(v, for) ==
  /\ v.type = for.type
  /\ v.end - v.from <= for.room
  /\ for.whole => \A i \in v.from..(v.end - 1) : text[i] # "."

\* The answer of a getter of the JSONP o.  The first error stays.
Checked(v, for) ==
  IF v = NoValue THEN [err |-> "notFound", value |-> NoValue]
  ELSE IF ~Fits(v, for) THEN [err |-> "typeMismatch", value |-> NoValue]
  ELSE [err |-> "noerr", value |-> v]
Answer(o, name, for) ==
  IF o.err # "noerr" THEN [err |-> o.err, value |-> NoValue]
  ELSE Checked(find_key(o, name), for)

Kept(a, idx, v) == IF v = NoValue THEN [a EXCEPT !.id = -1]
                   ELSE [a EXCEPT !.id = idx, !.cur = v]

Sought_Stale(a, idx) ==           \* mutant: whatever was found last is kept
  IF a.id >= 0 THEN [a EXCEPT !.id = idx] ELSE Kept(a, idx, find_elem(a, idx))

\* The array after looking for idx: the element found last is kept, and is
\* looked for again only when another index is asked for.
Sought(a, idx) == IF idx = a.id THEN a ELSE Kept(a, idx, find_elem(a, idx))

\* The answer of a getter of the JSONP_ARRAY a, and what it leaves in it.
CheckedAt(a, idx, for) ==
  IF a.id # idx THEN [arr |-> [a EXCEPT !.err = "notFound"], value |-> NoValue]
  ELSE IF ~Fits(a.cur, for)
  THEN [arr |-> [a EXCEPT !.err = "typeMismatch"], value |-> NoValue]
  ELSE [arr |-> a, value |-> a.cur]
AnswerAt(a, idx, for) ==
  IF a.err # "noerr" THEN [arr |-> a, value |-> NoValue]
  ELSE IF idx < 0 \/ idx >= a.count
  THEN [arr |-> [a EXCEPT !.err = "outOfBoundary"], value |-> NoValue]
  ELSE CheckedAt(Sought(a, idx), idx, for)

ObjectOf(v) == IF v = NoValue THEN NoJSONP ELSE JSONP(v.from, v.end)
ArrayOf(v) == IF v = NoValue THEN NoArray ELSE JSONP_ARRAY(v.from, v.end)

\* Getters of values: what changes is the error.
Get(h, name, for) ==
  /\ objs[h] # NoJSONP
  /\ objs' = [objs EXCEPT ![h].err = Answer(objs[h], name, for).err]
  /\ UNCHANGED <<text, damaged, arr>>
getInt(h, name) == Get(h, name, ForInt)
getFloat(h, name) == Get(h, name, ForFloat)
getStr(h, name) == \E len \in StrRooms : Get(h, name, ForStr(len))
getStrlen(h, name) == Get(h, name, ForStrlen)

\* The object and the array they hand over are parsers of their stretch.
getObj(h, name) ==
  LET a == Answer(objs[h], name, ForObj)
      o == [objs EXCEPT ![h].err = a.err]
  IN  /\ objs[h] # NoJSONP
      /\ objs' = [o EXCEPT !["sub"] = ObjectOf(a.value)]
      /\ UNCHANGED <<text, damaged, arr>>
getArray(h, name) ==
  LET a == Answer(objs[h], name, ForArray)
  IN  /\ objs[h] # NoJSONP
      /\ objs' = [objs EXCEPT ![h].err = a.err]
      /\ arr' = ArrayOf(a.value)
      /\ UNCHANGED <<text, damaged>>

clearErr(h) ==
  /\ objs[h] # NoJSONP
  /\ objs' = [objs EXCEPT ![h].err = "noerr"]
  /\ UNCHANGED <<text, damaged, arr>>

(* The same of the elements of an array. *)
GetAt(idx, for) ==
  /\ arr # NoArray
  /\ arr' = AnswerAt(arr, idx, for).arr
  /\ UNCHANGED <<text, damaged, objs>>
elemInt(idx) == GetAt(idx, ForInt)
elemFloat(idx) == GetAt(idx, ForFloat)
elemStr(idx) == \E len \in StrRooms : GetAt(idx, ForStr(len))
elemStrlen(idx) == GetAt(idx, ForStrlen)

elemObj(idx) ==
  LET a == AnswerAt(arr, idx, ForObj)
  IN  /\ arr # NoArray
      /\ arr' = a.arr
      /\ objs' = [objs EXCEPT !["sub"] = ObjectOf(a.value)]
      /\ UNCHANGED <<text, damaged>>
\* The caller goes on with the inner array.
elemArray(idx) ==
  LET a == AnswerAt(arr, idx, ForArray)
  IN  /\ arr # NoArray
      /\ arr' = IF a.value = NoValue THEN a.arr ELSE ArrayOf(a.value)
      /\ UNCHANGED <<text, damaged, objs>>

elemClearErr ==
  /\ arr # NoArray
  /\ arr' = [arr EXCEPT !.err = "noerr"]
  /\ UNCHANGED <<text, damaged, objs>>

JsonNext ==
  \/ Damage
  \/ Open
  \/ \E h \in {"doc", "sub"}, name \in Keys :
       \/ getInt(h, name) \/ getFloat(h, name) \/ getStr(h, name)
       \/ getStrlen(h, name) \/ getObj(h, name) \/ getArray(h, name)
  \/ \E h \in {"doc", "sub"} : clearErr(h)
  \/ \E idx \in Indexes :
       \/ elemInt(idx) \/ elemFloat(idx) \/ elemStr(idx) \/ elemStrlen(idx)
       \/ elemObj(idx) \/ elemArray(idx)
  \/ elemClearErr

JsonSpec == JsonInit /\ [][JsonNext]_jsonVars

=============================================================================
