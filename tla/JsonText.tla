------------------------------ MODULE JsonText ------------------------------
(***************************************************************************)
(* The documents the firmware exchanges, as a grammar over tokens: objects *)
(* of named values, arrays, strings without brackets, colons and commas,   *)
(* and numbers made of a digit or a minus followed by digits and points.   *)
(* It says what a text means without saying how a text is scanned.         *)
(***************************************************************************)
EXTENDS Integers, Sequences, FiniteSets

Lowest(S) == CHOOSE x \in S : \A y \in S : x <= y

Punctuation == {"{", "}", "[", "]", ":", ","}
NumberStart == {"-", "0", "1"}
NumberPart == {".", "0", "1"}

(* Tokens: their kind, and the characters s[from] to s[end - 1] they hold. *)
RECURSIVE TokensFrom(_, _)
TokensFrom(s, i) ==
  IF i > Len(s) THEN <<>>
  ELSE IF s[i] = " " THEN TokensFrom(s, i + 1)
  ELSE IF s[i] = "\""
  THEN LET quotes == {q \in (i + 1)..Len(s) : s[q] = "\""}
       IN  IF quotes = {} THEN <<[kind |-> "bad", from |-> i, end |-> i]>>
           ELSE LET q == Lowest(quotes)
                    ok == \A k \in (i + 1)..(q - 1) : s[k] \notin Punctuation
                IN  <<[kind |-> IF ok THEN "str" ELSE "bad",
                       from |-> i + 1, end |-> q]>> \o TokensFrom(s, q + 1)
  ELSE IF s[i] \in NumberStart
  THEN LET q == Lowest({k \in (i + 1)..(Len(s) + 1) :
                          k > Len(s) \/ s[k] \notin NumberPart})
       IN  <<[kind |-> "num", from |-> i, end |-> q]>> \o TokensFrom(s, q)
  ELSE <<[kind |-> IF s[i] \in Punctuation THEN s[i] ELSE "bad",
          from |-> i, end |-> i + 1]>> \o TokensFrom(s, i + 1)
Tokens(s) == TokensFrom(s, 1)

(* The parts of t[i..j] between the commas that are in no bracket. *)
Depth(t, i, k) == Cardinality({x \in i..k : t[x].kind \in {"{", "["}})
                  - Cardinality({x \in i..k : t[x].kind \in {"}", "]"}})
Commas(t, i, j) == {k \in i..j : t[k].kind = "," /\ Depth(t, i, k) = 0}
Parts(t, i, j) ==
  LET cuts == {i - 1, j + 1} \cup Commas(t, i, j)
  IN  {p \in (i..(j + 1)) \X ((i - 1)..j) :
         /\ p[1] - 1 \in cuts /\ p[2] + 1 \in cuts /\ p[1] <= p[2] + 1
         /\ \A c \in cuts : c < p[1] \/ c > p[2]}

RECURSIVE IsValue(_, _, _)
IsObject(t, i, j) ==
  /\ i < j /\ t[i].kind = "{" /\ t[j].kind = "}"
  /\ j > i + 1 => \A p \in Parts(t, i + 1, j - 1) :
       /\ p[2] >= p[1] + 2
       /\ t[p[1]].kind = "str" /\ t[p[1]].end > t[p[1]].from
       /\ t[p[1] + 1].kind = ":"
       /\ IsValue(t, p[1] + 2, p[2])
IsArray(t, i, j) ==
  /\ i < j /\ t[i].kind = "[" /\ t[j].kind = "]"
  /\ j > i + 1 => \A p \in Parts(t, i + 1, j - 1) :
                    p[1] <= p[2] /\ IsValue(t, p[1], p[2])
IsValue(t, i, j) == \/ i = j /\ t[i].kind \in {"str", "num"}
                    \/ IsObject(t, i, j)
                    \/ IsArray(t, i, j)

IsDocument(s) == LET t == Tokens(s) IN IsObject(t, 1, Len(t))

(* The value t[i..j], as the characters it stands on. *)
Meant(t, i, j) ==
  [type |-> CASE t[i].kind = "{" -> "obj" [] t[i].kind = "[" -> "array"
              [] OTHER -> t[i].kind,
   from |-> t[i].from, end |-> t[j].end]

(* The tokens of the bracketed stretch of s from `from' to `end'. *)
Within(s, from, end) == LET all == Tokens(s)
                            mine == {k \in DOMAIN all : /\ all[k].from >= from
                                                        /\ all[k].end <= end}
                        IN  SubSeq(all, Lowest(mine),
                                   Lowest(mine) + Cardinality(mine) - 1)

(* The values a name has in the object t, the first one first to be found, *)
(* and the element of an array at an index.                                *)
Members(t, s, name) ==
  IF Len(t) = 2 THEN {}
  ELSE {p \in Parts(t, 2, Len(t) - 1) :
          SubSeq(s, t[p[1]].from, t[p[1]].end - 1) = name}
HasMember(t, s, name) == Members(t, s, name) # {}
Member(t, s, name) ==
  LET p == CHOOSE x \in Members(t, s, name) :
             \A y \in Members(t, s, name) : x[1] <= y[1]
  IN  Meant(t, p[1] + 2, p[2])

Size(t) == IF Len(t) = 2 THEN 0
           ELSE Cardinality(Commas(t, 2, Len(t) - 1)) + 1
Element(t, idx) ==
  LET p == CHOOSE x \in Parts(t, 2, Len(t) - 1) :
             Cardinality({c \in Commas(t, 2, Len(t) - 1) : c < x[1]}) = idx
  IN  Meant(t, p[1], p[2])
=============================================================================
