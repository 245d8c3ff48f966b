------------------------------ MODULE JsonRead ------------------------------
(***************************************************************************)
(* What the reader of Json makes of a text is what the grammar of JsonText *)
(* says the text means.                                                    *)
(***************************************************************************)
EXTENDS Json, JsonText

(***************************************************************************)
(* A text is accepted exactly when it is a document: syntax_check, which   *)
(* scans for brackets without looking at what is between them, refuses     *)
(* every text in which they pair the wrong way.  The one exception is a    *)
(* text that starts with an empty object, which is not looked at further.  *)
(***************************************************************************)
StartsEmpty(s) == LET t == Tokens(s)
                  IN  Len(t) > 1 /\ t[1].kind = "{" /\ t[2].kind = "}"

Accepted ==
  objs["doc"] # NoJSONP =>
    ObjectOk(1, Len(text) + 1) = (IsDocument(text) \/ StartsEmpty(text))

(***************************************************************************)
(* What a getter would hand over now is what the document means: the first *)
(* member of that name or the element at that index, whichever getters,    *)
(* errors and clearErr went before.  It hands over nothing exactly when    *)
(* there is no such value, its type is another, it does not fit, or an     *)
(* earlier error was not cleared; and never anything of a wrong text, not  *)
(* even after clearErr.                                                    *)
(***************************************************************************)
Queries == {ForInt, ForFloat, ForStrlen, ForObj, ForArray}
           \cup {ForStr(len) : len \in StrRooms}

Offered(parser, m, for) ==
  IF parser.err = "noerr" /\ Fits(m, for) THEN m ELSE NoValue

\* The tokens a parser stands on; a text that is no document has none.
TokensOf(parser) == IF parser.from > 0 /\ IsDocument(text)
                    THEN Within(text, parser.from, parser.end) ELSE <<>>
MemberOf(t, name) ==
  IF t # <<>> /\ HasMember(t, text, name) THEN Member(t, text, name) ELSE NoValue
ElementOf(t, idx) ==
  IF t # <<>> /\ idx \in 0..(Size(t) - 1) THEN Element(t, idx) ELSE NoValue

ValueRead ==
  objs["doc"] # NoJSONP =>
  /\ \A h \in {"doc", "sub"} : \E t \in {TokensOf(objs[h])} :
       \A name \in Keys : \E m \in {MemberOf(t, name)} : \A for \in Queries :
         Answer(objs[h], name, for).value = Offered(objs[h], m, for)
  /\ \E t \in {TokensOf(arr)} :
       \A idx \in Indexes : \E m \in {ElementOf(t, idx)} : \A for \in Queries :
         AnswerAt(arr, idx, for).value = Offered(arr, m, for)
=============================================================================
