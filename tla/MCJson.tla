------------------------------- MODULE MCJson -------------------------------
(***************************************************************************)
(* Json for TLC: documents with every kind of value on two levels, whole   *)
(* and with every one-character damage.                                    *)
(***************************************************************************)
EXTENDS JsonRead

Name(c) == <<"\"", c, "\"", ":">>
Str(c) == <<"\"", c, "\"">>

SmallTexts == {
  <<"{">> \o Name("a") \o <<"1", "}">>,
  <<"{", "}">>,
  <<"{">> \o Name("a") \o <<"-", "1", "0", " ", ",">> \o Name("b")
    \o <<"\"", "\"", "}", " ">>,
  <<"{">> \o Name("a") \o <<"[", "1", ".", "0", ",">> \o Str("b")
    \o <<",", "1", "]", "}">>,
  <<"{">> \o Name("a") \o <<"{">> \o Name("b") \o <<"1", "}", ",">>
    \o Name("b") \o <<"[", "]", "}">>,
  <<"{">> \o Name("a") \o <<"[", "[", "1", "]", ",", "{">> \o Name("a")
    \o <<"0", "}", "]", "}">>,
  <<"{">> \o Name("a") \o Str("a") \o <<",">> \o Name("a") \o <<"1", "}">> }

SmallEdits == {"{", "}", "[", "]", "\"", ":", ",", " ", "1", "."}
SmallKeys == {<<"a">>, <<"b">>}
SmallIndexes == {-1, 0, 1, 2}
=============================================================================
