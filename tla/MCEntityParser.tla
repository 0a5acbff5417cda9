--------------------------- MODULE MCEntityParser ---------------------------
(***************************************************************************)
(* The parser with two words and the texts that take every path of it.     *)
(* One is a nameless object, as most decl files begin with, and one begins *)
(* with a bare word, so that the two can come to stand side by side and be *)
(* removed together.                                                       *)
(***************************************************************************)
EXTENDS EntityParser

MCChars == [w \in Words |-> IF w = "a" THEN 1 ELSE 2]

MCTexts ==
  {<<>>, <<"a", "{", "{", "b", "}", "}">>, <<"b", "a", "{", "}">>, <<"a", "{", "}", "bad">>,
   <<"a", "{", "b">>, <<"b", "}">>,
   <<"{", "}">>}

(* A bare word, a nameless object, and the empty text that removes them.   *)
MCNameless == {<<>>, <<"b">>, <<"{", "}">>}
=============================================================================
