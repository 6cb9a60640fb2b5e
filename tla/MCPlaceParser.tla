---- MODULE MCPlaceParser ----
(***************************************************************************)
(* The search for places and trips in every text of up to MaxLength        *)
(* characters, with the n-grams of KeywordEntityParserUtils, tables in     *)
(* which every kind of key occurs, and keywords of which some contain      *)
(* others of their kind and of the other kind.                             *)
(***************************************************************************)
EXTENDS EntitySearch, TLC

CONSTANTS Letters, MaxLength

\* Words are one blank apart; a text may start with two.
MCTexts ==
  {t \in UNION {[1..n -> Letters \cup {Blank}] : n \in 0..MaxLength} :
     \A i, j \in 3..Len(t) : j = i + 1 => t[i] # Blank \/ t[j] # Blank}

\* "aa" is a country, "ab" a city of it and "ab bb" one of another country; "ab a"
\* is another name of the first city, and ends in a single letter.  "ba" is an
\* airport of that city, which "bb ba" names, and "bab" one whose city is not in
\* the tables.  "bb" names an airport that has no code there.
MCnull == <<"null">>
aa == <<"a", "a">>
ab == <<"a", "b">>
ba == <<"b", "a">>
bb == <<"b", "b">>
bab == <<"b", "a", "b">>

C1 == <<"C", "1">>
C2 == <<"C", "2">>
C3 == <<"C", "3">>

MCairportNames == (bb :> C2) @@ (bb \o <<Blank>> \o ba :> ba)
MCairportCodes == (ba :> C1) @@ (bab :> C3)
MCcityNames    == (ab :> C1) @@ (ab \o <<Blank>> \o bb :> C2) @@ (ab \o <<Blank>> \o <<"a">> :> C1)
MCcityCodes    == (C1 :> <<"X">>) @@ (C2 :> <<"Y">>)
MCcountryNames == aa :> <<"X">>
MCignored      == {<<"b", "b", "b">>}

--------------------------------------------------------------------------
MCTriptypes == <<"direct", "oneway">>
MCkeywords(triptype) ==
  IF triptype = "direct" THEN {ab, bb, ab \o <<Blank>> \o bb}
  ELSE {ba, ab, bb, aa \o <<Blank>> \o ab \o <<Blank>> \o bb}
====
