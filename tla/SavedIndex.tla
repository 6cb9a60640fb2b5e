---- MODULE SavedIndex ----
(***************************************************************************)
(* From the encoder's feature index to the decoder's: when learn is done,  *)
(* save builds the double array of the keys of the dictionary and their    *)
(* ids, and DecoderFeatureIndex looks keys up in it by their spelling.     *)
(***************************************************************************)
EXTENDS FeatureIndex, DoubleArray

CONSTANTS
  Spellings,    \* how the keys may be spelled: in the order of the dictionary
  Texts         \* what the decoder looks up

ASSUME SpellingsAssumption ==
  /\ \A s \in Spellings : s \in [Keys -> Seq(Bytes)] /\ \A k, l \in Keys : s[k] = s[l] => k = l
  /\ Texts \subseteq Seq(Bytes)

VARIABLES
  spelling,
  da          \* the double array of the model file; NoUnits before save

savedVars == <<vars, spelling, da>>

SavedInit == Init /\ spelling \in Spellings /\ da = NoUnits

\* The dictionary is a map: its keys in their order.
Ordered(S) == [n \in 1..Cardinality(S) |-> CHOOSE k \in S : Cardinality({l \in S : l < k}) = n - 1]

\* The keys that are left are spelled out in the order of the dictionary.
save ==
  /\ phase = "done" /\ da = NoUnits /\ dic # {}
  /\ LET key == Ordered(dic)
     IN  da' = build([n \in DOMAIN key |-> spelling[key[n]]], [n \in DOMAIN key |-> id[key[n]]])
  /\ UNCHANGED <<vars, spelling>>

SavedNext == save \/ (Next /\ UNCHANGED <<spelling, da>>)

SavedSpec == SavedInit /\ [][SavedNext]_savedVars

--------------------------------------------------------------------------
getID(text) == exactMatchSearch(da, text)

\* The decoder finds for every key of the dictionary the id its weights begin at, and
\* for every other text, that of a dropped key or the beginning of a key among them,
\* that there is none; and it does not look beyond the array for it.
DecoderFindsTheIds ==
  da # NoUnits =>
    \A t \in Texts :
      /\ getID(t) = IF \E k \in dic : spelling[k] = t
                    THEN id[CHOOSE k \in dic : spelling[k] = t] ELSE -1
      /\ Seen(da, t) \subseteq 0..(da.size - 1)
====
