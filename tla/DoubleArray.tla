---- MODULE DoubleArray ----
(***************************************************************************)
(* Darts, the double array a model of CRF++ keeps its keys in: a trie in   *)
(* one array of units.  The children of a node are in the units begin +    *)
(* code, where begin is the node's own and every unit says in check whose  *)
(* child it is; base is the begin of its own children or, of a leaf, the   *)
(* value of the key that ends there.                                       *)
(*                                                                         *)
(* A key is a sequence of codes, which are bytes, and keys come in their   *)
(* order.  That the array grows when it must is left out: a unit that is   *)
(* not there is one of zeros.                                              *)
(***************************************************************************)
LOCAL INSTANCE Integers
LOCAL INSTANCE Sequences
LOCAL INSTANCE FiniteSetsExt
LOCAL INSTANCE SequencesExt

CONSTANTS
  MaxByte    \* 255

\* No byte of a key is 0.
Bytes == 1..MaxByte

--------------------------------------------------------------------------
\* The code of a key at a depth, 0 where it ends.
Code(key, depth) == IF Len(key) = depth THEN 0 ELSE key[depth + 1] + 1

\* fetch: the children of a node, in the order of their codes; left and right say
\* which of the keys go through a child.
fetch(key, parent) ==
  LET long   == {i \in parent.left..(parent.right - 1) : Len(key[i]) >= parent.depth}
      codes  == SetToSortSeq({Code(key[i], parent.depth) : i \in long}, <)
      Left(c) == Min({i \in long : Code(key[i], parent.depth) = c})
  IN  [n \in DOMAIN codes |->
         [code  |-> codes[n], depth |-> parent.depth + 1, left |-> Left(codes[n]),
          right |-> IF n = Len(codes) THEN parent.right ELSE Left(codes[n + 1])]]

Free(da, unit) == unit \notin DOMAIN da.check

\* Mutant of Fits: a begin may be that of two nodes.
FitsUsed(da, siblings, pos) ==
  \A n \in DOMAIN siblings : Free(da, pos - siblings[1].code + siblings[n].code)

\* The first of the siblings can be at pos.
Fits(da, siblings, pos) ==
  /\ pos - siblings[1].code \notin da.used
  /\ \A n \in DOMAIN siblings : Free(da, pos - siblings[1].code + siblings[n].code)

\* The siblings are put where they fit first from next_check_pos on, which goes up to
\* the first free unit and, when nearly all units up to pos are taken, to pos itself.
Reserve(da, siblings) ==
  LET from   == Max({siblings[1].code + 1, da.next_check_pos})
      beyond == Max({from, da.size}) + MaxByte + 2
      pos    == Min({p \in from..beyond : Fits(da, siblings, p)})
      free   == Min({p \in from..beyond : Free(da, p)})
      taken  == Cardinality({p \in from..pos : ~Free(da, p)})
      begin  == pos - siblings[1].code
      units  == {begin + siblings[n].code : n \in DOMAIN siblings}
  IN  [da EXCEPT
         !.begin = begin,
         !.check = [u \in DOMAIN da.check \cup units |-> IF u \in units THEN begin ELSE da.check[u]],
         !.used  = @ \cup {begin},
         !.size  = Max({@, begin + siblings[Len(siblings)].code + 1}),
         !.next_check_pos = IF 100 * taken >= 95 * (pos - free + 1) THEN pos ELSE free]

SetBase(da, unit, b) ==
  [da EXCEPT !.base = [u \in DOMAIN @ \cup {unit} |-> IF u = unit THEN b ELSE @[u]]]

\* insert, depth first: the siblings, then what is below each of them; the begin of
\* da is that of the siblings.
RECURSIVE insert(_, _, _, _)
insert(da, key, value, siblings) ==
  LET placed == Reserve(da, siblings)
      unit(n) == placed.begin + siblings[n].code
      below[n \in 0..Len(siblings)] ==
        IF n = 0 THEN placed
        ELSE LET children == fetch(key, siblings[n])
                 inner    == insert(below[n - 1], key, value, children)
             IN  IF children = <<>>
                 THEN SetBase(below[n - 1], unit(n), -value[siblings[n].left] - 1)
                 ELSE SetBase(inner, unit(n), inner.begin)
  IN  [below[Len(siblings)] EXCEPT !.begin = placed.begin]

NoUnits == [base |-> [u \in {} |-> 0], check |-> [u \in {} |-> 0], used |-> {}, begin |-> 0,
            size |-> 0, next_check_pos |-> 0]

\* The units a search may look at beyond the last one there is.
Margin == MaxByte + 2

\* build, over the keys in their order; the root's begin is 1.
build(key, value) ==
  IF key = <<>> THEN NoUnits
  ELSE LET root == [left |-> 1, right |-> Len(key) + 1, depth |-> 0]
           da   == insert(SetBase(NoUnits, 0, 1), key, value, fetch(key, root))
       IN  [da EXCEPT !.size = @ + Margin]

--------------------------------------------------------------------------
Base(da, unit)  == IF unit \in DOMAIN da.base THEN da.base[unit] ELSE 0
Check(da, unit) == IF unit \in DOMAIN da.check THEN da.check[unit] ELSE 0

\* exactMatchSearch: how far it gets along the key, and the units it looks at.
Walk(da, key) ==
  LET walk[i \in 0..Len(key)] ==
        IF i = 0 THEN [b |-> Base(da, 0), fits |-> TRUE, seen |-> {0}]
        ELSE LET w == walk[i - 1]
                 p == w.b + key[i] + 1
             IN  IF ~w.fits THEN w
                 ELSE [b |-> Base(da, p), fits |-> Check(da, p) = w.b, seen |-> w.seen \cup {p}]
  IN  walk[Len(key)]

exactMatchSearch(da, key) ==
  LET w == Walk(da, key)
  IN  IF w.fits /\ Check(da, w.b) = w.b /\ Base(da, w.b) < 0 THEN -Base(da, w.b) - 1 ELSE -1

\* The units the search looks at.
Seen(da, key) == LET w == Walk(da, key) IN w.seen \cup (IF w.fits THEN {w.b} ELSE {})
====
