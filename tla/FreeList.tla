---- MODULE FreeList ----
(***************************************************************************)
(* FreeList of CRF++ as operators: memory in chunks of one size, handed    *)
(* out from front to back.  fl.li is the chunk in use, fl.pi its first     *)
(* unused element, fl.chunks how many there are.                           *)
(***************************************************************************)
EXTENDS Naturals

CONSTANT size   \* elements in a chunk

\* A chunk has elements.
ASSUME ChunkAssumption == size \in Nat \ {0}

Unused == [li |-> 0, pi |-> 0, chunks |-> 0]

\* Mutant of MoveOn: the length asked for is not looked at.
MoveOnWhenFull(fl, len) == fl.pi >= size

MoveOn(fl, len) == fl.pi + len >= size

\* Where len elements are handed out.
Place(fl, len) ==
  IF MoveOn(fl, len) THEN [li |-> fl.li + 1, pi |-> 0] ELSE [li |-> fl.li, pi |-> fl.pi]

Alloc(fl, len) ==
  LET p == Place(fl, len)
  IN  [li |-> p.li, pi |-> p.pi + len,
       chunks |-> IF p.li = fl.chunks THEN fl.chunks + 1 ELSE fl.chunks]

Cells(p, len) == {[li |-> p.li, pi |-> p.pi + n] : n \in 0..(len - 1)}
====
