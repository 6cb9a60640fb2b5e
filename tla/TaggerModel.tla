---- MODULE TaggerModel ----
(***************************************************************************)
(* Which model a TaggerImpl of CRF++ tags with, and what of it is its own. *)
(*                                                                         *)
(* A tagger either opens a model file itself, and then owns the feature    *)
(* index, or it is given the index of a Model that others share.  mode_    *)
(* says which of the two it thinks it is; it owns its allocator in both.   *)
(* The third mode, LEARN, is the encoder's, whose taggers never leave it.  *)
(***************************************************************************)
EXTENDS Naturals

CONSTANTS
  MaxOpened   \* bound: the indexes made and not yet deleted

ASSUME MaxOpenedAssumption == MaxOpened \in Nat \ {0}

VARIABLES
  mode_,            \* "TEST" or "TEST_SHARED"
  feature_index_,   \* "none", "own", "unread" (its own, but open failed) or "model"
  allocator_,       \* whether it has one
  opened,           \* the indexes it has made and not deleted
  modelDeleted      \* whether it has deleted the index of the Model

models == <<mode_, feature_index_, allocator_, opened, modelDeleted>>

--------------------------------------------------------------------------
\* The tagger is from createTagger, or from Model::createTagger.
InitModel ==
  /\ \/ mode_ = "TEST" /\ feature_index_ = "own" /\ opened = 1
     \/ mode_ = "TEST_SHARED" /\ feature_index_ = "model" /\ opened = 0
  /\ allocator_ = TRUE
  /\ modelDeleted = FALSE

Own(index) == index \in {"own", "unread"}

\* Mutant of Deletes: what set_model and close delete does not depend on the mode.
DeletesInAnyMode(m) == TRUE

\* Whether the index is deleted in mode m.
Deletes(m) == m = "TEST"

\* The indexes left when an index is deleted, or not.
LeftOf(m) == IF Deletes(m) /\ Own(feature_index_) THEN opened - 1 ELSE opened

DeletedOf(m) == modelDeleted \/ (Deletes(m) /\ feature_index_ = "model")

\* close, which every open begins with (with bad options it ends there), and the
\* destructor is.
close ==
  /\ feature_index_' = IF Deletes(mode_) THEN "none" ELSE feature_index_
  /\ allocator_' = FALSE
  /\ opened' = LeftOf(mode_) /\ modelDeleted' = DeletedOf(mode_)
  /\ UNCHANGED mode_

\* open of a model file: mode_ stays as it is.
open ==
  /\ LeftOf(mode_) < MaxOpened
  /\ feature_index_' = "own" /\ allocator_' = TRUE
  /\ opened' = LeftOf(mode_) + 1 /\ modelDeleted' = DeletedOf(mode_)
  /\ UNCHANGED mode_

\* The file is bad: close once more, which deletes the new index if the mode is TEST.
openFails ==
  /\ LeftOf(mode_) < MaxOpened
  /\ feature_index_' = IF Deletes(mode_) THEN "none" ELSE "unread"
  /\ allocator_' = FALSE
  /\ opened' = IF Deletes(mode_) THEN LeftOf(mode_) ELSE LeftOf(mode_) + 1
  /\ modelDeleted' = DeletedOf(mode_)
  /\ UNCHANGED mode_

\* The allocator is used again: there is none when the tagger is closed.
set_model ==
  /\ opened' = LeftOf(mode_) /\ modelDeleted' = DeletedOf(mode_)
  /\ mode_' = "TEST_SHARED" /\ feature_index_' = "model"
  /\ UNCHANGED allocator_

\* It can be given a sentence.
Usable == feature_index_ \in {"own", "model"} /\ allocator_

--------------------------------------------------------------------------
\* A tagger never deletes the index of a Model, which other taggers read; and an
\* index it has made is the one it has, or deleted, as long as it has not been
\* given a shared one: after that an index it opens is never deleted.
DeletesItsOwn ==
  /\ ~modelDeleted
  /\ mode_ = "TEST" => opened = IF feature_index_ = "own" THEN 1 ELSE 0
====
