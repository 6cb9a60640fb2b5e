---- MODULE CRFTraining ----
(***************************************************************************)
(* runCRF with its optimizer: every round of CRFEncoder that does not stop *)
(* calls lbfgs.optimize once, and goes on when that returns 1.             *)
(***************************************************************************)
EXTENDS CRFEncoder

CONSTANTS size, msize, maxfev

VARIABLES calls, returned, iter, point, w, made, search, starts

O == INSTANCE LBFGS WITH MaxCalls <- maxitr

optimizer    == <<calls, returned, iter, point, w, made, search, starts>>
trainingVars == <<vars, optimizer>>

TrainingInit == Init /\ O!Init

RoundEnds == O!Next /\ IF returned' > 0 THEN Optimize ELSE OptimizeFails

OtherSteps ==
  /\ \/ KeepSentence \/ DropEmpty \/ ReadFails \/ StopReading
     \/ StartThread \/ JoinThread \/ AddPart
     \/ Stop \/ DeleteSentences \/ Save \/ SaveFails
     \/ \E k \in Ids : Thread(k)
  /\ UNCHANGED optimizer

TrainingSpec == TrainingInit /\ [][RoundEnds \/ OtherSteps]_trainingVars

--------------------------------------------------------------------------
\* lbfgs.cpp says of the return at a small gradient "OK terminated", and lbfgs.h
\* returns 0 for it, "terminate": a training that ends there does not fail.
OkIsNoFailure == phase = "failed" => returned # 0
====
