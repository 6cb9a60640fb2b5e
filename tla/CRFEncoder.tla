---- MODULE CRFEncoder ----
(***************************************************************************)
(* Encoder::learn of CRF++ with runCRF: how the model of the role tagger   *)
(* is trained.  The training file is read into a list of sentences, each   *)
(* with the id of the thread that will work on it.  In every round         *)
(* thread_num threads go through the list, thread k from index k on in     *)
(* steps of thread_num; for each sentence a thread builds a lattice, costs *)
(* it with the weights alpha and adds to its own part of the gradient.     *)
(* Then the parts are added up and L-BFGS makes new weights.               *)
(*                                                                         *)
(* The nodes of a lattice come from free lists, one per thread id, which   *)
(* are emptied before each lattice: pool says whose lattice their nodes    *)
(* hold.  Numbers are left out: a part of the gradient is how often each   *)
(* sentence is in it, the weights are how often they were written, and the *)
(* tests on them are nondeterministic.                                     *)
(***************************************************************************)
EXTENDS Naturals, Sequences

CONSTANTS
  Corpora,      \* the training files: what read finds in them, in order
  ThreadNums,   \* the numbers of threads
  maxitr        \* the most rounds

\* A sentence is kept, is empty, or fails to be read.
Kinds == {"sentence", "empty", "bad"}

\* A training file is a list of sentences.
ASSUME CorporaAssumption == Corpora \subseteq Seq(Kinds)

\* learn refuses 0 threads.
ASSUME ThreadNumsAssumption == ThreadNums \subseteq Nat \ {0}

VARIABLES
  thread_num,
  unread,       \* what is left of the training file
  line,         \* the sentences kept so far
  x,            \* the sentences, as their thread ids; x[i + 1] has index i
  pool,         \* by thread id: the sentence whose lattice its nodes hold
  thread,       \* the threads of runCRF
  phase, t,     \* where learn is, and its loop over the threads
  alpha,        \* how often the weights were written
  itr, converge,
  deleted       \* how often each sentence of x was deleted

corpus == <<thread_num, unread, line, x>>
loop   == <<alpha, itr, converge, deleted>>
vars   == <<corpus, pool, thread, phase, t, loop>>

--------------------------------------------------------------------------
Ids       == 0..(thread_num - 1)
Sentences == 0..(Len(x) - 1)
Nobody    == [s \in Sentences |-> 0]

Init ==
  /\ thread_num \in ThreadNums
  /\ unread \in Corpora
  /\ line = 0 /\ x = <<>>
  /\ pool = [k \in Ids |-> 0]
  /\ thread = [k \in Ids |-> [at |-> "new", i |-> k, sum |-> <<>>, used |-> {}]]
  /\ phase = "reading" /\ t = 0
  /\ alpha = 0 /\ itr = 0 /\ converge = 0 /\ deleted = 0

Reading(kind) == phase = "reading" /\ unread # <<>> /\ Head(unread) = kind

KeepSentence ==
  /\ Reading("sentence")
  /\ x' = Append(x, line % thread_num)
  /\ line' = line + 1
  /\ unread' = Tail(unread)
  /\ UNCHANGED <<thread_num, pool, thread, phase, t, loop>>

\* Mutant of DropEmpty: the empty sentence is counted.
DropEmptyCounted ==
  /\ Reading("empty")
  /\ line' = line + 1
  /\ unread' = Tail(unread)
  /\ UNCHANGED <<thread_num, x, pool, thread, phase, t, loop>>

DropEmpty ==
  /\ Reading("empty")
  /\ unread' = Tail(unread)
  /\ UNCHANGED <<thread_num, line, x, pool, thread, phase, t, loop>>

\* Mutant of Fail: the sentences are not deleted.
FailKeepingAll ==
  /\ phase' = "failed"
  /\ UNCHANGED deleted

\* WHAT_ERROR: all sentences are deleted, and learn returns false.
Fail ==
  /\ phase' = "failed"
  /\ deleted' = deleted + 1

ReadFails ==
  /\ Reading("bad")
  /\ Fail
  /\ UNCHANGED <<corpus, pool, thread, t, alpha, itr, converge>>

\* The loop over the rounds: whether there is another one after n of them.
Round(n) == phase' = IF n < maxitr THEN "starting" ELSE "deleting"

\* The threads are made once, with their share of the sentences.
StopReading ==
  /\ phase = "reading" /\ unread = <<>>
  /\ thread' = [k \in Ids |-> [at |-> "new", i |-> k, sum |-> Nobody, used |-> {}]]
  /\ Round(0)
  /\ UNCHANGED <<corpus, pool, t, loop>>

--------------------------------------------------------------------------
\* Mutant of StartThread: the last thread is not started.
StartThreadButLast ==
  /\ phase = "starting"
  /\ thread' = IF t + 1 < thread_num THEN [thread EXCEPT ![t].at = "started"] ELSE thread
  /\ t' = (t + 1) % thread_num
  /\ phase' = IF t + 1 < thread_num THEN "starting" ELSE "joining"
  /\ UNCHANGED <<corpus, pool, loop>>

StartThread ==
  /\ phase = "starting"
  /\ thread' = [thread EXCEPT ![t].at = "started"]
  /\ t' = (t + 1) % thread_num
  /\ phase' = IF t + 1 < thread_num THEN "starting" ELSE "joining"
  /\ UNCHANGED <<corpus, pool, loop>>

JoinThread ==
  /\ phase = "joining" /\ thread[t].at = "ended"
  /\ t' = (t + 1) % thread_num
  /\ phase' = IF t + 1 < thread_num THEN "joining" ELSE "adding"
  /\ UNCHANGED <<corpus, pool, thread, loop>>

--------------------------------------------------------------------------
\* CRFEncoderThread::run of thread k, a step for each use of what threads share.
Run(k, at) == k \in Ids /\ thread[k].at = at

\* Mutant of Clear: the part of the gradient is not cleared.
ClearNothing(k) ==
  /\ Run(k, "started")
  /\ thread' = [thread EXCEPT ![k].i = k, ![k].used = {}, ![k].at = "next"]
  /\ UNCHANGED <<corpus, pool, phase, t, loop>>

Clear(k) ==
  /\ Run(k, "started")
  /\ thread' = [thread EXCEPT ![k] = [at |-> "next", i |-> k, sum |-> Nobody, used |-> {}]]
  /\ UNCHANGED <<corpus, pool, phase, t, loop>>

\* rebuildFeatures: the free lists of the sentence's thread id are emptied, and
\* its nodes taken from them.
rebuildFeatures(k) ==
  /\ Run(k, "next") /\ thread[k].i < Len(x)
  /\ pool' = [pool EXCEPT ![x[thread[k].i + 1]] = thread[k].i]
  /\ thread' = [thread EXCEPT ![k].at = "built"]
  /\ UNCHANGED <<corpus, phase, t, loop>>

calcCost(k) ==
  /\ Run(k, "built")
  /\ thread' = [thread EXCEPT ![k].used = @ \cup {alpha}, ![k].at = "costed"]
  /\ UNCHANGED <<corpus, pool, phase, t, loop>>

\* forwardbackward, calcExpectation, viterbi and eval, and on to the next sentence.
gradient(k) ==
  /\ Run(k, "costed")
  /\ thread' = [thread EXCEPT ![k].sum[thread[k].i] = @ + 1,
                              ![k].i = @ + thread_num, ![k].at = "next"]
  /\ UNCHANGED <<corpus, pool, phase, t, loop>>

End(k) ==
  /\ Run(k, "next") /\ thread[k].i >= Len(x)
  /\ thread' = [thread EXCEPT ![k].at = "ended"]
  /\ UNCHANGED <<corpus, pool, phase, t, loop>>

Thread(k) == Clear(k) \/ rebuildFeatures(k) \/ calcCost(k) \/ gradient(k) \/ End(k)

--------------------------------------------------------------------------
\* The part of thread t is added to that of thread 0; the loops start at 1.
AddPart ==
  /\ phase = "adding"
  /\ thread' = IF t = 0 THEN thread
               ELSE [thread EXCEPT ![0].sum =
                       [s \in Sentences |-> thread[0].sum[s] + thread[t].sum[s]]]
  /\ t' = (t + 1) % thread_num
  /\ phase' = IF t + 1 < thread_num THEN "adding" ELSE "checking"
  /\ UNCHANGED <<corpus, pool, loop>>

\* Three rounds in a row have changed the objective by less than eta.
Stop ==
  /\ phase = "checking" /\ converge = 2
  /\ converge' = 3
  /\ phase' = "deleting"
  /\ UNCHANGED <<corpus, pool, thread, t, alpha, itr, deleted>>

Checked == converge' \in {0} \cup {c \in {converge + 1} : c # 3}

Optimize ==
  /\ phase = "checking" /\ Checked
  /\ alpha' = alpha + 1
  /\ itr' = itr + 1
  /\ Round(itr + 1)
  /\ UNCHANGED <<corpus, pool, thread, t, deleted>>

\* lbfgs.optimize gives up: runCRF returns false.
OptimizeFails ==
  /\ phase = "checking" /\ Checked
  /\ Fail
  /\ UNCHANGED <<corpus, pool, thread, t, alpha, itr>>

DeleteSentences ==
  /\ phase = "deleting"
  /\ deleted' = deleted + 1
  /\ phase' = "saving"
  /\ UNCHANGED <<corpus, pool, thread, t, alpha, itr, converge>>

Save ==
  /\ phase = "saving"
  /\ phase' = "done"
  /\ UNCHANGED <<corpus, pool, thread, t, loop>>

\* The error path is that of the others, and deletes the sentences again.
SaveFails ==
  /\ phase = "saving"
  /\ Fail
  /\ UNCHANGED <<corpus, pool, thread, t, alpha, itr, converge>>

Learn ==
  \/ KeepSentence \/ DropEmpty \/ ReadFails \/ StopReading
  \/ StartThread \/ JoinThread \/ AddPart
  \/ Stop \/ Optimize \/ OptimizeFails
  \/ DeleteSentences \/ Save \/ SaveFails

Next == Learn \/ \E k \in Ids : Thread(k)

\* learn only waits in join, and the system runs every thread that can go on.
Fairness ==
  WF_vars(Learn) /\ \A k \in UNION {0..(n - 1) : n \in ThreadNums} : WF_vars(Thread(k))

Spec == Init /\ [][Next]_vars /\ Fairness

--------------------------------------------------------------------------
\* The variables of learn and of the threads keep their types: each sentence has
\* the id of a thread, and a thread works on a sentence of the list.
TypeOK ==
  /\ thread_num \in ThreadNums
  /\ unread \in Seq(Kinds)
  /\ line \in Nat
  /\ x \in Seq(Ids)
  /\ pool \in [Ids -> Nat]
  /\ phase \in {"reading", "starting", "joining", "adding", "checking",
                "deleting", "saving", "done", "failed"}
  /\ t \in Ids
  /\ alpha \in Nat /\ itr \in Nat /\ converge \in 0..3 /\ deleted \in 0..2
  /\ DOMAIN thread = Ids
  /\ \A k \in Ids : thread[k].at # "new" => thread[k] \in
       [at : {"started", "next", "built", "costed", "ended"}, i : Nat,
        sum : [Sentences -> Nat], used : SUBSET Nat]

\* From the moment a thread has built the lattice of its sentence to the moment it
\* has added it to the gradient, no other thread takes the nodes for another one:
\* the id a sentence was given when it was read is that of the thread whose turn
\* it is, empty sentences or not.
LatticesStayWhole ==
  \A k \in Ids : thread[k].at \in {"built", "costed"} =>
    /\ thread[k].i < Len(x)
    /\ pool[x[thread[k].i + 1]] = thread[k].i

\* What L-BFGS is given has every sentence once, all at the weights of this round:
\* nothing is left over from the round before, missing or counted twice.
GradientIsWhole ==
  phase = "checking" =>
    /\ \A s \in Sentences : thread[0].sum[s] = 1
    /\ \A k \in Ids : thread[k].used \subseteq {alpha}

\* When learn returns it has deleted each sentence once, unless the model could not
\* be saved: then it deletes them twice.
SentencesAreDeleted ==
  phase \in {"done", "failed"} =>
    \/ deleted = 1
    \/ deleted = 2 /\ phase = "failed"

\* learn returns, whatever the threads and the optimizer do.
Terminates == <>(phase \in {"done", "failed"})
====
