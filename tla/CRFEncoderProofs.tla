---- MODULE CRFEncoderProofs ----
(***************************************************************************)
(* Proofs about CRFEncoder, for every training file, every number of       *)
(* threads and every number of rounds.                                     *)
(***************************************************************************)
EXTENDS CRFEncoder, Integers, TLAPS

\* What runCRF makes of a thread before it starts any.
Made == [at : {"new", "started", "next", "built", "costed", "ended"}, i : Nat,
         sum : [Sentences -> Nat], used : SUBSET Nat]

\* Where the threads are in each phase of learn.
Placed ==
  /\ phase \notin {"starting", "joining", "adding"} => t = 0
  /\ phase = "reading" => \A k \in Ids : thread[k].at = "new"
  /\ phase \in {"starting", "joining", "adding", "checking"} => thread \in [Ids -> Made]
  /\ phase = "starting" => \A k \in Ids :
       IF k < t THEN thread[k].at # "new" ELSE thread[k].at \in {"new", "ended"}
  /\ phase = "joining" => \A k \in Ids :
       thread[k].at # "new" /\ (k < t => thread[k].at = "ended")
  /\ phase \in {"adding", "checking"} => \A k \in Ids : thread[k].at = "ended"
  /\ phase \in {"deleting", "saving", "done", "failed"} =>
       \A k \in Ids : thread[k].at \in {"new", "ended"}

\* The count of the sentences gives each the id of the thread whose turn it is.
Given == line = Len(x) /\ \A i \in Sentences : x[i + 1] = i % thread_num

\* Thread k has begun this round, and its part is not yet added to that of others.
Begun(k) ==
  \/ thread[k].at \in {"next", "built", "costed"}
  \/ /\ thread[k].at = "ended"
     /\ \/ phase = "joining"
        \/ phase = "starting" /\ k < t
        \/ phase = "adding" /\ k > 0

\* The sentences of id k up to the one a thread works on are in its part once.
Shares ==
  \A k \in Ids : Begun(k) =>
    /\ thread[k].i % thread_num = k
    /\ thread[k].at \in {"built", "costed"} => thread[k].i < Len(x)
    /\ thread[k].at = "ended" => thread[k].i >= Len(x)
    /\ thread[k].used \subseteq {alpha}
    /\ \A s \in Sentences :
         thread[k].sum[s] = IF s % thread_num = k /\ s < thread[k].i THEN 1 ELSE 0

\* The parts of the threads before t are added up.
Added ==
  phase = "adding" =>
    /\ \A k \in Ids : thread[k].used \subseteq {alpha}
    /\ \A s \in Sentences :
         thread[0].sum[s] = IF s % thread_num < t \/ s % thread_num = 0 THEN 1 ELSE 0

\* The loop goes on until three rounds in a row have changed little, and sentences
\* are deleted behind it.
Counted ==
  /\ phase \in {"reading", "starting", "joining", "adding", "checking"} => converge < 3
  /\ deleted = CASE phase \in {"saving", "done"} -> 1
                 [] phase = "failed" -> IF deleted = 2 THEN 2 ELSE 1
                 [] OTHER -> 0

\* The inductive invariant.
IInv ==
  /\ TypeOK /\ Placed /\ Given /\ Shares /\ LatticesStayWhole
  /\ Added /\ GradientIsWhole /\ Counted

--------------------------------------------------------------------------
\* A thread id is one of the n there are.
LEMMA ModRange ==
  ASSUME NEW n \in Nat \ {0}, NEW i \in Nat
  PROVE  i % n \in 0..(n - 1) /\ (i < n => i % n = i)
OBVIOUS

\* Division with remainder.
LEMMA Quotient ==
  ASSUME NEW n \in Nat \ {0}, NEW i \in Nat
  PROVE  i \div n \in Int /\ i = n * (i \div n) + (i % n)
OBVIOUS

\* Between -n and n lies no other multiple of n than 0.
LEMMA NoMultiple ==
  ASSUME NEW n \in Nat \ {0}, NEW q \in Int, n * q < n, - n < n * q
  PROVE  q = 0
<1>1. CASE q >= 1
  BY <1>1, n * q >= n
<1>2. CASE q <= -1
  BY <1>2, n * q <= -n
<1>. QED BY <1>1, <1>2

\* Quotient and remainder are unique.
LEMMA Remainder ==
  ASSUME NEW n \in Nat \ {0}, NEW q \in Int, NEW p \in Int, NEW r \in 0..(n - 1), NEW s \in 0..(n - 1),
         n * q + r = n * p + s
  PROVE  q = p /\ r = s
<1>1. n * (q - p) = s - r /\ q - p \in Int
  OBVIOUS
<1>. DEFINE d == q - p
<1>2. d \in Int /\ n * d < n /\ -n < n * d
  BY <1>1
<1>. HIDE DEF d
<1>3. d = 0
  BY <1>2, NoMultiple
<1>. QED BY <1>3 DEF d

\* A thread stays with the sentences of its own id when it goes on by n.
LEMMA ModAdd ==
  ASSUME NEW n \in Nat \ {0}, NEW i \in Nat
  PROVE  (i + n) % n = i % n
<1>1. i + n = n * ((i + n) \div n) + ((i + n) % n) /\ (i + n) \div n \in Int
  BY Quotient
<1>2. i + n = n * (i \div n + 1) + (i % n) /\ i \div n \in Int
  BY Quotient
<1>3. (i + n) % n \in 0..(n - 1) /\ i % n \in 0..(n - 1)
  BY ModRange
<1>. DEFINE q == (i + n) \div n
            p == i \div n + 1
            r == (i + n) % n
            s == i % n
<1>4. /\ q \in Int /\ p \in Int /\ r \in 0..(n - 1)
      /\ s \in 0..(n - 1) /\ n * q + r = n * p + s
  BY <1>1, <1>2, <1>3
<1>. HIDE DEF q, p, r, s
<1>5. r = s
  BY <1>4, Remainder
<1>. QED BY <1>5 DEF r, s

\* It skips no sentence of its id.
LEMMA ModGap ==
  ASSUME NEW n \in Nat \ {0}, NEW i \in Nat, NEW s \in Nat, i % n = s % n, i < s
  PROVE  i + n <= s
<1>1. s - i = n * (s \div n - i \div n) /\ s \div n - i \div n \in Int
  BY Quotient
<1>. DEFINE q == s \div n - i \div n
<1>. HIDE DEF q
<1>2. q # 0 => s - i >= n
  BY <1>1, NoMultiple DEF q
<1>. QED BY <1>1, <1>2 DEF q

--------------------------------------------------------------------------
\* Thread numbers, lengths and ids are numbers, and each sentence has an id.
LEMMA Basics ==
  ASSUME IInv
  PROVE  /\ thread_num \in Nat \ {0} /\ Len(x) \in Nat /\ t \in Ids /\ 0 \in Ids
         /\ \A i \in Sentences : x[i + 1] = i % thread_num /\ i % thread_num \in Ids
<1>1. thread_num \in Nat \ {0} /\ x \in Seq(Ids) /\ t \in Ids
  BY ThreadNumsAssumption DEF IInv, TypeOK
<1>2. Len(x) \in Nat
  BY <1>1
<1>3. ASSUME NEW i \in Sentences PROVE i % thread_num \in Ids
  <2>1. i \in Nat
    BY <1>2 DEF Sentences
  <2>2. i % thread_num \in 0..(thread_num - 1)
    BY <1>1, <2>1, ModRange
  <2>. QED BY <2>2 DEF Ids
<1>. QED BY <1>1, <1>2, <1>3 DEF IInv, Given, Ids

\* The invariant holds before anything is read.
LEMMA InitIInv == Init => IInv
<1>. SUFFICES ASSUME Init PROVE IInv
  OBVIOUS
<1>1. thread_num \in Nat \ {0}
  BY ThreadNumsAssumption DEF Init
<1>2. TypeOK
  BY <1>1, CorporaAssumption DEF Init, TypeOK, Ids
<1>3. Len(x) = 0 /\ Sentences = {}
  BY DEF Init, Sentences
<1>4. \A k \in Ids : thread[k].at = "new" /\ ~Begun(k)
  BY DEF Init, Begun
<1>5. Placed /\ Given /\ Shares /\ LatticesStayWhole /\ Added /\ GradientIsWhole /\ Counted
  BY <1>3, <1>4 DEF Init, Placed, Given, Shares, LatticesStayWhole, Added, GradientIsWhole,
                    Counted
<1>. QED BY <1>2, <1>5 DEF IInv

\* Reading: no thread has begun, so only the list of sentences matters.
LEMMA ReadingKeeps ==
  IInv /\ (KeepSentence \/ DropEmpty \/ ReadFails \/ StopReading) => IInv'
<1>. USE DEF IInv, Reading, Fail, corpus, loop
<1>1. ASSUME IInv, KeepSentence PROVE IInv'
  <2>1. /\ thread_num' = thread_num /\ Len(x) \in Nat /\ line = Len(x)
        /\ line % thread_num \in Ids /\ Ids' = Ids
    BY <1>1, Basics, ModRange DEF KeepSentence, Given, Ids
  <2>2. /\ x' \in Seq(Ids) /\ Len(x') = Len(x) + 1
        /\ \A i \in 0..Len(x) : x'[i + 1] = IF i < Len(x) THEN x[i + 1] ELSE i % thread_num
    BY <1>1, <2>1 DEF KeepSentence, TypeOK
  <2>3. Given'
    BY <1>1, <2>1, <2>2 DEF Given, Sentences, KeepSentence
  <2>4. phase = "reading" /\ \A k \in Ids : thread[k].at = "new"
    BY <1>1 DEF KeepSentence, Placed
  <2>5. TypeOK'
    BY <1>1, <2>1, <2>2, <2>4 DEF KeepSentence, TypeOK
  <2>6. Placed' /\ Added' /\ GradientIsWhole' /\ Counted'
    BY <1>1, <2>1, <2>4 DEF KeepSentence, Placed, Added, GradientIsWhole, Counted
  <2>7. Shares' /\ LatticesStayWhole'
    BY <1>1, <2>1, <2>4 DEF KeepSentence, Shares, LatticesStayWhole, Begun
  <2>. QED BY <2>3, <2>5, <2>6, <2>7
<1>2. ASSUME IInv, DropEmpty PROVE IInv'
  <2>1. TypeOK'
    BY <1>2 DEF DropEmpty, TypeOK, Ids, Sentences
  <2>2. Given' /\ Placed' /\ Added' /\ GradientIsWhole' /\ Counted'
    BY <1>2 DEF DropEmpty, Given, Placed, Added, GradientIsWhole, Counted, Ids, Sentences
  <2>3. Shares' /\ LatticesStayWhole'
    BY <1>2 DEF DropEmpty, Shares, LatticesStayWhole, Begun, Ids, Sentences
  <2>. QED BY <2>1, <2>2, <2>3
<1>3. ASSUME IInv, ReadFails PROVE IInv'
  <2>1. phase = "reading" /\ deleted = 0 /\ \A k \in Ids : thread[k].at = "new"
    BY <1>3 DEF ReadFails, Placed, Counted
  <2>2. TypeOK'
    BY <1>3, <2>1 DEF ReadFails, TypeOK, Ids, Sentences
  <2>3. Given' /\ Placed' /\ Added' /\ GradientIsWhole' /\ Counted'
    BY <1>3, <2>1
       DEF ReadFails, Given, Placed, Added, GradientIsWhole, Counted, Ids, Sentences
  <2>4. Shares' /\ LatticesStayWhole'
    BY <1>3, <2>1 DEF ReadFails, Shares, LatticesStayWhole, Begun, Ids, Sentences
  <2>. QED BY <2>2, <2>3, <2>4
<1>4. ASSUME IInv, StopReading PROVE IInv'
  <2>1. /\ phase = "reading" /\ phase' \in {"starting", "deleting"} /\ t = 0
        /\ \A k \in Ids' : thread'[k].at = "new"
        /\ thread' \in [Ids' -> Made']
    BY <1>4, Basics DEF StopReading, Round, Placed, Ids, Made, Nobody, Sentences
  <2>2. TypeOK'
    BY <1>4, <2>1 DEF StopReading, TypeOK, Ids, Sentences
  <2>3. Given' /\ Placed' /\ Added' /\ GradientIsWhole' /\ Counted'
    BY <1>4, <2>1
       DEF StopReading, Given, Placed, Added, GradientIsWhole, Counted, Ids, Sentences
  <2>4. Shares' /\ LatticesStayWhole'
    BY <1>4, <2>1 DEF StopReading, Shares, LatticesStayWhole, Begun, Ids, Sentences
  <2>. QED BY <2>2, <2>3, <2>4
<1>. QED BY <1>1, <1>2, <1>3, <1>4

\* learn starts the threads one by one, and waits for them in the same order.
LEMMA StartJoinKeep ==
  IInv /\ (StartThread \/ JoinThread) => IInv'
<1>. USE DEF IInv, corpus, loop
<1>1. ASSUME IInv, StartThread PROVE IInv'
  <2>1. /\ thread_num \in Nat \ {0} /\ t \in Ids /\ phase = "starting"
        /\ t' = (t + 1) % thread_num /\ t + 1 <= thread_num
    BY <1>1, Basics DEF StartThread, Ids
  <2>2. IF t + 1 < thread_num THEN t' = t + 1 /\ phase' = "starting"
                              ELSE t' = 0 /\ phase' = "joining"
    BY <1>1, <2>1 DEF StartThread, Ids
  <2>3. /\ thread_num' = thread_num /\ x' = x /\ Ids' = Ids /\ Sentences' = Sentences
        /\ pool' = pool /\ alpha' = alpha /\ Made' = Made
        /\ thread' \in [Ids -> Made] /\ thread'[t].at = "started"
        /\ \A k \in Ids : k # t => thread'[k] = thread[k]
    BY <1>1, Basics DEF StartThread, Ids, Sentences, Placed, Made
  <2>4. TypeOK'
    <3>1. \A k \in Ids : thread'[k].at # "new" => thread'[k] \in
            [at : {"started", "next", "built", "costed", "ended"}, i : Nat,
             sum : [Sentences -> Nat], used : SUBSET Nat]
      BY <2>3 DEF Made
    <3>2. DOMAIN thread' = Ids /\ t' \in Ids
          /\ phase' \in {"starting", "joining"}
      BY <2>1, <2>2, <2>3 DEF Ids
    <3>. QED BY <1>1, <2>3, <3>1, <3>2 DEF StartThread, TypeOK
  <2>5. Placed'
    BY <1>1, <2>1, <2>2, <2>3 DEF Placed, Ids
  <2>6. Shares' /\ LatticesStayWhole'
    BY <1>1, <2>1, <2>2, <2>3 DEF Placed, Shares, LatticesStayWhole, Begun, Ids
  <2>7. Given' /\ Added' /\ GradientIsWhole' /\ Counted'
    BY <1>1, <2>2, <2>3 DEF StartThread, Given, Added, GradientIsWhole, Counted
  <2>. QED BY <2>4, <2>5, <2>6, <2>7
<1>2. ASSUME IInv, JoinThread PROVE IInv'
  <2>1. /\ thread_num \in Nat \ {0} /\ t \in Ids /\ phase = "joining"
        /\ t' = (t + 1) % thread_num /\ t + 1 <= thread_num
    BY <1>2, Basics DEF JoinThread, Ids
  <2>2. IF t + 1 < thread_num THEN t' = t + 1 /\ phase' = "joining"
                              ELSE t' = 0 /\ phase' = "adding"
    BY <1>2, <2>1 DEF JoinThread, Ids
  <2>3. /\ thread_num' = thread_num /\ x' = x /\ Ids' = Ids /\ Sentences' = Sentences
        /\ pool' = pool /\ alpha' = alpha /\ thread' = thread
    BY <1>2 DEF JoinThread, Ids, Sentences
  <2>4. TypeOK'
    BY <1>2, <2>1, <2>2, <2>3 DEF JoinThread, TypeOK, Ids
  <2>5. Placed'
    <3>1. Made' = Made
      BY <2>3 DEF Made
    <3>. QED BY <1>2, <2>1, <2>2, <2>3, <3>1 DEF Placed, Ids, JoinThread
  <2>6. Shares' /\ LatticesStayWhole'
    BY <1>2, <2>1, <2>2, <2>3 DEF Shares, LatticesStayWhole, Begun
  <2>7. Added'
    <3>. SUFFICES ASSUME phase' = "adding"
                  PROVE  Added'
      BY DEF Added
    <3>1. t' = 0 /\ \A k \in Ids : thread[k].at = "ended" /\ Begun(k)
      BY <1>2, <2>1, <2>2 DEF JoinThread, Placed, Begun, Ids
    <3>2. \A k \in Ids : thread[k].used \subseteq {alpha} /\ thread[k].i >= Len(x)
      BY <1>2, <3>1 DEF Shares
    <3>3. thread[0].i \in Nat /\ 0 \in Ids
      BY <1>2, <2>1, <3>1 DEF TypeOK, Ids
    <3>4. \A s \in Sentences : thread[0].sum[s] = IF s % thread_num = 0 THEN 1 ELSE 0
      BY <1>2, <3>1, <3>2, <3>3, Basics DEF Shares, Sentences
    <3>5. \A s \in Sentences : ~(s % thread_num < 0)
      BY <1>2, Basics DEF Ids
    <3>. QED BY <2>3, <3>1, <3>2, <3>4, <3>5 DEF Added
  <2>8. Given' /\ GradientIsWhole' /\ Counted'
    BY <1>2, <2>2, <2>3 DEF JoinThread, Given, GradientIsWhole, Counted
  <2>. QED BY <2>4, <2>5, <2>6, <2>7, <2>8
<1>. QED BY <1>1, <1>2

\* A count stays a count.
LEMMA CountOne ==
  ASSUME NEW S, NEW f \in [S -> Nat], NEW i \in S
  PROVE  [f EXCEPT ![i] = @ + 1] \in [S -> Nat]
<1>1. f[i] + 1 \in Nat
  OBVIOUS
<1>. QED BY <1>1

\* A step of thread k: what it leaves alone, and that learn is waiting for it.
LEMMA ThreadSteps ==
  ASSUME IInv, NEW k \in Ids, Thread(k)
  PROVE  /\ thread_num' = thread_num /\ x' = x /\ t' = t /\ phase' = phase
         /\ alpha' = alpha /\ Ids' = Ids /\ Sentences' = Sentences /\ Made' = Made
         /\ UNCHANGED <<unread, line, itr, converge, deleted>>
         /\ phase = "joining" \/ (phase = "starting" /\ k < t)
         /\ thread[k] \in Made /\ thread[k].at \notin {"new", "ended"}
         /\ \A j \in Ids : j # k => thread'[j] = thread[j]
         /\ DOMAIN thread' = Ids
         /\ thread'[k] \in Made /\ thread'[k].at \notin {"new", "started"}
<1>1. thread[k].at \notin {"new", "ended"} /\ DOMAIN thread = Ids
  BY DEF IInv, TypeOK, Thread, Clear, rebuildFeatures, calcCost, gradient, End, Run
<1>2. thread[k] \in Made
  BY <1>1 DEF IInv, TypeOK, Made
<1>3. phase = "joining" \/ (phase = "starting" /\ k < t)
  BY <1>1 DEF IInv, Placed, TypeOK
<1>4. /\ UNCHANGED <<corpus, phase, t, loop>> /\ DOMAIN thread' = Ids
      /\ \A j \in Ids : j # k => thread'[j] = thread[j]
  BY <1>1 DEF Thread, Clear, rebuildFeatures, calcCost, gradient, End, Run
<1>5. thread'[k] \in Made /\ thread'[k].at \notin {"new", "started"}
  <2>1. CASE Clear(k)
    BY <1>1, <2>1, Basics DEF Clear, Made, Nobody, Ids
  <2>2. CASE rebuildFeatures(k)
    BY <1>1, <1>2, <2>2 DEF rebuildFeatures, Made
  <2>3. CASE calcCost(k)
    BY <1>1, <1>2, <2>3 DEF calcCost, Made, IInv, TypeOK
  <2>4. CASE gradient(k)
    <3>1. /\ thread'[k].at = "next" /\ thread'[k].used = thread[k].used
          /\ thread'[k].i = thread[k].i + thread_num
          /\ thread'[k].sum = [thread[k].sum EXCEPT ![thread[k].i] = @ + 1]
          /\ thread'[k] = [at |-> thread'[k].at, i |-> thread'[k].i,
                           sum |-> thread'[k].sum, used |-> thread'[k].used]
      BY <1>1, <1>2, <2>4 DEF gradient, Made
    <3>2. thread'[k].i \in Nat
      BY <1>2, <3>1, Basics DEF Made
    <3>3. thread'[k].sum \in [Sentences -> Nat]
      <4>1. thread[k].i \in Sentences
        BY <1>2, <2>4, Basics DEF gradient, Run, IInv, Shares, Begun, Made, Sentences
      <4>2. thread[k].sum \in [Sentences -> Nat]
        BY <1>2 DEF Made
      <4>. QED BY <3>1, <4>1, <4>2, CountOne
    <3>. QED BY <1>2, <3>1, <3>2, <3>3 DEF Made
  <2>5. CASE End(k)
    BY <1>1, <1>2, <2>5 DEF End, Made
  <2>. QED BY <2>1, <2>2, <2>3, <2>4, <2>5 DEF Thread
<1>. QED BY <1>1, <1>2, <1>3, <1>4, <1>5 DEF corpus, loop, Ids, Sentences, Made

\* The share of a thread after a step of it.
LEMMA ShareKeeps ==
  ASSUME IInv, NEW k \in Ids, Thread(k)
  PROVE  /\ Begun(k)'
         /\ thread'[k].i % thread_num = k
         /\ thread'[k].at \in {"built", "costed"} => thread'[k].i < Len(x)
         /\ thread'[k].at = "ended" => thread'[k].i >= Len(x)
         /\ thread'[k].used \subseteq {alpha}
         /\ \A s \in Sentences :
              thread'[k].sum[s] = IF s % thread_num = k /\ s < thread'[k].i THEN 1 ELSE 0
<1>1. /\ thread_num \in Nat \ {0} /\ Len(x) \in Nat /\ k \in 0..(thread_num - 1)
      /\ thread[k] \in Made /\ thread'[k] \in Made /\ DOMAIN thread = Ids
      /\ thread'[k].at \notin {"new", "started"}
      /\ phase' = phase /\ t' = t
      /\ phase = "joining" \/ (phase = "starting" /\ k < t)
  BY Basics, ThreadSteps DEF Ids, IInv, TypeOK
<1>2. Begun(k)'
  BY <1>1 DEF Begun, Made
<1>3. thread[k].at \in {"next", "built", "costed"} =>
        /\ Begun(k)
        /\ thread[k].i % thread_num = k
        /\ thread[k].at \in {"built", "costed"} => thread[k].i < Len(x)
        /\ thread[k].used \subseteq {alpha}
        /\ \A s \in Sentences :
             thread[k].sum[s] = IF s % thread_num = k /\ s < thread[k].i THEN 1 ELSE 0
  BY DEF IInv, Shares, Begun
<1>4. CASE Clear(k)
  <2>1. /\ thread'[k].at = "next" /\ thread'[k].i = k
        /\ thread'[k].sum = Nobody /\ thread'[k].used = {}
    BY <1>1, <1>4 DEF Clear
  <2>2. k % thread_num = k
    <3>1. k \in Nat /\ k < thread_num
      BY <1>1
    <3>. QED BY <1>1, <3>1, ModRange
  <2>3. ASSUME NEW s \in Sentences, s < k PROVE s % thread_num # k
    <3>1. s \in Nat /\ s < thread_num
      BY <1>1, <2>3 DEF Sentences
    <3>2. s % thread_num = s
      BY <1>1, <3>1, ModRange
    <3>. QED BY <1>1, <2>3, <3>1, <3>2
  <2>. QED BY <1>2, <2>1, <2>2, <2>3 DEF Nobody
<1>5. CASE rebuildFeatures(k) \/ calcCost(k) \/ End(k)
  <2>1. /\ thread'[k].i = thread[k].i /\ thread'[k].sum = thread[k].sum
        /\ thread'[k].used \subseteq thread[k].used \cup {alpha}
        /\ thread[k].at \in {"next", "built"}
        /\ thread'[k].at \in {"built", "costed"} => thread'[k].i < Len(x)
        /\ thread'[k].at = "ended" => thread'[k].i >= Len(x)
    BY <1>1, <1>3, <1>5 DEF rebuildFeatures, calcCost, End, Run, Made
  <2>. QED BY <1>2, <1>3, <2>1
<1>6. CASE gradient(k)
  <2>. DEFINE i == thread[k].i
  <2>1. /\ i \in Nat /\ i \in Sentences /\ i % thread_num = k /\ thread[k].at = "costed"
    BY <1>1, <1>3, <1>6 DEF gradient, Run, Made, Sentences
  <2>2. /\ thread'[k].at = "next" /\ thread'[k].i = i + thread_num
        /\ thread'[k].used = thread[k].used
        /\ thread'[k].sum = [thread[k].sum EXCEPT ![i] = @ + 1]
        /\ thread[k].sum \in [Sentences -> Nat]
    BY <1>1, <1>6, <2>1 DEF gradient, Made
  <2>3. (i + thread_num) % thread_num = k
    BY <1>1, <2>1, ModAdd
  <2>4. ASSUME NEW s \in Sentences
        PROVE  thread'[k].sum[s] =
                 IF s % thread_num = k /\ s < i + thread_num THEN 1 ELSE 0
    <3>1. s \in Nat
      BY <1>1 DEF Sentences
    <3>2. thread[k].sum[s] = IF s % thread_num = k /\ s < i THEN 1 ELSE 0
      BY <1>3, <2>1
    <3>3. CASE s = i
      <4>1. thread[k].sum[s] = 0 /\ s < i + thread_num /\ s % thread_num = k
        BY <1>1, <2>1, <3>2, <3>3
      <4>2. thread'[k].sum[s] = 1
        BY <2>1, <2>2, <3>3, <4>1
      <4>. QED BY <4>1, <4>2
    <3>4. CASE s # i
      <4>1. thread'[k].sum[s] = thread[k].sum[s]
        BY <2>2, <3>4
      <4>2. s % thread_num = k /\ s < i + thread_num => s < i
        BY <1>1, <2>1, <3>1, <3>4, ModGap
      <4>3. s < i => s < i + thread_num
        BY <1>1, <2>1, <3>1
      <4>. QED BY <3>2, <4>1, <4>2, <4>3
    <3>. QED BY <3>3, <3>4
  <2>. QED BY <1>2, <1>3, <2>1, <2>2, <2>3, <2>4
<1>. QED BY <1>4, <1>5, <1>6 DEF Thread

\* A step of a thread keeps the invariant; the nodes it takes are of its own id.
LEMMA ThreadKeeps ==
  ASSUME IInv, NEW k \in Ids, Thread(k)
  PROVE  IInv'
<1>1. /\ thread_num' = thread_num /\ x' = x /\ t' = t /\ phase' = phase
      /\ alpha' = alpha /\ Ids' = Ids /\ Sentences' = Sentences /\ Made' = Made
      /\ UNCHANGED <<unread, line, itr, converge, deleted>>
      /\ phase = "joining" \/ (phase = "starting" /\ k < t)
      /\ thread[k] \in Made /\ thread[k].at \notin {"new", "ended"}
      /\ \A j \in Ids : j # k => thread'[j] = thread[j]
      /\ DOMAIN thread' = Ids
      /\ thread'[k] \in Made /\ thread'[k].at \notin {"new", "started"}
  BY ThreadSteps
<1>2. /\ pool' \in [Ids -> Nat]
      /\ pool' # pool => rebuildFeatures(k)
  BY <1>1, Basics DEF Thread, Clear, rebuildFeatures, calcCost, gradient, End, IInv, TypeOK,
                       Made, Sentences
<1>3. TypeOK'
  <2>1. \A j \in Ids : thread'[j].at # "new" => thread'[j] \in
          [at : {"started", "next", "built", "costed", "ended"}, i : Nat,
           sum : [Sentences -> Nat], used : SUBSET Nat]
    BY <1>1 DEF IInv, TypeOK, Made
  <2>2. /\ thread_num' \in ThreadNums /\ unread' \in Seq(Kinds) /\ line' \in Nat
        /\ x' \in Seq(Ids') /\ pool' \in [Ids' -> Nat] /\ phase' = phase /\ t' \in Ids'
        /\ alpha' \in Nat /\ itr' \in Nat /\ converge' \in 0..3 /\ deleted' \in 0..2
        /\ DOMAIN thread' = Ids'
    BY <1>1, <1>2 DEF IInv, TypeOK
  <2>. QED BY <1>1, <2>1, <2>2 DEF IInv, TypeOK
<1>4. Placed'
  <2>1. thread' \in [Ids -> Made]
    <3>1. \A j \in Ids : thread'[j] \in Made
      BY <1>1 DEF IInv, Placed
    <3>2. thread' = [j \in Ids |-> thread'[j]]
      BY <1>1 DEF Thread, Clear, rebuildFeatures, calcCost, gradient, End, IInv, TypeOK
    <3>. QED BY <3>1, <3>2
  <2>. QED BY <1>1, <2>1 DEF IInv, Placed
<1>5. Given' /\ Counted'
  BY <1>1 DEF IInv, Given, Counted
<1>6. Added' /\ GradientIsWhole'
  BY <1>1 DEF Added, GradientIsWhole
<1>7. Shares'
  <2>1. \A j \in Ids : j # k => (Begun(j)' <=> Begun(j))
    BY <1>1 DEF Begun
  <2>. QED BY <1>1, <2>1, ShareKeeps DEF IInv, Shares
<1>8. LatticesStayWhole'
  <2>. SUFFICES ASSUME NEW j \in Ids, thread'[j].at \in {"built", "costed"}
                PROVE  /\ thread'[j].i < Len(x)
                       /\ pool'[x[thread'[j].i + 1]] = thread'[j].i
    BY <1>1 DEF LatticesStayWhole
  <2>1. thread[k].at \in {"next", "built"} => thread[k].i % thread_num = k /\ thread[k].i \in Nat
    BY <1>1 DEF IInv, Shares, Begun, Made
  <2>2. CASE j # k
    <3>1. /\ thread'[j] = thread[j] /\ thread[j].i \in Sentences
          /\ thread[j].i % thread_num = j
          /\ pool[x[thread[j].i + 1]] = thread[j].i
      BY <1>1, <2>2, Basics DEF IInv, TypeOK, Shares, Begun, LatticesStayWhole, Sentences
    <3>2. x[thread[j].i + 1] = j
      BY <3>1, Basics
    <3>3. pool'[j] = pool[j]
      <4>1. CASE rebuildFeatures(k)
        <5>1. thread[k].i \in Sentences /\ thread[k].i % thread_num = k
          BY <2>1, <4>1, Basics DEF rebuildFeatures, Run, Sentences
        <5>2. x[thread[k].i + 1] = k
          BY <5>1, Basics
        <5>. QED BY <2>2, <4>1, <5>2 DEF rebuildFeatures, IInv, TypeOK
      <4>2. CASE ~rebuildFeatures(k)
        <5>1. pool' = pool
          BY <1>2, <4>2
        <5>. QED BY <5>1
      <4>. QED BY <4>1, <4>2
    <3>. QED BY <3>1, <3>2, <3>3 DEF Sentences
  <2>3. CASE j = k /\ rebuildFeatures(k)
    <3>1. thread[k].i \in Sentences /\ thread'[k].i = thread[k].i
      BY <1>1, <2>1, <2>3, Basics DEF rebuildFeatures, Run, Sentences, Made, IInv, TypeOK
    <3>2. x[thread[k].i + 1] \in Ids
      BY <3>1, Basics
    <3>. QED BY <2>3, <3>1, <3>2, Basics DEF rebuildFeatures, IInv, TypeOK, Sentences
  <2>4. CASE j = k /\ ~rebuildFeatures(k)
    <3>1. calcCost(k)
      BY <1>1, <2>4 DEF Thread, Clear, gradient, End, IInv, TypeOK, Made
    <3>2. thread'[k].i = thread[k].i /\ thread[k].at = "built" /\ pool' = pool
      BY <1>1, <3>1 DEF calcCost, Run, IInv, TypeOK, Made
    <3>. QED BY <2>4, <3>2 DEF IInv, LatticesStayWhole
  <2>. QED BY <2>2, <2>3, <2>4
<1>. QED BY <1>3, <1>4, <1>5, <1>6, <1>7, <1>8 DEF IInv

\* Adding up the parts: behind the last one every sentence is counted.
LEMMA AddKeeps == IInv /\ AddPart => IInv'
<1>. SUFFICES ASSUME IInv, AddPart PROVE IInv'
  OBVIOUS
<1>. USE DEF IInv, corpus, loop
<1>1. /\ thread_num \in Nat \ {0} /\ t \in Ids /\ phase = "adding" /\ 0 \in Ids
      /\ t' = (t + 1) % thread_num /\ t + 1 <= thread_num
      /\ \A s \in Sentences : s % thread_num \in Ids
  BY Basics DEF AddPart, Ids
<1>2. IF t + 1 < thread_num THEN t' = t + 1 /\ phase' = "adding"
                            ELSE t' = 0 /\ phase' = "checking"
  BY <1>1 DEF AddPart, Ids
<1>3. /\ \A k \in Ids : thread[k].at = "ended"
      /\ \A k \in Ids : thread[k] \in Made
  BY <1>1 DEF Placed, TypeOK, Made
<1>4. /\ thread_num' = thread_num /\ x' = x /\ Ids' = Ids /\ Sentences' = Sentences
      /\ pool' = pool /\ alpha' = alpha /\ DOMAIN thread' = Ids
      /\ UNCHANGED <<unread, line, itr, converge, deleted>>
      /\ \A k \in Ids \ {0} : thread'[k] = thread[k]
  BY DEF AddPart, Ids, Sentences, TypeOK
<1>5. /\ thread'[0] = [thread[0] EXCEPT !.sum = thread'[0].sum]
      /\ thread'[0].sum \in [Sentences -> Nat]
      /\ \A s \in Sentences : thread'[0].sum[s] =
           IF t = 0 THEN thread[0].sum[s] ELSE thread[0].sum[s] + thread[t].sum[s]
  <2>1. thread[0] \in Made /\ thread[t] \in Made
    BY <1>1, <1>3
  <2>2. CASE t = 0
    BY <2>1, <2>2 DEF AddPart, Made
  <2>3. CASE t # 0
    <3>. DEFINE both == [s \in Sentences |-> thread[0].sum[s] + thread[t].sum[s]]
    <3>1. both \in [Sentences -> Nat]
      BY <2>1 DEF Made
    <3>2. thread'[0] = [thread[0] EXCEPT !.sum = both]
      BY <1>1, <2>3 DEF AddPart, TypeOK
    <3>3. thread'[0].sum = both
      BY <2>1, <3>2 DEF Made
    <3>. QED BY <2>3, <3>1, <3>2, <3>3
  <2>. QED BY <2>2, <2>3
<1>6. \A k \in Ids : thread'[k] \in Made /\ thread'[k].at = "ended"
                     /\ thread'[k].used = thread[k].used
  BY <1>1, <1>3, <1>4, <1>5 DEF Made
<1>7. TypeOK'
  <2>1. \A k \in Ids : thread'[k] \in
          [at : {"started", "next", "built", "costed", "ended"}, i : Nat,
           sum : [Sentences -> Nat], used : SUBSET Nat]
    BY <1>6 DEF Made
  <2>2. t' \in Ids /\ phase' \in {"adding", "checking"}
    BY <1>1, <1>2 DEF Ids
  <2>. QED BY <1>4, <2>1, <2>2 DEF TypeOK
<1>8. Placed' /\ Given' /\ Counted' /\ LatticesStayWhole'
  <2>1. thread' = [k \in Ids |-> thread'[k]]
    BY <1>1 DEF AddPart, Placed
  <2>2. thread' \in [Ids -> Made] /\ Made' = Made
    BY <1>4, <1>6, <2>1 DEF Made
  <2>. QED BY <1>1, <1>2, <1>4, <1>6, <2>2 DEF Placed, Given, Counted, LatticesStayWhole
<1>9. Shares'
  BY <1>1, <1>2, <1>3, <1>4, <1>6 DEF Shares, Begun, Ids
<1>10. /\ \A k \in Ids : thread'[k].used \subseteq {alpha}
       /\ \A s \in Sentences : thread'[0].sum[s] =
            IF s % thread_num <= t \/ s % thread_num = 0 THEN 1 ELSE 0
  <2>1. \A k \in Ids : thread'[k].used \subseteq {alpha}
    BY <1>1, <1>6 DEF Added
  <2>2. ASSUME NEW s \in Sentences
        PROVE  thread'[0].sum[s] = IF s % thread_num <= t \/ s % thread_num = 0 THEN 1 ELSE 0
    <3>1. s % thread_num \in Nat /\ s \in Nat /\ s < Len(x) /\ Len(x) \in Nat /\ t \in Nat
      BY <1>1, Basics DEF Ids, Sentences
    <3>2. thread[0].sum[s] = IF s % thread_num < t \/ s % thread_num = 0 THEN 1 ELSE 0
      BY <1>1 DEF Added
    <3>3. t # 0 => thread[t].sum[s] = IF s % thread_num = t THEN 1 ELSE 0
      <4>. SUFFICES ASSUME t # 0 PROVE thread[t].sum[s] = IF s % thread_num = t THEN 1 ELSE 0
        OBVIOUS
      <4>1. Begun(t)
        BY <1>1, <1>3, <3>1 DEF Begun
      <4>2. thread[t].i >= Len(x) /\ thread[t].i \in Nat
        BY <1>1, <1>3, <4>1 DEF Shares, Made
      <4>3. thread[t].sum[s] = IF s % thread_num = t /\ s < thread[t].i THEN 1 ELSE 0
        BY <1>1, <4>1 DEF Shares
      <4>4. s < thread[t].i
        BY <3>1, <4>2
      <4>. QED BY <4>3, <4>4
    <3>. QED BY <1>5, <3>1, <3>2, <3>3
  <2>. QED BY <2>1, <2>2
<1>11. Added' /\ GradientIsWhole'
  <2>1. CASE t + 1 < thread_num
    <3>1. \A s \in Sentences : s % thread_num <= t <=> s % thread_num < t'
      BY <1>1, <1>2, <2>1 DEF Ids
    <3>. QED BY <1>2, <1>4, <1>10, <2>1, <3>1 DEF Added, GradientIsWhole
  <2>2. CASE ~(t + 1 < thread_num)
    <3>1. \A s \in Sentences : s % thread_num <= t
      BY <1>1, <2>2 DEF Ids
    <3>. QED BY <1>2, <1>4, <1>10, <2>2, <3>1 DEF Added, GradientIsWhole
  <2>. QED BY <2>1, <2>2
<1>. QED BY <1>7, <1>8, <1>9, <1>11

\* Between two rounds and behind the last one no thread runs.
LEMMA OtherStepsKeep ==
  IInv /\ (Stop \/ Optimize \/ OptimizeFails \/ DeleteSentences \/ Save \/ SaveFails) => IInv'
<1>. SUFFICES ASSUME IInv,
                     Stop \/ Optimize \/ OptimizeFails \/ DeleteSentences \/ Save \/ SaveFails
              PROVE  IInv'
  OBVIOUS
<1>. USE DEF IInv, corpus, loop, Stop, Optimize, OptimizeFails, DeleteSentences, Save,
             SaveFails, Fail, Checked, Round
<1>1. /\ UNCHANGED <<thread_num, unread, line, x, pool, thread, t>>
      /\ Ids' = Ids /\ Sentences' = Sentences /\ Made' = Made
  BY DEF Ids, Sentences, Made
<1>2. /\ phase \in {"checking", "deleting", "saving"} /\ t = 0
      /\ phase' \in {"starting", "deleting", "saving", "done", "failed"}
      /\ \A k \in Ids : thread[k].at \in {"new", "ended"}
  BY DEF Placed
<1>3. phase = "checking" => thread \in [Ids -> Made]
  BY DEF Placed
<1>4. TypeOK' /\ Counted'
  <2>1. /\ alpha' \in Nat /\ itr' \in Nat /\ converge' \in 0..3 /\ deleted' \in 0..2
        /\ Counted'
    BY DEF TypeOK, Counted
  <2>. QED BY <1>1, <1>2, <2>1 DEF TypeOK
<1>5. Placed'
  BY <1>1, <1>2, <1>3 DEF Placed
<1>6. Given' /\ LatticesStayWhole' /\ Shares' /\ Added' /\ GradientIsWhole'
  BY <1>1, <1>2, Basics
     DEF Given, LatticesStayWhole, Shares, Begun, Added, GradientIsWhole, Ids
<1>. QED BY <1>4, <1>5, <1>6

\* Every step keeps the invariant.
LEMMA NextKeeps == IInv /\ [Next]_vars => IInv'
<1>1. ASSUME IInv, UNCHANGED vars PROVE IInv'
  BY <1>1 DEF vars, corpus, loop, IInv, TypeOK, Placed, Given, Shares, Begun, Added, Counted,
              LatticesStayWhole, GradientIsWhole, Ids, Sentences, Made
<1>2. ASSUME IInv, Learn PROVE IInv'
  BY <1>2, ReadingKeeps, StartJoinKeep, AddKeeps, OtherStepsKeep DEF Learn
<1>3. ASSUME IInv, NEW k \in Ids, Thread(k) PROVE IInv'
  BY <1>3, ThreadKeeps
<1>. QED BY <1>1, <1>2, <1>3 DEF Next

\* The inductive invariant of learn and its threads.
THEOREM Invariance == Spec => []IInv
<1>. QED BY InitIInv, NextKeeps, PTL DEF Spec

\* The variables of learn and of its threads keep their types.
THEOREM TypeCorrect == Spec => []TypeOK
<1>1. IInv => TypeOK
  BY DEF IInv
<1>. QED BY <1>1, Invariance, PTL

\* However many threads there are, and whatever the training file has in it, no
\* thread ever takes the nodes of a lattice another one is working on.
THEOREM LatticesAlwaysStayWhole == Spec => []LatticesStayWhole
<1>1. IInv => LatticesStayWhole
  BY DEF IInv
<1>. QED BY <1>1, Invariance, PTL

\* However the threads are scheduled, the optimizer is given the gradient of all
\* sentences, each once, at the weights it made last.
THEOREM GradientIsAlwaysWhole == Spec => []GradientIsWhole
<1>1. IInv => GradientIsWhole
  BY DEF IInv
<1>. QED BY <1>1, Invariance, PTL

\* Every path out of learn deletes the sentences.
THEOREM SentencesAreAlwaysDeleted == Spec => []SentencesAreDeleted
<1>1. IInv => SentencesAreDeleted
  BY DEF IInv, TypeOK, Counted, SentencesAreDeleted
<1>. QED BY <1>1, Invariance, PTL
====
