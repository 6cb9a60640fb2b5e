---- MODULE GeneralParser ----
(***************************************************************************)
(* GeneralParser.tagRoles: the results of the date, place and trip-type    *)
(* parsers are replaced by their labels in the text, the tagger gives each *)
(* token of that text a role, and the results get the roles of their       *)
(* tokens.                                                                 *)
(*                                                                         *)
(* getTaggedText calls itself on the text before and behind a result, and  *)
(* removes the results it uses from the one list all calls share; work is  *)
(* what those calls have still to return, in the order of the text.  The   *)
(* tagger is external: a role is the number of the token it was given to.  *)
(***************************************************************************)
EXTENDS Integers, Sequences, KeywordEntityParserUtils, Request

CONSTANTS
  Requests     \* a text, and the results for it in the order they are listed

\* What is no result.
None == ""

\* A result is an object, with the label of its parser and an index range.
Result == [id : STRING \ {None}, label : STRING, start : Nat, stop : Nat]

\* The index range of a result lies in the text, and is not empty; each result is an
\* object of its own.
ASSUME RequestsAssumption ==
  \A q \in Requests :
    /\ q.text \in Seq(STRING) /\ q.results \in Seq(Result)
    /\ \A k \in DOMAIN q.results : q.results[k].start <= q.results[k].stop /\ q.results[k].stop < Len(q.text)
    /\ \A j, k \in DOMAIN q.results : q.results[j].id = q.results[k].id => j = k

\* Labels are spelled like no word of a request ("en:date"): what stands for one in the
\* tagged text is no character of the text.
ASSUME LabelsAssumption ==
  \A q \in Requests : \A k \in DOMAIN q.results :
    q.results[k].id # Blank /\ \A p \in DOMAIN q.text : q.text[p] # q.results[k].id

VARIABLES
  results,     \* allResults, sorted once the text is tagged
  work,        \* parts of the text to be tagged, and results whose label is next
  unused,      \* the list the calls share: the results not used yet
  tagged,      \* the tagged text so far: characters, and ids for labels
  phase,       \* "tagging", then "walking" the tokens
  i, resIdx,   \* the loop over the tokens
  role         \* by id: the token whose role the result has, 0 for "None"

vars == <<text, results, work, unused, tagged, phase, i, resIdx, role>>

--------------------------------------------------------------------------
\* A part of the text, its stop exclusive.
Part(from, to) == [id |-> None, start |-> from, stop |-> to]

Init ==
  /\ \E q \in Requests : text = q.text /\ results = q.results
  /\ work = <<Part(0, Len(text))>>
  /\ unused = results
  /\ tagged = <<>>
  /\ phase = "tagging"
  /\ i = 1 /\ resIdx = 1
  /\ role = [r \in {results[k].id : k \in DOMAIN results} |-> 0]

Now     == Head(work)
Tagging == work # <<>> /\ Now.id = None

\* Mutants of Fits: the stop of the part is not looked at, or is off by one more, and
\* a result at the start of the part does not count.
FitsNearly(r, part) == part.start <= r.start /\ r.stop <= part.stop + 1
FitsFrom(r, part)   == part.start <= r.start
FitsBehind(r, part) == part.start < r.start /\ r.stop <= part.stop

\* The results of the list that lie in the part, of which the first is used.  The
\* stop of a part is exclusive and that of a result is not: a result may reach one
\* character too far.
Fits(r, part) == part.start <= r.start /\ r.stop <= part.stop
Fitting       == {k \in DOMAIN unused : Fits(unused[k], Now)}

\* Mutant of Behind: the character behind the result is skipped.
BehindNext(r, part) == Part(r.stop + 2, part.stop)

Behind(r, part) == Part(r.stop + 1, part.stop)

TagOnly == UNCHANGED <<text, results, phase, i, resIdx, role>>

UseResult ==
  /\ Tagging /\ Now.start < Len(text) /\ Fitting # {}
  /\ LET used == unused[Min(Fitting)]
     IN  work' = <<Part(Now.start, used.start), used, Behind(used, Now)>> \o Tail(work)
  /\ unused' = RemoveAt(unused, Min(Fitting))
  /\ UNCHANGED tagged /\ TagOnly

\* substring: it throws when the part ends before it starts.
CopyPart ==
  /\ Tagging /\ Now.start < Len(text) /\ Fitting = {}
  /\ Now.start <= Now.stop
  /\ tagged' = tagged \o SubSeq(text, Now.start + 1, Now.stop)
  /\ work' = Tail(work)
  /\ UNCHANGED unused /\ TagOnly

SkipEnd ==
  /\ Tagging /\ Now.start >= Len(text)
  /\ work' = Tail(work)
  /\ UNCHANGED <<unused, tagged>> /\ TagOnly

PutLabel ==
  /\ work # <<>> /\ Now.id # None
  /\ tagged' = Append(tagged, Now.id)
  /\ work' = Tail(work)
  /\ UNCHANGED unused /\ TagOnly

\* Mutant of ByStart: the list is not sorted.
AsListed(rs, order) == \A k \in DOMAIN rs : order[k] = k

\* List.sort keeps results of one start in their order.
ByStart(rs, order) ==
  \A j, k \in DOMAIN rs : j < k =>
    \/ rs[order[j]].start < rs[order[k]].start
    \/ rs[order[j]].start = rs[order[k]].start /\ order[j] < order[k]

SortResults ==
  /\ work = <<>> /\ phase = "tagging"
  /\ \E order \in Bijection(DOMAIN results, DOMAIN results) :
       ByStart(results, order) /\ results' = [k \in DOMAIN results |-> results[order[k]]]
  /\ phase' = "walking"
  /\ UNCHANGED <<text, work, unused, tagged, i, resIdx, role>>

--------------------------------------------------------------------------
tokens == textTokanization(tagged)

\* Tagger.add refuses a token without a column: the empty one that a separator at
\* the start of the text makes.  roleTags has one role for each token it took.
roleTags == Sorted({k \in DOMAIN tokens : tokens[k] # <<>>})

IsLabel(token, label) ==
  \E k \in DOMAIN results : token = <<results[k].id>> /\ results[k].label = label

Walking == phase = "walking" /\ i <= Len(roleTags)

Matches == resIdx <= Len(results) /\ IsLabel(tokens[i], results[resIdx].label)

\* The i-th role goes to the next result when the i-th token is its label.
SetRole ==
  /\ Walking /\ Matches
  /\ role' = [role EXCEPT ![results[resIdx].id] = roleTags[i]]
  /\ resIdx' = resIdx + 1
  /\ i' = i + 1
  /\ UNCHANGED <<text, results, work, unused, tagged, phase>>

PassToken ==
  /\ Walking /\ ~Matches
  /\ i' = i + 1
  /\ UNCHANGED <<text, results, work, unused, tagged, phase, resIdx, role>>

Next ==
  \/ UseResult \/ CopyPart \/ SkipEnd \/ PutLabel \/ SortResults
  \/ SetRole \/ PassToken

Spec == Init /\ [][Next]_vars

--------------------------------------------------------------------------
Chars(r) == r.start..r.stop
Ids(s)   == {s[k].id : k \in DOMAIN s}
Listed   == {results[k] : k \in DOMAIN results}
Put      == Listed \ {unused[k] : k \in DOMAIN unused}

\* No result starts at the last character of another, which would be a word of one
\* letter: no name of the tables begins with one.
EndsApart == \A r, s \in Listed : r # s => r.start # s.stop

\* The parts getTaggedText is called with start within the text, and the indices of
\* the loop over the tokens stay within the lists they are used on.
TypeOK ==
  /\ \A k \in DOMAIN work : work[k].start \in 0..Len(text)
  /\ Ids(unused) \subseteq Ids(results)
  /\ phase \in {"tagging", "walking"}
  /\ i \in 1..(Len(text) + 2) /\ resIdx \in 1..(Len(results) + 1)
  /\ \A id \in Ids(results) : role[id] \in 0..Len(text)

\* getTaggedText as it would be without recursion: the text in which every used
\* result is its label once and every other character is itself.
Piece(s, put, p) ==
  LET starts == {r \in put : r.start = p}
  IN  IF starts # {} THEN <<(CHOOSE r \in starts : TRUE).id>>
      ELSE IF \E r \in put : p \in Chars(r) THEN <<>>
      ELSE <<s[p + 1]>>

TaggedText == FlattenSeq([p \in DOMAIN text |-> Piece(text, Put, p - 1)])

\* The used results do not overlap, and the recursion that uses them in the order
\* of the list copies or replaces each character of the text once, in its place, as
\* long as no result starts at the last character of another.
TaggedTextIsTheText ==
  phase = "walking" /\ EndsApart =>
    /\ \A r, s \in Put : r # s => Chars(r) \cap Chars(s) = {}
    /\ tagged = TaggedText

\* A result stays unused only when it overlaps one that is used.
UnusedOverlap ==
  phase = "walking" =>
    \A k \in DOMAIN unused : \E r \in Put : Chars(r) \cap Chars(unused[k]) # {}

\* The results in front of the k-th and itself are tokens of their own.
StandAlone(k) == \A j \in 1..k : \E t \in DOMAIN tokens : tokens[t] = <<results[j].id>>

\* When all tokens have their roles, and none was refused, each result has the role
\* of its own token, up to the first that is no token of its own: from there on the
\* roles are those of other tokens, or "None".
RolesAreTheirTokens ==
  phase = "walking" /\ ~Walking /\ (tokens # <<>> => tokens[1] # <<>>) =>
    \A k \in DOMAIN results :
      StandAlone(k) => role[results[k].id] # 0
                       /\ tokens[role[results[k].id]] = <<results[k].id>>

\* substring is never asked for a part that ends before it starts, which would end
\* the request, as long as no result starts at the last character of another.
PartsAreInOrder ==
  EndsApart => \A k \in DOMAIN work :
    work[k].id = None => work[k].start <= work[k].stop \/ work[k].start >= Len(text)
====
