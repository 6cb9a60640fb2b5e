# DatetimeNLU in TLA+

DatetimeNLU is a web service that finds dates, places and trip types in an English
sentence ("flights from Dubai to London next friday").  This directory holds TLA+ models
of its parts, the TLC configurations that check them, and TLAPS proofs about them.
Every definition is translated from the source; `PROJECT.json` gives, for each, the lines
it stands for.

Paths below leave out `src/src/main/java/dateparser/` and, for CRF++,
`src/src/main/resources/train/CRF++-0.58/`.

## The system

### Components

| part | state | operations | talks to |
|---|---|---|---|
| date grammar and lexer (`DateParser.g4`, `NumericRules.g4`, `DateLexer.g4`) | none of its own | read one date at the start of a token list, or say which token does not fit | calls the listener while it parses |
| date search (`ParseDate`, `DateParserTokenSource`) | the slice of each running call of `parseRecursive`, the list of dates | parse | makes a parser and a listener per slice |
| date resolution (`DateParserListenerImpl`) | number, year, month, day and the date so far | one exit handler per rule | reads the clock |
| words and n-grams (`KeywordEntityParserUtils`, `NGram`) | none | words, n-grams of up to four words, their index ranges | |
| place tables (`PlaceDataSource`, `PlaceInfo`) | six tables, loaded once | look a name up; compare two places | csv files |
| place search (`PlaceParser`) | the list of places so far | parse | n-grams, tables |
| trip types (`TriptypeParser`) | the list of trip types so far | parse | n-grams |
| request (`GeneralParser`) | the results of the three parsers, the labelled text | parse, getTaggedText, tagRoles | all parsers, the role tagger |
| role tagger (`PlaceRoleTagger`) | a CRF++ tagger | tag a list of tokens | CRF++ through its Java binding |
| CRF++ training (`encoder.cpp`, `thread.h`) | sentences, threads, weights | learn, runCRF, runMIRA | feature index, taggers, L-BFGS |
| CRF++ tagger (`tagger.cpp`) | a sentence, its lattice, the N-best agenda | open, add, parse, next, clear, gradient | feature index, allocator |
| CRF++ feature index and caches (`feature_index.cpp`, `feature_cache.cpp`, `freelist.h`) | ids of features, cached features, free lists by thread id | getID, shrink, buildFeatures, rebuildFeatures | |
| CRF++ optimizer (`lbfgs.cpp`, `lbfgs.h`) | the iteration it is in, the rings of steps and changes of the gradient, a line search | optimize, once a round of `runCRF` | |
| CRF++ double array (`darts.h`) | an array of units | build, exactMatchSearch | written with a model, read by the decoder |
| CRF++ options and files | | | |
| web service, table files, result classes | | | |

A request is one call of `GeneralParser.parse`, in the thread of the web server that took
it.  It makes its own parsers and a `PlaceRoleTagger` of its own (`GeneralParser.java:83-98`), so
requests share no mutable state; within one, everything is a sequence of calls.  What is hard in it is
order and indices: a recursion that cuts slices of slices and hands ranges of the inner ones to the
outer ones, handlers that share fields and depend on the order in which rules end,
lists that are shortened while calls above still use them, and exceptions that leave from
the middle.  The only part with threads is the training of the role tagger's model in
CRF++: `learn` starts its threads anew in each round, they share the weights,
the features and the pools of nodes, and nothing locks: it is the ids given to
the sentences, and the barrier of `join`, that keep them apart.

### What makes each part correct

- Date search: it ends on every sentence; it never uses an index outside its slice; it reports what it reads
  as dates, in order and between separators; it loses no date that stands alone; it reports none twice.
- Date resolution: the answer is the date the phrase names, whatever day it is, and no
  handler throws for a phrase that names one.
- n-grams: the index range of an n-gram is where it stands in the text.
- Place search: the most specific and longest places are reported, and no place is lost that none of these stands for.
- Request: each result becomes one label in its place, and gets the role of that label.
- Trip types: a keyword of the text is reported or a longer one that stands for it.
- Training: no thread tears up the lattice of another; the optimizer gets the sum over all
  sentences at one set of weights; sentences are left out only when they have earned
  it, and training does not end on the ones left in; each sentence is deleted once;
  `learn` returns.
- Optimizer: a direction is made of the newest steps, each with its own numbers, wherever the rings have
  them; a line search that gives up leaves the weights at the best step it found; being done is not a failure.
- Saved model: the decoder finds the keys of the encoder's dictionary, with their ids, and no others.
- Tagger: the labellings come in the order of their costs, each once; a tagger deletes what is its own and
  nothing that others read.

The hazards behind these are listed one by one, at their lines, in `PROJECT.json`.

## The modules

### Dates

`DateGrammar` is `DateParser.g4` over kinds of tokens: a table of the rules with their alternatives (`Rules`), and how far a list of tokens
follows a sequence of symbols (`Reading`).  `IsDate` are the dates of the language; `IsLooseDate` allows single tokens in between that do not belong there.

`DateParser` is the parser that ANTLR 4.6 makes of the table, for one slice: `GrammarParse` answers the last token of a date, the first token that does not fit,
or that an exception leaves `parse`.  It runs the rules' methods one symbol at a time.  `Predict` looks ahead for the alternative; `Match` consumes a token, and has
the inline recovery of the `DefaultErrorStrategy`, which `ParseDate` does not replace: a single extra token is skipped with no exception ("in 9th days from now",
"friday next, week", accepted), and a missing one is asked of the token factory, which `DateParserTokenSource` does not have ("in 2days", a
`NullPointerException`).  `Fail` ends a rule with an exception and skips tokens until one can follow; the caller goes on, and the exit handlers run all the same.  Those that
may throw are here (`ExitRule`): on fields that were never set, on text that is no number, and on days that a month may not have ("feb 30"), for
which the answer says `throws`.  The generated code is not in the repository.  What is not certain of it is whether it also looks for an extra token in front of each
choice (`sync`); `SyncsChoices` is that.  The run has it `TRUE`, with more recovery; with `FALSE` in `MCParseDate.cfg` TLC finds the same properties to hold (49940 states).  The numbers of twenty and thirty ("twenty first") are left out.

`ParseDate` is `parseRecursive`.  A slice of the sentence is `[lo, hi)`, the stack of calls is a
variable, and each branch of the code is an action: `AcceptInRoot`, `AcceptInBackOff`, `Drop` (a date
with no separator behind it), `SkipWord`, `BackOff` (the recursive call), `ReturnEmpty`, `Finish` and `Throw`.  The
parser is a constant operator, so that what does not depend on the grammar is proved for every parser.

`DateSearch` is `ParseDate` with a parser that reads the dates of a grammar, and states what the search promises.  Parser and grammar are constant operators here too, with what is assumed of them:
an accepted slice begins with a date, but for extra tokens, and a rejected one with none that reaches the token in front of the offending one (`ReadsAssumption`); no date ends with a blank (`EndsAssumption`).
`MCParseDate` gives it the parser of `DateParser` and the dates of `DateGrammar`.

`DateScan` is the abstract specification: what `parse` promises of a sentence, without slices and
back-off.  It says what may be reported (dates, or what is one but for extra tokens, that begin behind a separator or behind what a glued date ends with),
and that it may return only when every date that begins a word is covered by a
report, save those that a date glued to other text overlaps.  `ParseDate` is shown to implement it: TLC checks it in `MCParseDate`, and
`ParseDateProofs` proves it for every sentence.  That it returns is not part of it: `Terminates` says that of `ParseDate`, and nothing happens afterwards.  Nor is the order
of the reports and where they end, of which `LeftToRight` and `CutAtSeparators` speak.

`DateListener` has an action for each exit handler with a body.  A phrase is what the rule that accepted it has read, and the sequence
of calls it causes, in the order the rules end: `IsPhrase` has a case for each form (a weekday, one of another week, today, tomorrow,
a number of days, a week, a year, a month and day alone, behind or in front of a year, and a date in numbers), and within a form
the month and day are spelled, in either order, or two numbers, and the year is four digits, two, or "next", "last" or "this".
The clock is read when the listener is
made and again in the handlers of relative years, and midnight may pass between (`Midnight`).
`Calendar` models what the handlers use of `java.time`.

### Places

`KeywordEntityParserUtils` is the words of a text, the n-grams and their index ranges.  `PlaceDataSource` is the
lookup through the tables, which are constants, and `isGeneralization`.  `PlaceParser` is the loop of `extractPlaces`: the next
n-gram is `Unknown`, is added (`Add`), or is left out for a more specific result
(`LeaveOut`); either of the last two removes what it covers and what is less specific.

`TriptypeParser` is the same kind of loop, once for each kind of trip over one list (`Keyword`, `OtherWords`, `NextTriptype`).
The kinds come in the order of the map's buckets, `direct` before `oneway`.  Its list of results is a set of kinds with n-grams: results
are added in the order of both, and taking some out does not change the order of the rest.  `EntitySearch` composes the two as
`GeneralParser.parse` calls them: the places of a text first, then its trips, in n-grams of the same words.
The text is that of the request (`Request`).

### Requests

`GeneralParser` is `getTaggedText` and `tagRoles` over whatever results the parsers made.  The recursion
is a list of work: parts of the text still to copy, and labels still to put.  The roles are the
positions of the tokens they were given to, which is all that `tagRoles` can get wrong.  `List.sort` is the one order of
the results that is by their starts and keeps those of one start as they were (`ByStart`).

### Training

`CRFEncoder` is `learn` with `runCRF`.  `learn` reads the file, starts the threads,
joins them, adds up their parts and optimizes; each thread is a process of its
own with a step for each use of what threads share: emptying the pool of nodes
of a sentence's thread id (`rebuildFeatures`), reading the weights (`calcCost`), adding to its gradient
(`gradient`).  Numbers are left out: a part of the gradient is how often each sentence is in it, the weights are a
count of how often they were written, and the tests on them go either way.

`MIRA` is the loop of `runMIRA`, with the outcome of each parse left open.  The count of
rounds a sentence was right is one byte, as in the code.

`FeatureIndex` is the dictionary of the encoder and the cache of features: `getID` (`NewKey`, `KnownKey`), `FeatureCache::add`, and `shrink` with
its two loops, over the dictionary in the order of its keys (`Renumber`, `Erase`) and over the cached lists (`Rewrite`).  Lists are kept
in the memory of a free list, cell by cell (`FreeList`, operators only), since what can go wrong is that one runs into another.

`DoubleArray` is Darts: `fetch`, `insert` (the search for a place in `Reserve`, then the recursion), `build` and
`exactMatchSearch`, as operators.  `SavedIndex` composes it with `FeatureIndex`: when the dictionary is
shrunk, `save` builds the array of its keys, and the decoder's `getID` looks texts up in it.

`LBFGS` is the optimizer without its numbers.  A call of `optimize` is one action: `FirstCall`, `Search` (the line search goes on),
`SearchFails`, `NextIteration` (the step is stored, the next direction made) and `Terminate`.  The one array `w` is modelled cell by cell,
with its offsets as in the code, and a cell says what number it holds and what that was made of; so a
vector read from the wrong slot, or with the number of another one, shows.  Tests on numbers go either way, except that the test which
ends a line search is the one that has sent it to its best step the call before.  `CRFTraining` is `CRFEncoder` with this
optimizer in place of a free choice: one call a round, and its result decides whether the round goes on.

### Tagging

`TaggerModel` is what a `TaggerImpl` owns: its mode, where its feature index is from, its allocator, and how many indexes it has made
and not deleted, under `open` (with a good file, `openFails` with a bad one), `close` and `set_model`.

`Tagger` extends it with the sentence, the lattice and the search.  The calls are `Model` (the above), `set_nbest`, `add`, `set_penalty`, `clear`, `parse` and `next`; the loops
of viterbi (`Forward`, `Found`) and of `next` (`Expand`, `Report`, `Exhausted`) are steps of their own.  Scores are whole numbers of either sign; what a node
or path scores is a constant.  `NBest` is the abstract specification: a cheapest labelling first, then all of them in the order of their costs,
each once, until there is none left; `MCTagger` shows that `Tagger` implements it.

What the model takes from its environment, since the code does not look after it: when the model behind a tagger was opened anew or closed, the sentence is cleared
before anything else (words and nodes are in the allocator); `next` is called for the lattice the agenda is of; penalties
reach to the last word; a tagger that has no allocator is not cleared.  The mode `LEARN` is the encoder's, in `CRFEncoder`.

## The runs

| run | question | bounds |
|---|---|---|
| `parse_date` | does the search end, lose or repeat dates, cut them out of other text, implement `DateScan` | sentences of up to 3 words out of 16, and of up to 4 out of the 5 that make it report a date twice |
| `date_listener` | are phrases resolved to the dates they name | all forms of phrases, on days around the ends of 5 months of 2 years; years 2016, 2017, 2100, next, last and this; one midnight |
| `place_parser` | are the right places and trips reported, do the ranges fit the words | texts of up to 8 characters over 2 letters, 2 kinds of trip |
| `general_parser` | labels and roles | up to 3 words and 3 results, every position of them |
| `crf_encoder` | lattices, gradient, deletion, termination | files of up to 5 sentences, 1 to 3 threads, 4 rounds |
| `mira` | leaving sentences out, convergence | 3 sentences, 6 rounds, shrinking sizes 1 to 3 |
| `feature_index` | weights of keys, cached lists, frequent keys, and the decoder's search in the model saved | up to 2 sentences of 2 words, 6 keys, 2 labels, chunks of 7, frequencies 1 to 3; 3 spellings of the keys in bytes 1 to 4 |
| `tagger` | order and completeness of the labellings, what is deleted, return | sentences of up to 3 words, 2 labels, 2 models, a penalty, one index besides the Model's and one more |
| `lbfgs` | which pairs a direction is made of, where a failed line search ends | 2 weights, rings of 3, line searches of 4 calls, 9 calls in all |

Why the bounds are enough:

- Sentences. Each branch of `parseRecursive` depends on one call and its caller; three words give a failed
  "in" with a date behind it, a back-off within a back-off, glued dates and dates on both sides of
  one.  A date is reported twice at some distance when glued dates stand behind "in" and the number of days further on: that takes four words (`TwiceWords`).  The words are chosen from the repository's examples, with tokens too many ("3th", "next,", "(friday") and without a blank ("3days"), so that the parser skips a token, throws, and fails within each of its longer rules.
- Clocks and phrases. The handlers depend on the day of the month, the length of two months and whether a year is a leap year; the
  clocks are the 1st, 10th and 28th to 31st of January to April and December 2016 and 2017, and 2100 is a year that only looks like a leap year.
  `DateListenerProofs` has the same properties for every clock and phrase.
- Texts and tables. Eight characters hold four words; the tables have a name, a code and a chain for each of the lookups, and one
  that ends in the middle.
- Results. The recursion looks at one result and what is left of it and right of it; three
  results give one that overlaps both others.
- Threads. With five sentences and three threads the shares differ in size, and one and two
  threads are the ends of the loops; four rounds let the convergence count reach three, its end.
- MIRA. Two rounds without violations in a row, behind ones in which sentences were left out, take up to six rounds.
- Features. Chunks of 7 end within a sentence at different places of the lists; keys of one, two and three occurrences stand
  before, between and behind those that stay, and bigram keys, which are first in the dictionary, get their ids after unigram keys.
- Keywords. One is within another of its kind, of the kind before and of the kind behind, and two kinds share one.
- Spellings. The texts looked up are all of up to three bytes, the keys, and each key with a byte more; the keys are chosen so
  that two nodes want the same begin, which happens when no child of one meets one of the other.
- Tagger. Three words give ends of labellings of three lengths side by side; scores have ties, both signs and a path that makes the
  best node a bad end; the two models score differently.  An index is left behind from the second one on.
- L-BFGS. Nine calls make up to nine iterations: the rings are full from the fourth on and have wrapped twice at the end; a line search of four calls can be bracketed
  in its first, last or a middle one.

The passing runs say `CHECK_DEADLOCK FALSE` because all these programs end, or stop at a bound on their inputs.

### Fairness

`ParseDate` and `MIRA` are loops in their caller's thread that wait for nothing: weak fairness of the
next step.  `DateListener` has it for the handlers, not for midnight.  `CRFEncoder` has weak fairness of
`learn` and of each thread: `learn` only waits in `join`, which the ending thread enables for
good, and the system's scheduler runs every thread that can go on; there are no locks, so weak fairness
is enough.  `Tagger` has weak fairness of the steps within `parse` and `next`, one thread
that does not wait, and none of its calls: nobody has to ask for another labelling.  `GeneralParser`, `TriptypeParser` and `PlaceParser` state no liveness: they are loops over lists that are not
changed (the former's recursion shortens the list or the part on each call).

### What the runs found

Three runs check what the repository says and find it violated.

- `test_day_month_year`: "20 March 2017" becomes the first of January, since the handler of a full year resets month and day
  (`DateParserListenerImpl.java:422`; `test.json:230` expects 2017-03-20).
- `test_in_month_of_year`: "in February 2017" is reported as two dates, "February" and "February 2017", since
  a token range of an inner slice is used as an index of the outer one (`ParseDate.java:60`; `test.json:302` expects one).
- `test_ok_terminated`: a training that ends because the gradient is small enough fails and saves no model: `optimize` returns 0
  for it, "OK terminated" (`lbfgs.cpp:564`), and `runCRF` takes 0 for an error (`encoder.cpp:281`).

Four more answers of `test.json`, for requests on 2017-01-10, differ from the code, by the same reading of the handlers:

- "Jan 15" becomes 2018-01-15, since the month's handler first moves to next year (`DateParserListenerImpl.java:275`; `test.json:20` expects 2017-01-15).
- "In January" becomes 2018-01-01, since the first day of the month that runs is past (`DateParserListenerImpl.java:221`; `test.json:407` expects 2017-01-01, with the grain of a month).
  `MonthDaysAreNotPast` leaves this case open: it lets a month alone be the one that runs.
- "1/4/17" becomes 2017-04-01, since the first alternative that fits has the day in front (`DateParser.g4:33`; `test.json:542` expects 2017-01-04).
  `NumericDatesAreExact` takes the day and the month as the grammar reads them (`DayAndMonth`), so it holds of the 1st of April and would not hold of the answer in `test.json`.
- "next year" changes nothing (`DateParserListenerImpl.java:298`; `test.json:179` expects 2018-01-01).

With `-H 256` or more no sentence is ever left out of MIRA, since the count is one byte
(`encoder.cpp:138`); `LeftOutIsEarned` holds all the same, because a count that wraps only keeps sentences in.

The properties of the passing runs are worded around what the code does elsewhere:

- `LeftToRight`: a report is only taken up again in the word behind "in", or behind "in" with a token glued to it ("in, ").  It need not begin that word: of "in fridayxfriday days 3"
  the back-off below the failed "in" drops the first day and the token glued to it and reports the second one, and the outermost call then does the same.
- `CutAtSeparators`: a date may end where the back-off has cut a longer one off, in front of the dash or slash of the grammar; and in the word behind "in" in front of anything, since the token in front of the
  error is dropped unseen.
- `DateScan` has no exact dates among what is reported, since the parser skips extra tokens; what must not be lost are exact ones.
- `DateScan` passes over a date that is glued to other text, and the token behind it: "April 23-April 26" is not found at all.
- `RangesAreTheWords`: a word of one letter that repeats the last letter of the word before is found one place too early.
- `PlacesAreAccountedFor`: a place may be lost when one result covers it and another is more specific.
- `PartsAreInOrder` and `TaggedTextIsTheText` hold as long as no result starts at the last character of another (`EndsApart`), which
  would be a word of one letter that both share; no name in the tables begins with one.
- `RolesAreTheirTokens`: a result that is no token of its own stops the walk over
  the results; a leading separator shifts all roles by one, which the property leaves out.
- `InnerTripIsLater`: a keyword within a longer one is left out only if its kind is looked up first.
- `DeletesItsOwn`: once a tagger has been given a shared model, an index it opens itself is never deleted, since its mode stays
  `TEST_SHARED` (`tagger.cpp:212`, `:266`); the property says this of mode `TEST` only.
- `SentencesAreDeleted`: when the model cannot be saved, the sentences are deleted twice.
- "yesterday" is resolved to today, because its handler is bound to an event the parser does not fire for it.
- Two ambiguous numbers and a separator ("3/4/" and the like), "2017 3 x" and "in 2days" throw, and the request fails; no sentence of `test.json` has one.

## The proofs

| module | what is proved | for every |
|---|---|---|
| `ParseDateProofs` | `TypeOK`, `CallsShrink`, `RootAdvances` | sentence and parser |
| `ParseDateProofs`, of `DateSearch` | the implementation of `DateScan` | sentence of any length, parser and grammar of `DateSearch`'s assumptions |
| `DateListenerProofs` | `TypeOK`, `WeekdaysFallInTheirWeek`, `MonthDaysAreNotPast`, `LeadingYearIsKept`, `NumericDatesAreExact` | phrase of the grammar, day since 1970, number of midnights |
| `WordsProofs` | where words, n-grams and their index ranges are in a text (lemmas, `RangesFit`, `LongerIsLater`) | text, number of words of an n-gram |
| `GeneralParserProofs`, of `EntitySearch` | `PlaceTypeOK`, `MostSpecific`, `LongestMatch`, `PlacesAreAccountedFor`, `RangesAreTheWords`, `InnerTripIsLater`, `KeywordsAreAccountedFor` | text, tables, kinds of trip and their keywords |
| `CRFEncoderProofs` | `TypeOK`, `LatticesStayWhole`, `GradientIsWhole`, `SentencesAreDeleted` | training file, number of threads and rounds |
| `FeatureIndexProofs` | `TypeOK`, `WeightsAreTheirOwn`, `ListsAreOfTheirKeys`, `FrequentKeysStay` | corpus, number of labels, size of a chunk, frequency |
| `TaggerProofs` | `TypeOK`, `DeletesItsOwn`, `NoneIsLost`, `ViterbiIsBest`, `CostsDoNotFall`, the implementation of `NBest` | sentence, number of labels, scores, penalties, order of the calls |
| `GeneralParserProofs`, of `GeneralParser` | `TypeOK`, `PartsAreInOrder`, `UnusedOverlap`, `TaggedTextIsTheText`, `RolesAreTheirTokens` | text and list of results, in any order |
| `OptimizerProofs`, of `LBFGS` | `TypeOK`, `PairsAreTheNewest`, `GivesUpAtTheBest` | number of weights, length of the rings, number of calls of a line search, outcome of the tests on numbers |
| `OptimizerProofs`, of `MIRA` | `MIRATypeOK`, `ConvergedOnAll`, `LeftOutIsEarned` | number of sentences and rounds, shrinking size, outcome of each parse |

`PlaceTypeOK`, `TypeOK` of `CRFEncoder` and `ParseDate`, `MIRATypeOK` and `RootAdvances` of `ParseDate` are proved for every value of the constants and no longer among the properties of the runs.

Each follows the same way: an inductive invariant `IInv`, a lemma for each group of actions that keeps it, and the theorem
`Invariance` from which the others follow.

- `ParseDateProofs`. `CallsShrink` is inductive with a bound on the depth: the call at depth d has lost
  at least d - 1 tokens at the back (`Nested`).  The heart is `ResumeKeeps`: to move the start of a slice
  forward within it and to drop the calls above keeps the slices nested.  `RootAdvances` follows from what the next word is.
  Assumed: inputs are lists of tokens (`InputsAssumption`); the parser's answer is an index of the slice it was given (`ParserAssumption`).
- `ParseDateProofs`, of `DateSearch`, for every parser and grammar of its assumptions. `FindInv` is `IInv` with `SearchInv`, why no date is lost.  A date that begins a word and that no glued date overlaps is never behind where a call stands while it lies in the call's
  slice (`NonePassed`), the calls above one that stands at its beginning stand there too and have it in their slices (`InnerReach`: what the back-off cuts off
  is no part of it), and what the outermost call has gone past is reported (`PassedReported`).  Calls stand where a token begins (`AllBegin`), so reports begin there.  It rests on what the parser answers (`TopAnswer`): an accepted slice begins with
  a date, up to extra tokens, and a rejected one with none that reaches the token before the offending one, so a recursive call still has it.
  `SearchIsAScan` then takes each action to a step of `DateScan`: the two that report to `Report`, `Finish` to `Return`, `Throw` to `Throw`, and the others to no step.
  Assumed: no token has the kind EOF (`KindsAssumption`), `ReadsAssumption` and `EndsAssumption`.  That the parser of `DateParser` with the dates of `DateGrammar` satisfies them is not proved (it is recursive); TLC evaluates them on
  every slice of the sentences of the run.
- `DateListenerProofs`. First the calendar: the number of a day determines the day and every number of one is that of a day (`DayOfNumber`), so
  the adjusters return days, as many days on as they say (`AdjustedDays`).  No recursion is needed, since the days of a year are the difference of two
  quotients and a year is found as the least that begins behind the day.  Then the phrases: how many calls each form makes, which one comes
  where, and that a handler other than that of a number is called at most once (`CallsFit`).  The invariant says what the date is after the first k calls (`DateAfter`), in terms of the phrase
  and the day the listener was made; that a field still holds what the last call of its handler left there (`FieldsAreRead`), which is what
  a handler further on takes from it; and that what has not thrown has fitted (`Fitted`).  `CalledStep` is one call more.
  The properties are then about `DateAfter` at the end, with no state in between, and a throw is about the one call that did not fit (`ThrownAt`).
  Assumed: clocks show days since 1970 (`ClockAssumption`), phrases are those of the grammar (`PhraseAssumption`, an operator TLC evaluates on the phrases
  of the run), the bound on midnights is a number (`TickAssumption`).
- `WordsProofs`. Each word is looked for from the last character of the one before.  `LooksFrom` says why that finds it: between that character and the place where
  the word stands (`Sited`) there are separators only, or the last letter of the word before with a separator behind it; no word has a separator in it, so an earlier place
  of the word could only be that letter, and then the word is that letter (`Repeats`).  `Found` is the step from one word to the next: found in place or one place
  too early, the next one is looked for from such a character again.  It goes along the words of one n-gram (`RangesAreAtWords`) and, since the next n-gram is looked for from the end of the first word
  of this one, along the n-grams of one length (`NextStartsLook`).  The recursive functions of the model are shown to be what they are defined to be turn by turn
  (`RangesAre`, `SomeNextStarts`, from `SomeTurns`), and the lists of all lengths one length after the other (`NGramsMore`, `NGramsAre`).
  `LongerIsLater`: short n-grams come first, so a later one has as many words or more; if it lay within an earlier one, its first word would not be in front of that one's
  and its last not behind, which leaves the same words.  This takes ranges that are right, so it is about values whose words are found in place in every text
  (`FoundInPlace`): the first word is not a single letter, and the last is not one that ends the word before it.
  Nothing is assumed.
- `GeneralParserProofs`, of `EntitySearch`. The three properties of places are proved of `PlaceParser` and hold of `EntitySearch`, whose steps are steps of it (`PlacesComeFirst`).  The three properties are inductive together; what is needed beyond them is
  that `isGeneralization` is transitive and that covering is, so that a removed place stays accounted for by what removed it.
  And a place is not within one that was looked up before it, unless both have the same range (`LongerLater`): otherwise the new result would stay beside
  the old one that contains it.  Only keys of the tables are places (`PlacesAreKeys`).
  Assumed: texts are lists of characters (`TextsAssumption`), and the keys of the tables are found in place (`NamesAssumption`), which is so of the repository's tables: "laayoune hassan i" is
  the only name that begins or ends in a single letter.
  Trips: while the loop is at the p-th kind and the k-th n-gram, every result is a keyword that was looked up and every keyword that was looked up is covered by a result.
  A new result may cover others, which it stands for from then on since covering is transitive; another of its kind does not cover it, being
  looked up before it.
  The n-grams for trips, in the model the first of those for places, are those `TriptypeParser` makes itself (`TripsHaveTheirNGrams`).
  Assumed: the kinds are the keys of a map (`TriptypesAssumption`), and keywords are found in place (`KeywordsAssumption`).
- `CRFEncoderProofs`. The properties are about one moment and do not hold by themselves: the invariant adds that the id of sentence i is i modulo the number of
  threads (`Given`), that thread k is always at a sentence of remainder k and has counted exactly those before it (`Shares`), and
  that behind the t-th part added the sum holds the remainders below t (`Added`).  Then two threads at work are at
  sentences of different ids, hence of different pools.  The arithmetic is in `ModAdd` and `ModGap`: going on by n stays with one remainder and skips none of it.
  Assumed: a file is a list of sentences (`CorporaAssumption`), there is at least one thread (`ThreadNumsAssumption`, tested by `learn`).
- `OptimizerProofs`, `MIRA`. Behind a round without violations every sentence up to the next has been parsed (`Rechecking`): the counts are 0, and one round raises each
  to 1 only behind its own turn, so nobody is left out even at size 1.  That the count wraps at 256 is in the proof:
  it can only be below the true number (`Earned`).
  Assumed: sizes are natural numbers (`SizeAssumption`), the shrinking size is in 1..65535 (`ShrinkingSizesAssumption`; 0 is refused by `learn`).
- `FeatureIndexProofs`. The ids in use are apart and have no gaps (`Compact`): all of them below `maxid` while ids are given, those of the keys already visited
  below `new_maxid` while they are given anew, when the ids of the rest are still old ones.  `CompactGrows` is the step of both loops.  `Pairs` and
  `WeightsAreIds` turn `*f + y_left * y + y_right` into a block of y squared numbers by division with remainder.
  The lists are an invariant of their own.  `Layout`: they lie one behind the other within the chunks, so a new one, or one rewritten within its
  place, is not where another is.  While ids are given anew, there is a map `old` of the ids before, under which the lists not yet rewritten are still those of their keys, and `old2new` takes old ids of the keys visited to
  the new ones (`Renumbered`); `old` is not in the program any more, so it is existentially quantified.  A list that is rewritten ends where its keys
  that are left end, which the loop finds by the end mark of the old one (`LengthFindsTheEnd`); `OnlyInMapped` does that for every length of a list.
  `CountsIInv`: a count is the number of places of its key so far, and behind the loop of `shrink` a key is there if its count is not below the frequency.
  Assumed: `KeysAssumption` (there is a label), `PositionsAssumption` (the features of a position fit into a chunk), `FreqsAssumption`.
- `TaggerProofs`. Why the search is complete and ordered is one argument.  `Bellman`: no path into a node is better than its best cost.  It needs that the loop over the labels ends at a
  leader (`SomeLeads`), for every number of labels; that is an induction, got from the least number for which it fails (`Least`, by the well-foundedness of the natural numbers, which the
  library states without an operator parameter).  `Waits`: what is in the agenda has as its bound its cost so far and the best way there, and is not
  cheaper than what was given last.  A longer end has no lower bound than the one it is made of, by `Bellman`; and a whole labelling has its cost
  as its bound, since the best cost of the first word is the node's own.  So what `next` reports, the least of the bounds, is not cheaper than
  the labelling before it (`CostsHold`).  `NoneIsLost` is inductive by itself once ends have their types: putting every label in front of an end splits the labellings that end so into
  disjoint parts (`ExpandKeeps`).  Ownership is an invariant of its own (`ModelInv`): in mode `TEST` the index is none or the one it made.
  The implementation of `NBest` (`GivesTheNBest`, step by step in `StepImplements`) also needs what the numbers in the agenda mean.  The score of a labelling is a function of the number of words
  (`Scores`, from `SomeTurns`: what is done turn by turn is a function that stays in its set).  No score of a labelling exceeds the best cost of the node it has
  come to (`BestIsBest`), the labels that `prev` leads to attain it (`TraceIsBest`), and the cost of an end in the agenda is that of its own words, whatever
  stands before it (`CostInv`).  Then the bound of an end is below the cost of every labelling that ends so (`BoundIsBelow`), a whole labelling has its cost as
  its bound, and by `NoneIsLost` every labelling not yet given ends so for some end: the least bound is a cheapest labelling of those left.
  Adding words while there is a lattice leaves its labels, since the lattice is never longer than the sentence (`ResultInv`).
  Assumed: `ScoresAssumption`, that scores are numbers, texts are of words, and there is a label.
- `GeneralParserProofs`, of `GeneralParser`. The recursion is about the parts that are left, and what makes it right is what is around them (`Ordered`): each ends
  where the text does or where a used result starts, each is behind the one before, and no used result reaches into one.  That a result may reach
  one character too far into what follows a part does no harm then: the character is the first of a used result, and two used results would share it
  (`SplitKeepsOrder`, which is where `EndsApart` is needed: without it a result that is only that character fits, and leaves a part that ends before it starts).
  What waits to be used fits into a part or meets a used result (`Accounted`), so when no part is left it meets one.
  The work is without gaps (`Chained`), and the text tagged is that up to where the work begins, with every used result as its label: a part that is copied
  is met by no used result (`PiecesCopied`), and behind the first character of a result the pieces are empty (`PiecesLeftOut`).
  Removing a result from the shared list leaves the others in their order (`Removed`), and a result used in a part does not change the pieces in front of it
  (`LaterResult`).
  The roles need two more invariants, which do not use `EndsApart`.  `TagInv` says where the tagged text is from: there is a map of its entries to the characters of the text
  (`From`), which is in order, and what is left to do is behind it (`InFront`) and in order itself (`InOrder`); or a part is left that ends before it starts,
  which is never copied, so that the walk is not reached (`Stuck`).  A map is needed since the results put may overlap, when the tagged text is not a function of them.
  Two labels can come from the last character of the text, with nothing between them; they are then in one token, since a blank lies between two tokens (`WordPlaces`).  So the
  labels that are tokens are in the order of the starts of their results (`LabelsInOrder`), which is the order of the sorted list, and there
  are no more tokens than characters (`TokensAreFew`), which is what keeps the indices within their lists.
  `WalkInv` is the loop over the tokens: the results behind it have the roles of their own tokens, and that of the next, if it is a token of its own, is ahead (`OwnRoles`).  That
  the next result is not given the token of another with the same label is again the order (`OwnToken`): one in front of it has its token behind the loop,
  and one behind it has its token behind that of the next, which is still ahead.
  That the words of a text stand in it in order, with a blank between two (`WordsHavePlaces`), takes the k-th number of a
  set for every k (`SortedIsSorted`), which is an induction over k.
  Assumed: the range of a result lies in the text and is not empty, and results are objects of their own (`RequestsAssumption`); no word of a request is spelled like a
  label ("en:date"), since such a word would take the role of a result (`LabelsAssumption`).
- `OptimizerProofs`, `LBFGS`. As long as the line search goes on, whatever would end it at the next call has sent it to its best step (`Ended`): that is what
  `GivesUpAtTheBest` needs, and the two conditions of the code differ by the call counted in between.
  The rings: slot `At(p, i)` is the i-th before p around the ring, and while iteration k has its direction in slot p, `At(p, i)` holds the step, the change and the
  number of iteration k - i (`InRing`, for every i up to the number of pairs there are).  The regions of `w` are apart (`Regions`, `Addresses`, `Apart`), so what is written in one
  slot, or to the work vector or the alphas, leaves the others (`SlotStays`, `WorkIsApart`, `StepIsApart`, `ChangeIsApart`): that is what a wrong
  offset would break.  The two loops over the ring are functions of the number of turns, and what they have done after i turns is shown turn by turn (`BackLoop`, `ForthLoop`).
  Then one slot forward is one pair more, the oldest overwritten (`StoredInSlots`, `DirectionIsMade`).
  Assumed: `SizesAssumption` (there are weights, slots and calls).

TLC checks the assumptions on the constants of each run.

Induction over numbers, which several of these need, is cited as: a set of natural numbers that is not empty has a least one (`Least`), by the well-foundedness of
the natural numbers.

Only model-checked: `LeftToRight` and `CutAtSeparators`, which need more of the parser than is assumed of it; everything temporal (`Terminates` of `ParseDate` and `CRFEncoder`, `Returns` of `Tagger`), since liveness under fairness is out of the prover's reach;
and what the decoder finds in a model saved (`DecoderFindsTheIds`),
since `insert` of the double array is a recursive operator.

## Not modelled, and why

Most lines of the repository's C and C++ are bindings that SWIG has generated, in `CRF++-0.58/` under `python`, `perl`, `ruby`, `java` and `swig` (`CRFPP_wrap.*`, some 18000 lines): they convert arguments and call the
functions that are modelled here, and there is nothing of this program in them.  Of the rest:

- The text of tokens and the token boundaries of the lexer, the numbers of twenty and thirty: the search depends on kinds only.  Which text makes a handler throw is left open (`throws`).
- Letters whose lower case is longer or shorter than they are: ranges are found in the text in lower case, of the same length otherwise.
- Models with different labels behind one tagger: the number of labels is the same for all models.
- The numbers of CRF++ (expectations and probabilities, the steps of `mcstep`, the orthants of L1 training): real arithmetic, which TLC does not have.
- Loading files, the command line, the web server, result classes: input and output, or plain data.
- The growth of the double array, its other searches and its files: memory and input.
- `Encoder::convert`: rewrites a model file.
- The templates of the feature index and its files: text and input.
- What the code does outside of what its functions are defined for, beyond the hazards that say so: an empty dictionary saved, an empty text parsed with N-best, penalties too short for the sentence,
  a thread that could not be made.

## Plan

Written, in this order: the date search (the core of the service) with its grammar and abstract specification; the resolution of dates;
n-grams, tables and places; the request, which uses the results of all; training; the feature index; the tagger with its abstract specification; the optimizer and its composition with
training; the double array and its composition with the feature index; trip types and their composition with places.

Left, in this order:

1. Proofs: `DecoderFindsTheIds` for the part of `SavedIndex` that is not the double array.
2. A composition of `ParseDate` and `EntitySearch` with `GeneralParser`: which lists of results a request can really have, in place of all lists.
3. The numbers of twenty and thirty in `DateGrammar`.
4. The assumptions of `DateSearch` for the parser of `DateParser`, and `LeftToRight`, as theorems.
