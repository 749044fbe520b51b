---------------------------- MODULE SearchResults ----------------------------
(***************************************************************************)
(* The search page: SearchResultsViewController.                           *)
(*                                                                         *)
(* Each search is a request.  Completion handlers run one at a time on     *)
(* URLSession's queue, and append to two arrays in step, returnedRecipes   *)
(* and urlArray, downloading a photo for each entry; the main thread reads *)
(* both arrays meanwhile.  When a handler is done it queues a block on the *)
(* main thread that shows the first result.                                *)
(*                                                                         *)
(* A result is the pair of its search and its number in the answer; both   *)
(* arrays hold results, for the card made from one and for its image URL.  *)
(***************************************************************************)
EXTENDS Integers, SequencesExt

CONSTANTS
    Search,     \* the searches of a behaviour: a bound on their number
    MaxHits     \* bound on the well-formed results of one answer

ASSUME SearchAssumption == MaxHits \in Nat \ {0}

VARIABLES
    phase,            \* how far each search is
    hits,             \* the results its answer holds
    done,             \* how many of them its handler has appended
    returnedRecipes,
    urlArray,
    mainQueue,        \* searches whose block waits for the main thread
    shown,            \* entries the carousel knows of; 0 before it has a delegate
    highlight,        \* the result in large, or NoResult
    selectedIndex,
    opened,           \* the card and the URL last passed to the recipe page
    trap              \* what ended the app, or "none"

vars == <<phase, hits, done, returnedRecipes, urlArray, mainQueue, shown, highlight,
          selectedIndex, opened, trap>>
arrays  == <<returnedRecipes, urlArray>>
work    == <<phase, hits, done>>
display == <<shown, highlight, selectedIndex, opened>>

Phase    == {"new", "loading", "card", "url", "queued", "done"}
Result   == Search \X (1 .. MaxHits)
NoResult == <<>>
Trap     == {"none", "keyword", "empty", "index", "race"}

Running == trap = "none"

\* The serial queue is inside a completion handler.
Appending == \E s \in Search : phase[s] \in {"card", "url"}

-----------------------------------------------------------------------------
Init ==
    /\ phase = [s \in Search |-> "new"]
    /\ hits = [s \in Search |-> 0] /\ done = [s \in Search |-> 0]
    /\ returnedRecipes = <<>> /\ urlArray = <<>> /\ mainQueue = <<>>
    /\ shown = 0 /\ highlight = NoResult /\ selectedIndex = 0
    /\ opened = NoResult /\ trap = "none"

\* A search that starts by clearing one of the arrays.
LoadClearingUrls(s) ==
    /\ Running /\ phase[s] = "new"
    /\ phase' = [phase EXCEPT ![s] = "loading"]
    /\ urlArray' = <<>>
    /\ UNCHANGED <<hits, done, returnedRecipes, mainQueue, display, trap>>

\* viewDidLoad with the keyword it was given, and then searchTapped, each time with
\* the text in the field.  Nothing is cleared.
LoadSearchResults(s) ==
    /\ Running /\ phase[s] = "new"
    /\ phase' = [phase EXCEPT ![s] = "loading"]
    /\ UNCHANGED <<hits, done, arrays, mainQueue, display, trap>>

\* The keyword goes into the URL as it is, and one with a space in it makes no URL.
KeywordTraps(s) ==
    /\ Running /\ phase[s] = "new"
    /\ trap' = "keyword"
    /\ UNCHANGED <<work, arrays, mainQueue, display>>

-----------------------------------------------------------------------------
(* The completion handler.                                                 *)

\* An error, a status other than 200, or an answer without "results".
AnswerRefused(s) ==
    /\ Running /\ phase[s] = "loading" /\ ~Appending
    /\ phase' = [phase EXCEPT ![s] = "done"]
    /\ UNCHANGED <<hits, done, arrays, mainQueue, display, trap>>

\* Results, or none; a body that is not a JSON object also goes on with none.
AnswerParsed(s) ==
    /\ Running /\ phase[s] = "loading" /\ ~Appending
    /\ \E n \in 0 .. MaxHits : hits' = [hits EXCEPT ![s] = n]
    /\ phase' = [phase EXCEPT ![s] = "card"]
    /\ UNCHANGED <<done, arrays, mainQueue, display, trap>>

\* The main thread reads the arrays at any time: at the first layout, in a results block,
\* to lay out an item, at a tap.  Each append is then a data race, which may end the app.
AppendCard(s) ==
    /\ Running /\ phase[s] = "card" /\ done[s] < hits[s]
    /\ returnedRecipes' = Append(returnedRecipes, <<s, done[s] + 1>>)
    /\ phase' = [phase EXCEPT ![s] = "url"]
    /\ trap' \in {"none", "race"}
    /\ UNCHANGED <<hits, done, urlArray, mainQueue, display>>

\* A URL that is stored only when the array does not hold one of its search yet.
AppendUrlOnce(s) ==
    /\ Running /\ phase[s] = "url"
    /\ urlArray' = IF \E i \in DOMAIN urlArray : urlArray[i][1] = s
                   THEN urlArray ELSE Append(urlArray, <<s, done[s] + 1>>)
    /\ done' = [done EXCEPT ![s] = @ + 1]
    /\ phase' = [phase EXCEPT ![s] = "card"]
    /\ UNCHANGED <<hits, returnedRecipes, mainQueue, display, trap>>

\* A URL that is inserted at the front.
AppendUrlInFront(s) ==
    /\ Running /\ phase[s] = "url"
    /\ urlArray' = <<<<s, done[s] + 1>>>> \o urlArray
    /\ done' = [done EXCEPT ![s] = @ + 1]
    /\ phase' = [phase EXCEPT ![s] = "card"]
    /\ UNCHANGED <<hits, returnedRecipes, mainQueue, display, trap>>

AppendUrl(s) ==
    /\ Running /\ phase[s] = "url"
    /\ urlArray' = Append(urlArray, <<s, done[s] + 1>>)
    /\ done' = [done EXCEPT ![s] = @ + 1]
    /\ phase' = [phase EXCEPT ![s] = "card"]
    /\ trap' \in {"none", "race"}
    /\ UNCHANGED <<hits, returnedRecipes, mainQueue, display>>

\* A handler that returns early when it found nothing.
QueueBlockIfAny(s) ==
    /\ Running /\ phase[s] = "card" /\ done[s] = hits[s] /\ hits[s] > 0
    /\ mainQueue' = Append(mainQueue, s)
    /\ phase' = [phase EXCEPT ![s] = "queued"]
    /\ UNCHANGED <<hits, done, arrays, display, trap>>

QueueBlock(s) ==
    /\ Running /\ phase[s] = "card" /\ done[s] = hits[s]
    /\ mainQueue' = Append(mainQueue, s)
    /\ phase' = [phase EXCEPT ![s] = "queued"]
    /\ UNCHANGED <<hits, done, arrays, display, trap>>

Handler(s) ==
    AnswerRefused(s) \/ AnswerParsed(s) \/ AppendCard(s) \/ AppendUrl(s) \/ QueueBlock(s)

-----------------------------------------------------------------------------
(* The main thread.                                                        *)

\* The block: the first entry of the array is shown, which is of the first search
\* that found anything.  selectedIndex is left alone.
ShowResults ==
    /\ Running /\ mainQueue # <<>>
    /\ LET s == Head(mainQueue) IN phase' = [phase EXCEPT ![s] = "done"]
    /\ mainQueue' = Tail(mainQueue)
    /\ shown' = Len(returnedRecipes)
    /\ IF returnedRecipes = <<>>
       THEN trap' = "empty" /\ UNCHANGED highlight
       ELSE highlight' = Head(returnedRecipes) /\ UNCHANGED trap
    /\ UNCHANGED <<hits, done, arrays, selectedIndex, opened>>

\* A selection that does not record its index.
SelectUnrecorded ==
    /\ Running
    /\ \E i \in 0 .. shown - 1 :
          highlight' = returnedRecipes[i + 1] /\ selectedIndex' = selectedIndex
    /\ UNCHANGED <<work, arrays, mainQueue, shown, opened, trap>>

\* A selection that counts from 1 on one side only.
SelectFromOne ==
    /\ Running
    /\ \E i \in 0 .. shown - 1 :
          highlight' = returnedRecipes[i + 1] /\ selectedIndex' = i - 1
    /\ UNCHANGED <<work, arrays, mainQueue, shown, opened, trap>>

\* didSelectItemAt
Select ==
    /\ Running
    /\ \E i \in 0 .. shown - 1 :
          highlight' = returnedRecipes[i + 1] /\ selectedIndex' = i
    /\ UNCHANGED <<work, arrays, mainQueue, shown, opened, trap>>

\* imageTapped and prepare(for:sender:), which reads both arrays at selectedIndex.
ImageTapped ==
    /\ Running /\ \E s \in Search : phase[s] # "new"
    /\ IF selectedIndex < Len(returnedRecipes) /\ selectedIndex < Len(urlArray)
       THEN /\ opened' = <<returnedRecipes[selectedIndex + 1], urlArray[selectedIndex + 1]>>
            /\ UNCHANGED trap
       ELSE trap' = "index" /\ UNCHANGED opened
    /\ UNCHANGED <<work, arrays, mainQueue, shown, highlight, selectedIndex>>

Next ==
    \/ \E s \in Search : LoadSearchResults(s) \/ KeywordTraps(s) \/ Handler(s)
    \/ ShowResults \/ Select \/ ImageTapped

\* Requests end by their answer or by their 10-second timeout, and both queues run.
Fairness == (\A s \in Search : WF_vars(Handler(s))) /\ WF_vars(ShowResults)

Spec == Init /\ [][Next]_vars /\ Fairness

-----------------------------------------------------------------------------
\* The state's types.
TypeOK ==
    /\ phase \in [Search -> Phase]
    /\ hits \in [Search -> 0 .. MaxHits] /\ done \in [Search -> 0 .. MaxHits]
    /\ returnedRecipes \in Seq(Result) /\ urlArray \in Seq(Result)
    /\ mainQueue \in Seq(Search)
    /\ shown \in Nat /\ selectedIndex \in Nat
    /\ highlight \in Result \cup {NoResult}
    /\ opened \in (Result \X Result) \cup {NoResult}
    /\ trap \in Trap

\* The two arrays stay in step across searches whose answers come in any order: a
\* URL has the index of its card, and only the entry being appended lacks its URL.
UrlsPairWithCards ==
    /\ IsPrefix(urlArray, returnedRecipes)
    /\ Len(returnedRecipes) - Len(urlArray) \in {0, 1}
    /\ ~Appending => Len(urlArray) = Len(returnedRecipes)

\* The recipe page gets the card and the URL of one result.
OpenedIsOneResult == opened # NoResult => opened[1] = opened[2]

\* Reading the arrays out of range ends the app only before a first result is shown,
\* or while a handler is between the two appends of one entry.
OutOfRangeHasCause ==
    /\ trap = "empty" => highlight = NoResult
    /\ trap = "index" => highlight = NoResult \/ \E s \in Search : phase[s] = "url"

\* A tap on the photo opens the result it shows, until results of another search
\* come: only they move the highlight away from selectedIndex.
TapOpensHighlightInOneSearch ==
    highlight # NoResult /\ Cardinality({s \in Search : phase[s] = "done"}) <= 1 =>
        highlight = returnedRecipes[selectedIndex + 1]

\* A search comes to its end: answered or failed, and shown if it found something.
EverySearchSettles ==
    \A s \in Search : phase[s] = "loading" ~> phase[s] = "done" \/ ~Running

\* What prepare(for:sender:) says it passes on, the selected object, is the recipe the
\* page shows in large.
TapOpensHighlight == highlight # NoResult => highlight = returnedRecipes[selectedIndex + 1]
=============================================================================
