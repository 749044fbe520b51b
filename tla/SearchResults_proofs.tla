------------------------ MODULE SearchResults_proofs -------------------------
(***************************************************************************)
(* Safety of the search page, for any searches and any number of results.  *)
(* The argument: only one handler appends at a time, so that the arrays    *)
(* differ by the entry it is at and by no other, and each search's block   *)
(* is queued once, so that a block run after the first highlight belongs   *)
(* to another search.                                                      *)
(***************************************************************************)
EXTENDS SearchResults, SequenceTheorems, FiniteSetTheorems, TLAPS

\* The searches that came to their end.
Finished == {s \in Search : phase[s] = "done"}

OneAppends ==
    \A s, t \in Search :
        phase[s] \in {"card", "url"} /\ phase[t] \in {"card", "url"} => s = t

\* The arrays are equal but for the entry a handler is between the appends of.
ArraysInStep ==
    /\ \A s \in Search : phase[s] = "url" =>
         /\ done[s] < hits[s]
         /\ returnedRecipes = Append(urlArray, <<s, done[s] + 1>>)
    /\ (\A s \in Search : phase[s] # "url") => urlArray = returnedRecipes

\* A search waits in the main queue once, and is then neither appending nor done.
EachQueuedOnce ==
    /\ \A k \in 1 .. Len(mainQueue) : phase[mainQueue[k]] = "queued"
    /\ \A k, l \in 1 .. Len(mainQueue) : mainQueue[k] = mainQueue[l] => k = l

\* What is on display is in the arrays.
DisplayInArrays ==
    /\ shown <= Len(returnedRecipes)
    /\ highlight # NoResult <=> shown > 0
    /\ highlight # NoResult => selectedIndex < Len(returnedRecipes)
    /\ highlight = NoResult => selectedIndex = 0

\* A first highlight is of a search that is finished.
HighlightIsOfFinished == IsFiniteSet(Finished) /\ (shown > 0 => Finished # {})

IInv ==
    /\ TypeOK
    /\ OneAppends /\ ArraysInStep
    /\ EachQueuedOnce
    /\ DisplayInArrays /\ HighlightIsOfFinished
    /\ OpenedIsOneResult /\ OutOfRangeHasCause /\ TapOpensHighlightInOneSearch

-----------------------------------------------------------------------------
\* A result is not the mark for none.
LEMMA ResultIsSomething == \A r \in Result : r # NoResult
BY DEF Result, NoResult

\* Nothing has been searched for.
LEMMA InitEstablishesIInv == Init => IInv
<1> SUFFICES ASSUME Init
             PROVE  IInv
  OBVIOUS
<1> USE DEF Init
<1>1. TypeOK
  BY SearchAssumption DEF TypeOK, Phase, Trap, NoResult
<1>2. Finished = {}
  BY DEF Finished
<1>3. HighlightIsOfFinished
  BY <1>2, FS_EmptySet DEF HighlightIsOfFinished
<1> QED
  BY <1>1, <1>3 DEF IInv, OneAppends, ArraysInStep, EachQueuedOnce, DisplayInArrays,
                    OpenedIsOneResult, OutOfRangeHasCause, TapOpensHighlightInOneSearch

-----------------------------------------------------------------------------
(* The completion handlers.                                                *)

\* A search moves on without coming to its end, while the queue stands still.
LEMMA PhaseMoves ==
    ASSUME IInv, NEW s \in Search, NEW p \in Phase, phase' = [phase EXCEPT ![s] = p],
           phase[s] \notin {"queued", "done"}, p # "done", mainQueue' = mainQueue
    PROVE  /\ phase' \in [Search -> Phase]
           /\ phase'[s] = p /\ \A t \in Search \ {s} : phase'[t] = phase[t]
           /\ Finished' = Finished
           /\ EachQueuedOnce'
<1>1. phase \in [Search -> Phase] /\ mainQueue \in Seq(Search)
  BY DEF IInv, TypeOK
<1>2. /\ phase' \in [Search -> Phase]
      /\ phase'[s] = p /\ \A t \in Search \ {s} : phase'[t] = phase[t]
  BY <1>1
<1>3. Finished' = Finished
  BY <1>2 DEF Finished
<1>4. EachQueuedOnce'
  <2>1. \A k \in 1 .. Len(mainQueue) : mainQueue[k] \in Search /\ mainQueue[k] # s
    BY <1>1 DEF IInv, EachQueuedOnce
  <2> QED
    BY <1>2, <2>1 DEF IInv, EachQueuedOnce
<1> QED
  BY <1>2, <1>3, <1>4

\* What is on display stays right while the arrays grow and no search ends.
LEMMA DisplayStays ==
    ASSUME IInv, UNCHANGED display, Finished' = Finished,
           returnedRecipes' \in Seq(Result), Len(returnedRecipes) <= Len(returnedRecipes'),
           \A i \in 1 .. Len(returnedRecipes) : returnedRecipes'[i] = returnedRecipes[i]
    PROVE  DisplayInArrays' /\ HighlightIsOfFinished' /\ OpenedIsOneResult'
           /\ TapOpensHighlightInOneSearch'
<1>1. /\ shown \in Nat /\ selectedIndex \in Nat
      /\ Len(returnedRecipes) \in Nat /\ Len(returnedRecipes') \in Nat
  BY DEF IInv, TypeOK
<1>2. DisplayInArrays'
  BY <1>1 DEF IInv, DisplayInArrays, display
<1>3. HighlightIsOfFinished' /\ OpenedIsOneResult'
  BY DEF IInv, HighlightIsOfFinished, OpenedIsOneResult, display
<1>4. TapOpensHighlightInOneSearch'
  <2> SUFFICES ASSUME highlight # NoResult, Cardinality(Finished) <= 1
               PROVE  highlight = returnedRecipes'[selectedIndex + 1]
    BY DEF TapOpensHighlightInOneSearch, Finished, display
  <2>1. highlight = returnedRecipes[selectedIndex + 1]
    BY DEF IInv, TapOpensHighlightInOneSearch, Finished
  <2>2. selectedIndex + 1 \in 1 .. Len(returnedRecipes)
    BY <1>1 DEF IInv, DisplayInArrays
  <2> QED
    BY <2>1, <2>2
<1> QED
  BY <1>2, <1>3, <1>4

\* A new search.
LEMMA LoadPreservesIInv ==
    ASSUME IInv, NEW s \in Search, LoadSearchResults(s)
    PROVE  IInv'
<1>1. /\ phase[s] = "new" /\ phase' = [phase EXCEPT ![s] = "loading"] /\ trap' = "none"
      /\ UNCHANGED <<hits, done, arrays, mainQueue, display>>
  BY DEF LoadSearchResults, Running
<1>2. "loading" \in Phase
  BY DEF Phase
<1>3. /\ phase' \in [Search -> Phase] /\ EachQueuedOnce' /\ Finished' = Finished
      /\ phase'[s] = "loading" /\ \A t \in Search \ {s} : phase'[t] = phase[t]
  BY <1>1, <1>2, PhaseMoves
<1>4. DisplayInArrays' /\ HighlightIsOfFinished' /\ OpenedIsOneResult'
      /\ TapOpensHighlightInOneSearch'
  BY <1>1, <1>3, DisplayStays DEF IInv, TypeOK, arrays
<1>5. TypeOK'
  BY <1>1, <1>3 DEF IInv, TypeOK, arrays, display, Trap
<1>6. OneAppends' /\ ArraysInStep'
  BY <1>1, <1>3 DEF IInv, OneAppends, ArraysInStep, arrays
<1>7. OutOfRangeHasCause'
  BY <1>1 DEF OutOfRangeHasCause
<1> QED
  BY <1>3, <1>4, <1>5, <1>6, <1>7 DEF IInv

\* An answer with results.
LEMMA AnswerParsedPreservesIInv ==
    ASSUME IInv, NEW s \in Search, AnswerParsed(s)
    PROVE  IInv'
<1>1. /\ phase[s] = "loading" /\ phase' = [phase EXCEPT ![s] = "card"] /\ trap' = "none"
      /\ ~Appending
      /\ UNCHANGED <<done, arrays, mainQueue, display>>
  BY DEF AnswerParsed, Running
<1>2. PICK n \in 0 .. MaxHits : hits' = [hits EXCEPT ![s] = n]
  BY DEF AnswerParsed
<1>3. "card" \in Phase
  BY DEF Phase
<1>4. /\ phase' \in [Search -> Phase] /\ EachQueuedOnce' /\ Finished' = Finished
      /\ phase'[s] = "card" /\ \A t \in Search \ {s} : phase'[t] = phase[t]
  BY <1>1, <1>3, PhaseMoves
<1>5. DisplayInArrays' /\ HighlightIsOfFinished' /\ OpenedIsOneResult'
      /\ TapOpensHighlightInOneSearch'
  BY <1>1, <1>4, DisplayStays DEF IInv, TypeOK, arrays
<1>6. TypeOK'
  BY <1>1, <1>2, <1>4 DEF IInv, TypeOK, arrays, display, Trap
<1>7. OneAppends' /\ ArraysInStep'
  BY <1>1, <1>4 DEF IInv, OneAppends, ArraysInStep, arrays, Appending
<1>8. OutOfRangeHasCause'
  BY <1>1 DEF OutOfRangeHasCause
<1> QED
  BY <1>4, <1>5, <1>6, <1>7, <1>8 DEF IInv

\* A first append: the entry lacks its URL from now on.
LEMMA AppendCardPreservesIInv ==
    ASSUME IInv, NEW s \in Search, AppendCard(s)
    PROVE  IInv'
<1> DEFINE r == <<s, done[s] + 1>>
<1>1. /\ phase[s] = "card" /\ done[s] < hits[s] /\ phase' = [phase EXCEPT ![s] = "url"]
      /\ returnedRecipes' = Append(returnedRecipes, r) /\ trap' \in {"none", "race"}
      /\ UNCHANGED <<hits, done, urlArray, mainQueue, display>>
  BY DEF AppendCard
<1>2. "url" \in Phase
  BY DEF Phase
<1>3. /\ phase' \in [Search -> Phase] /\ EachQueuedOnce' /\ Finished' = Finished
      /\ phase'[s] = "url" /\ \A t \in Search \ {s} : phase'[t] = phase[t]
  BY <1>1, <1>2, PhaseMoves
<1>4. r \in Result
  <2>1. hits[s] \in 0 .. MaxHits /\ done[s] \in 0 .. MaxHits /\ MaxHits \in Nat
    BY SearchAssumption DEF IInv, TypeOK
  <2>2. done[s] + 1 \in 1 .. MaxHits
    BY <1>1, <2>1
  <2> QED
    BY <2>2 DEF Result
<1>5. /\ returnedRecipes' \in Seq(Result) /\ Len(returnedRecipes') = Len(returnedRecipes) + 1
      /\ \A i \in 1 .. Len(returnedRecipes) : returnedRecipes'[i] = returnedRecipes[i]
      /\ Len(returnedRecipes) \in Nat
  BY <1>1, <1>4, AppendProperties DEF IInv, TypeOK
<1>6. DisplayInArrays' /\ HighlightIsOfFinished' /\ OpenedIsOneResult'
      /\ TapOpensHighlightInOneSearch'
  BY <1>1, <1>3, <1>5, DisplayStays
<1>7. TypeOK'
  BY <1>1, <1>3, <1>5 DEF IInv, TypeOK, display, Trap
<1>8. \A t \in Search : phase[t] # "url"
  BY <1>1 DEF IInv, OneAppends
<1>9. OneAppends' /\ ArraysInStep'
  BY <1>1, <1>3, <1>8 DEF IInv, OneAppends, ArraysInStep
<1>10. OutOfRangeHasCause'
  BY <1>1 DEF OutOfRangeHasCause
<1> QED
  BY <1>3, <1>6, <1>7, <1>9, <1>10 DEF IInv

\* The second append of the entry: the arrays are in step again.
LEMMA AppendUrlPreservesIInv ==
    ASSUME IInv, NEW s \in Search, AppendUrl(s)
    PROVE  IInv'
<1> DEFINE r == <<s, done[s] + 1>>
<1>1. /\ phase[s] = "url" /\ phase' = [phase EXCEPT ![s] = "card"] /\ trap' \in {"none", "race"}
      /\ urlArray' = Append(urlArray, r) /\ done' = [done EXCEPT ![s] = @ + 1]
      /\ UNCHANGED <<hits, returnedRecipes, mainQueue, display>>
  BY DEF AppendUrl
<1>2. "card" \in Phase
  BY DEF Phase
<1>3. /\ phase' \in [Search -> Phase] /\ EachQueuedOnce' /\ Finished' = Finished
      /\ phase'[s] = "card" /\ \A t \in Search \ {s} : phase'[t] = phase[t]
  BY <1>1, <1>2, PhaseMoves
<1>4. done[s] < hits[s] /\ returnedRecipes = Append(urlArray, r)
  BY <1>1 DEF IInv, ArraysInStep
<1>5. urlArray' \in Seq(Result) /\ urlArray' = returnedRecipes'
  BY <1>1, <1>4 DEF IInv, TypeOK
<1>6. done' \in [Search -> 0 .. MaxHits]
  BY <1>1, <1>4, SearchAssumption DEF IInv, TypeOK
<1>7. DisplayInArrays' /\ HighlightIsOfFinished' /\ OpenedIsOneResult'
      /\ TapOpensHighlightInOneSearch'
  BY <1>1, <1>3, DisplayStays DEF IInv, TypeOK
<1>8. TypeOK'
  BY <1>1, <1>3, <1>5, <1>6 DEF IInv, TypeOK, display, Trap
<1>9. \A t \in Search : phase'[t] # "url"
  BY <1>1, <1>3 DEF IInv, OneAppends
<1>10. OneAppends' /\ ArraysInStep'
  BY <1>1, <1>3, <1>5, <1>9 DEF IInv, OneAppends, ArraysInStep
<1>11. OutOfRangeHasCause'
  BY <1>1 DEF OutOfRangeHasCause
<1> QED
  BY <1>3, <1>7, <1>8, <1>10, <1>11 DEF IInv

\* The handler is through, and its block is queued behind the others.
LEMMA QueueBlockPreservesIInv ==
    ASSUME IInv, NEW s \in Search, QueueBlock(s)
    PROVE  IInv'
<1>1. /\ phase[s] = "card" /\ phase' = [phase EXCEPT ![s] = "queued"] /\ trap' = "none"
      /\ mainQueue' = Append(mainQueue, s)
      /\ UNCHANGED <<hits, done, arrays, display>>
  BY DEF QueueBlock, Running
<1>2. phase \in [Search -> Phase] /\ mainQueue \in Seq(Search)
  BY DEF IInv, TypeOK
<1>3. /\ phase' \in [Search -> Phase]
      /\ phase'[s] = "queued" /\ \A t \in Search \ {s} : phase'[t] = phase[t]
  BY <1>1, <1>2 DEF Phase
<1>4. /\ mainQueue' \in Seq(Search) /\ Len(mainQueue) \in Nat
      /\ Len(mainQueue') = Len(mainQueue) + 1
      /\ \A k \in 1 .. Len(mainQueue) : mainQueue'[k] = mainQueue[k]
      /\ mainQueue'[Len(mainQueue) + 1] = s
  BY <1>1, <1>2, AppendProperties
<1>5. \A k \in 1 .. Len(mainQueue) : mainQueue[k] \in Search \ {s} /\ phase'[mainQueue[k]] = "queued"
  BY <1>1, <1>2, <1>3 DEF IInv, EachQueuedOnce
<1>6. EachQueuedOnce'
  <2>1. \A k \in 1 .. Len(mainQueue') : k \in 1 .. Len(mainQueue) \/ k = Len(mainQueue) + 1
    BY <1>4
  <2>2. \A k, l \in 1 .. Len(mainQueue) : mainQueue[k] = mainQueue[l] => k = l
    BY DEF IInv, EachQueuedOnce
  <2> QED
    BY <1>3, <1>4, <1>5, <2>1, <2>2 DEF EachQueuedOnce
<1>7. Finished' = Finished
  BY <1>1, <1>3 DEF Finished
<1>8. DisplayInArrays' /\ HighlightIsOfFinished' /\ OpenedIsOneResult'
      /\ TapOpensHighlightInOneSearch'
  BY <1>1, <1>7, DisplayStays DEF IInv, TypeOK, arrays
<1>9. TypeOK'
  BY <1>1, <1>3, <1>4 DEF IInv, TypeOK, arrays, display, Trap
<1>10. OneAppends' /\ ArraysInStep'
  BY <1>1, <1>3 DEF IInv, OneAppends, ArraysInStep, arrays
<1>11. OutOfRangeHasCause'
  BY <1>1 DEF OutOfRangeHasCause
<1> QED
  BY <1>6, <1>8, <1>9, <1>10, <1>11 DEF IInv

-----------------------------------------------------------------------------
(* A search comes to its end.                                              *)

\* One search more is finished, and if one was before there are now two.
LEMMA OneMoreFinished ==
    ASSUME IInv, NEW s \in Search, phase[s] # "done", phase' = [phase EXCEPT ![s] = "done"]
    PROVE  /\ phase' \in [Search -> Phase]
           /\ phase'[s] = "done" /\ \A t \in Search \ {s} : phase'[t] = phase[t]
           /\ IsFiniteSet(Finished') /\ Finished' # {}
           /\ Cardinality(Finished') = Cardinality(Finished) + 1
           /\ Cardinality(Finished) \in Nat
           /\ Finished # {} => Cardinality(Finished) > 0
<1>1. phase \in [Search -> Phase]
  BY DEF IInv, TypeOK
<1>2. /\ phase' \in [Search -> Phase]
      /\ phase'[s] = "done" /\ \A t \in Search \ {s} : phase'[t] = phase[t]
  BY <1>1 DEF Phase
<1>3. Finished' = Finished \cup {s} /\ s \notin Finished
  BY <1>2 DEF Finished
<1>4. IsFiniteSet(Finished)
  BY DEF IInv, HighlightIsOfFinished
<1>5. Cardinality(Finished) \in Nat /\ (Finished # {} => Cardinality(Finished) > 0)
  BY <1>4, FS_CardinalityType, FS_EmptySet
<1> QED
  BY <1>2, <1>3, <1>4, <1>5, FS_AddElement

\* A request that failed ends without a block.
LEMMA AnswerRefusedPreservesIInv ==
    ASSUME IInv, NEW s \in Search, AnswerRefused(s)
    PROVE  IInv'
<1>1. /\ phase[s] = "loading" /\ phase' = [phase EXCEPT ![s] = "done"] /\ trap' = "none"
      /\ UNCHANGED <<hits, done, arrays, mainQueue, display>>
  BY DEF AnswerRefused, Running
<1>2. /\ phase' \in [Search -> Phase]
      /\ phase'[s] = "done" /\ \A t \in Search \ {s} : phase'[t] = phase[t]
      /\ IsFiniteSet(Finished') /\ Finished' # {}
      /\ Cardinality(Finished') = Cardinality(Finished) + 1 /\ Cardinality(Finished) \in Nat
  BY <1>1, OneMoreFinished
<1>3. TypeOK'
  BY <1>1, <1>2 DEF IInv, TypeOK, arrays, display, Trap
<1>4. OneAppends' /\ ArraysInStep'
  BY <1>1, <1>2 DEF IInv, OneAppends, ArraysInStep, arrays
<1>5. EachQueuedOnce'
  <2>1. \A k \in 1 .. Len(mainQueue) : mainQueue[k] \in Search \ {s}
    BY <1>1 DEF IInv, TypeOK, EachQueuedOnce
  <2> QED
    BY <1>1, <1>2, <2>1 DEF IInv, EachQueuedOnce
<1>6. DisplayInArrays' /\ HighlightIsOfFinished' /\ OpenedIsOneResult' /\ OutOfRangeHasCause'
  BY <1>1, <1>2 DEF IInv, DisplayInArrays, HighlightIsOfFinished, OpenedIsOneResult,
                    OutOfRangeHasCause, arrays, display
<1>7. TapOpensHighlightInOneSearch'
  <2>1. Cardinality(Finished') <= 1 => Cardinality(Finished) <= 1
    BY <1>2
  <2> QED
    BY <1>1, <2>1 DEF IInv, TapOpensHighlightInOneSearch, Finished, arrays, display
<1> QED
  BY <1>3, <1>4, <1>5, <1>6, <1>7 DEF IInv

\* A block runs.  If it finds nothing the app ends before a first highlight; if
\* there was a highlight, two searches are finished now.
LEMMA ShowResultsPreservesIInv ==
    ASSUME IInv, ShowResults
    PROVE  IInv'
<1> DEFINE s == Head(mainQueue)
<1>1. /\ mainQueue # <<>> /\ mainQueue' = Tail(mainQueue) /\ trap = "none"
      /\ phase' = [phase EXCEPT ![s] = "done"] /\ shown' = Len(returnedRecipes)
      /\ UNCHANGED <<hits, done, arrays, selectedIndex, opened>>
  BY DEF ShowResults, Running
<1>2. mainQueue \in Seq(Search) /\ returnedRecipes \in Seq(Result)
  BY DEF IInv, TypeOK
<1>3. /\ s \in Search /\ s = mainQueue[1] /\ Len(mainQueue) \in Nat \ {0}
      /\ mainQueue' \in Seq(Search) /\ Len(mainQueue') = Len(mainQueue) - 1
      /\ \A k \in 1 .. Len(mainQueue') : mainQueue'[k] = mainQueue[k + 1]
  BY <1>1, <1>2, HeadTailProperties, EmptySeq
<1>4. phase[s] = "queued"
  BY <1>3 DEF IInv, EachQueuedOnce
<1>5. /\ phase' \in [Search -> Phase]
      /\ phase'[s] = "done" /\ \A t \in Search \ {s} : phase'[t] = phase[t]
      /\ IsFiniteSet(Finished') /\ Finished' # {}
      /\ Cardinality(Finished') = Cardinality(Finished) + 1 /\ Cardinality(Finished) \in Nat
      /\ Finished # {} => Cardinality(Finished) > 0
  BY <1>1, <1>3, <1>4, OneMoreFinished
<1> HIDE DEF s
<1>6. OneAppends' /\ ArraysInStep'
  BY <1>1, <1>3, <1>4, <1>5 DEF IInv, OneAppends, ArraysInStep, arrays
<1>7. EachQueuedOnce'
  <2>1. \A k \in 1 .. Len(mainQueue') : k + 1 \in 1 .. Len(mainQueue) /\ k + 1 # 1
    BY <1>3
  <2>2. \A k \in 1 .. Len(mainQueue) : k # 1 => mainQueue[k] \in Search \ {s}
    BY <1>2, <1>3 DEF IInv, EachQueuedOnce
  <2>3. \A k \in 1 .. Len(mainQueue') : phase'[mainQueue'[k]] = "queued"
    <3> TAKE k \in 1 .. Len(mainQueue')
    <3>1. mainQueue'[k] = mainQueue[k + 1] /\ mainQueue[k + 1] \in Search \ {s}
      BY <1>3, <2>1, <2>2
    <3>2. phase[mainQueue[k + 1]] = "queued"
      BY <2>1 DEF IInv, EachQueuedOnce
    <3> QED
      BY <1>5, <3>1, <3>2
  <2>4. \A k, l \in 1 .. Len(mainQueue') : mainQueue'[k] = mainQueue'[l] => k = l
    <3> TAKE k, l \in 1 .. Len(mainQueue')
    <3>1. mainQueue[k + 1] = mainQueue[l + 1] => k + 1 = l + 1
      BY <2>1 DEF IInv, EachQueuedOnce
    <3> QED
      BY <1>3, <3>1
  <2> QED
    BY <2>3, <2>4 DEF EachQueuedOnce
<1>8. CASE returnedRecipes = <<>>
  <2>1. trap' = "empty" /\ highlight' = highlight
    BY <1>8 DEF ShowResults
  <2>2. shown = 0 /\ shown' = 0 /\ highlight = NoResult /\ selectedIndex = 0
    BY <1>1, <1>8 DEF IInv, TypeOK, DisplayInArrays
  <2>3. TypeOK'
    BY <1>1, <1>3, <1>5, <2>1, <2>2 DEF IInv, TypeOK, arrays, Trap
  <2> QED
    BY <1>1, <1>5, <1>6, <1>7, <1>8, <2>1, <2>2, <2>3
       DEF IInv, DisplayInArrays, HighlightIsOfFinished, OpenedIsOneResult, OutOfRangeHasCause,
           TapOpensHighlightInOneSearch, arrays
<1>9. CASE returnedRecipes # <<>>
  <2>1. highlight' = Head(returnedRecipes) /\ trap' = "none"
    BY <1>1, <1>9 DEF ShowResults
  <2>2. /\ Len(returnedRecipes) \in Nat /\ Len(returnedRecipes) > 0
        /\ highlight' = returnedRecipes[1] /\ highlight' \in Result
    BY <1>2, <1>9, <2>1, HeadTailProperties, EmptySeq
  <2>3. highlight' # NoResult
    BY <2>2, ResultIsSomething
  <2>4. TypeOK'
    BY <1>1, <1>3, <1>5, <2>1, <2>2 DEF IInv, TypeOK, arrays, Trap
  <2>5. DisplayInArrays'
    BY <1>1, <2>2, <2>3 DEF IInv, TypeOK, DisplayInArrays, arrays
  <2>6. HighlightIsOfFinished' /\ OpenedIsOneResult' /\ OutOfRangeHasCause'
    BY <1>1, <1>5, <2>1 DEF IInv, HighlightIsOfFinished, OpenedIsOneResult, OutOfRangeHasCause
  <2>7. TapOpensHighlightInOneSearch'
    <3>1. Cardinality(Finished') <= 1 => selectedIndex = 0
      <4>1. Finished # {} => Cardinality(Finished') > 1
        BY <1>5
      <4>2. Finished = {} => shown = 0
        BY DEF IInv, HighlightIsOfFinished, TypeOK
      <4>3. shown = 0 => selectedIndex = 0
        BY DEF IInv, DisplayInArrays
      <4> QED
        BY <1>5, <4>1, <4>2, <4>3
    <3> QED
      BY <1>1, <2>2, <3>1 DEF TapOpensHighlightInOneSearch, Finished, arrays
  <2> QED
    BY <1>6, <1>7, <2>4, <2>5, <2>6, <2>7 DEF IInv
<1> QED
  BY <1>8, <1>9

-----------------------------------------------------------------------------
(* The user.                                                               *)

\* A result is selected.
LEMMA SelectPreservesIInv ==
    ASSUME IInv, Select
    PROVE  IInv'
<1>1. PICK i \in 0 .. shown - 1 : highlight' = returnedRecipes[i + 1] /\ selectedIndex' = i
  BY DEF Select
<1>2. trap = "none" /\ UNCHANGED <<work, arrays, mainQueue, shown, opened, trap>>
  BY DEF Select, Running
<1>3. /\ shown \in Nat /\ returnedRecipes \in Seq(Result) /\ Len(returnedRecipes) \in Nat
      /\ shown <= Len(returnedRecipes)
  BY DEF IInv, TypeOK, DisplayInArrays
<1>4. i \in Nat /\ i + 1 \in 1 .. Len(returnedRecipes) /\ shown > 0
  BY <1>3
<1>5. highlight' \in Result /\ highlight' # NoResult
  BY <1>1, <1>3, <1>4, ElementOfSeq, ResultIsSomething
<1>6. TypeOK'
  BY <1>1, <1>2, <1>4, <1>5 DEF IInv, TypeOK, work, arrays
<1>7. DisplayInArrays' /\ TapOpensHighlightInOneSearch'
  BY <1>1, <1>2, <1>3, <1>4, <1>5 DEF DisplayInArrays, TapOpensHighlightInOneSearch, arrays
<1>8. OneAppends' /\ ArraysInStep' /\ EachQueuedOnce' /\ HighlightIsOfFinished'
      /\ OpenedIsOneResult' /\ OutOfRangeHasCause'
  BY <1>2 DEF IInv, OneAppends, ArraysInStep, EachQueuedOnce, HighlightIsOfFinished, Finished,
              OpenedIsOneResult, OutOfRangeHasCause, work, arrays
<1> QED
  BY <1>6, <1>7, <1>8 DEF IInv

\* The photo is tapped: if both arrays reach selectedIndex, they hold there the card
\* and the URL of one result; if not, an entry is being appended or none is shown.
LEMMA ImageTappedPreservesIInv ==
    ASSUME IInv, ImageTapped
    PROVE  IInv'
<1>1. trap = "none" /\ UNCHANGED <<work, arrays, mainQueue, shown, highlight, selectedIndex>>
  BY DEF ImageTapped, Running
<1>2. /\ selectedIndex \in Nat
      /\ returnedRecipes \in Seq(Result) /\ Len(returnedRecipes) \in Nat
      /\ urlArray \in Seq(Result) /\ Len(urlArray) \in Nat
  BY DEF IInv, TypeOK
<1>3. OneAppends' /\ ArraysInStep' /\ EachQueuedOnce' /\ HighlightIsOfFinished'
      /\ DisplayInArrays' /\ TapOpensHighlightInOneSearch'
  BY <1>1 DEF IInv, OneAppends, ArraysInStep, EachQueuedOnce, HighlightIsOfFinished, Finished,
              DisplayInArrays, TapOpensHighlightInOneSearch, work, arrays
<1>4. CASE selectedIndex < Len(returnedRecipes) /\ selectedIndex < Len(urlArray)
  <2>1. /\ opened' = <<returnedRecipes[selectedIndex + 1], urlArray[selectedIndex + 1]>>
        /\ trap' = "none"
    BY <1>1, <1>4 DEF ImageTapped
  <2>2. /\ selectedIndex + 1 \in 1 .. Len(returnedRecipes)
        /\ selectedIndex + 1 \in 1 .. Len(urlArray)
    BY <1>2, <1>4
  <2>3. /\ returnedRecipes[selectedIndex + 1] \in Result
        /\ urlArray[selectedIndex + 1] \in Result
    BY <1>2, <2>2, ElementOfSeq
  <2>4. returnedRecipes[selectedIndex + 1] = urlArray[selectedIndex + 1]
    <3>1. CASE \E s \in Search : phase[s] = "url"
      <4>1. PICK s \in Search : phase[s] = "url"
        BY <3>1
      <4>2. returnedRecipes = Append(urlArray, <<s, done[s] + 1>>) /\ done[s] < hits[s]
        BY <4>1 DEF IInv, ArraysInStep
      <4>3. <<s, done[s] + 1>> \in Result
        BY <4>2 DEF IInv, TypeOK, Result
      <4> QED
        BY <1>2, <2>2, <4>2, <4>3, AppendProperties
    <3>2. CASE \A s \in Search : phase[s] # "url"
      BY <3>2 DEF IInv, ArraysInStep
    <3> QED
      BY <3>1, <3>2
  <2>5. TypeOK'
    BY <1>1, <2>1, <2>3 DEF IInv, TypeOK, work, arrays
  <2> QED
    BY <1>3, <2>1, <2>4, <2>5 DEF IInv, OpenedIsOneResult, OutOfRangeHasCause
<1>5. CASE ~(selectedIndex < Len(returnedRecipes) /\ selectedIndex < Len(urlArray))
  <2>1. trap' = "index" /\ opened' = opened
    BY <1>5 DEF ImageTapped
  <2>2. highlight = NoResult \/ \E s \in Search : phase[s] = "url"
    <3> SUFFICES ASSUME highlight # NoResult, \A s \in Search : phase[s] # "url"
                 PROVE  FALSE
      OBVIOUS
    <3>1. selectedIndex < Len(returnedRecipes) /\ urlArray = returnedRecipes
      BY DEF IInv, DisplayInArrays, ArraysInStep
    <3> QED
      BY <1>5, <3>1
  <2>3. TypeOK'
    BY <1>1, <2>1 DEF IInv, TypeOK, work, arrays, Trap
  <2> QED
    BY <1>1, <1>3, <2>1, <2>2, <2>3 DEF IInv, OpenedIsOneResult, OutOfRangeHasCause, work
<1> QED
  BY <1>4, <1>5

-----------------------------------------------------------------------------
\* Every step of the specification.
LEMMA NextPreservesIInv == IInv /\ [Next]_vars => IInv'
<1> SUFFICES ASSUME IInv, [Next]_vars
             PROVE  IInv'
  OBVIOUS
<1>1. ASSUME NEW s \in Search, LoadSearchResults(s)
      PROVE  IInv'
  BY <1>1, LoadPreservesIInv
<1>2. ASSUME NEW s \in Search, KeywordTraps(s)
      PROVE  IInv'
  BY <1>2 DEF KeywordTraps, IInv, TypeOK, OneAppends, ArraysInStep, EachQueuedOnce,
              DisplayInArrays, HighlightIsOfFinished, Finished, OpenedIsOneResult,
              OutOfRangeHasCause, TapOpensHighlightInOneSearch, work, arrays, display, Trap
<1>3. ASSUME NEW s \in Search, Handler(s)
      PROVE  IInv'
  BY <1>3, AnswerRefusedPreservesIInv, AnswerParsedPreservesIInv, AppendCardPreservesIInv,
     AppendUrlPreservesIInv, QueueBlockPreservesIInv DEF Handler
<1>4. CASE ShowResults
  BY <1>4, ShowResultsPreservesIInv
<1>5. CASE Select
  BY <1>5, SelectPreservesIInv
<1>6. CASE ImageTapped
  BY <1>6, ImageTappedPreservesIInv
<1>7. CASE UNCHANGED vars
  BY <1>7 DEF vars, IInv, TypeOK, OneAppends, ArraysInStep, EachQueuedOnce,
              DisplayInArrays, HighlightIsOfFinished, Finished, OpenedIsOneResult,
              OutOfRangeHasCause, TapOpensHighlightInOneSearch
<1> QED
  BY <1>1, <1>2, <1>3, <1>4, <1>5, <1>6, <1>7 DEF Next

-----------------------------------------------------------------------------
\* Every behaviour keeps the inductive invariant.
THEOREM InductiveInvariant == Spec => []IInv
BY InitEstablishesIInv, NextPreservesIInv, PTL DEF Spec

\* The types of the search page's state.
THEOREM TypeCorrect == Spec => []TypeOK
<1>1. IInv => TypeOK
  BY DEF IInv
<1> QED
  BY <1>1, InductiveInvariant, PTL

\* Whatever the searches and the order of their answers, a URL has the index of its
\* card, and only the entry being appended lacks its URL.
THEOREM UrlsPair == Spec => []UrlsPairWithCards
<1>1. IInv => UrlsPairWithCards
  <2> SUFFICES ASSUME IInv
               PROVE  UrlsPairWithCards
    OBVIOUS
  <2>1. /\ returnedRecipes \in Seq(Result) /\ Len(returnedRecipes) \in Nat
        /\ urlArray \in Seq(Result) /\ Len(urlArray) \in Nat
    BY DEF IInv, TypeOK
  <2>2. CASE \A s \in Search : phase[s] # "url"
    <3>1. urlArray = returnedRecipes
      BY <2>2 DEF IInv, ArraysInStep
    <3> QED
      BY <2>1, <3>1 DEF UrlsPairWithCards, IsPrefix
  <2>3. CASE \E s \in Search : phase[s] = "url"
    <3>1. PICK s \in Search : phase[s] = "url"
      BY <2>3
    <3>2. returnedRecipes = Append(urlArray, <<s, done[s] + 1>>) /\ done[s] < hits[s]
      BY <3>1 DEF IInv, ArraysInStep
    <3>3. <<s, done[s] + 1>> \in Result
      BY <3>2 DEF IInv, TypeOK, Result
    <3>4. /\ Len(returnedRecipes) = Len(urlArray) + 1
          /\ \A i \in 1 .. Len(urlArray) : returnedRecipes[i] = urlArray[i]
      BY <2>1, <3>2, <3>3, AppendProperties
    <3>5. SubSeq(urlArray, 1, Len(urlArray)) = SubSeq(returnedRecipes, 1, Len(urlArray))
      <4> DEFINE n == Len(urlArray)
      <4>1. n \in Nat /\ \A i \in 1 .. n : urlArray[i] \in Result /\ returnedRecipes[i] \in Result
        BY <2>1, <3>4
      <4>2. /\ SubSeq(urlArray, 1, n) \in Seq(Result) /\ Len(SubSeq(urlArray, 1, n)) = n
            /\ \A i \in 1 .. n : SubSeq(urlArray, 1, n)[i] = urlArray[i]
        BY <4>1, SubSeqProperties
      <4>3. /\ SubSeq(returnedRecipes, 1, n) \in Seq(Result)
            /\ Len(SubSeq(returnedRecipes, 1, n)) = n
            /\ \A i \in 1 .. n : SubSeq(returnedRecipes, 1, n)[i] = returnedRecipes[i]
        BY <4>1, SubSeqProperties
      <4> QED
        BY <3>4, <4>2, <4>3, SeqEqual
    <3>6. Appending
      BY <3>1 DEF Appending
    <3> QED
      BY <2>1, <3>4, <3>5, <3>6 DEF UrlsPairWithCards, IsPrefix
  <2> QED
    BY <2>2, <2>3
<1> QED
  BY <1>1, InductiveInvariant, PTL

\* The recipe page gets the card and the URL of one result.
THEOREM OpenedResultIsOne == Spec => []OpenedIsOneResult
<1>1. IInv => OpenedIsOneResult
  BY DEF IInv
<1> QED
  BY <1>1, InductiveInvariant, PTL

\* The arrays are read out of range only before a first result is shown, or between
\* the two appends of one entry.
THEOREM OutOfRangeReadsHaveACause == Spec => []OutOfRangeHasCause
<1>1. IInv => OutOfRangeHasCause
  BY DEF IInv
<1> QED
  BY <1>1, InductiveInvariant, PTL

\* Until a second search ends, the photo opens the result it shows.
THEOREM PhotoOpensWhatItShows == Spec => []TapOpensHighlightInOneSearch
<1>1. IInv => TapOpensHighlightInOneSearch
  BY DEF IInv
<1> QED
  BY <1>1, InductiveInvariant, PTL
=============================================================================
