--------------------------- MODULE WatchLink_proofs ---------------------------
(***************************************************************************)
(* Phone and watch implement RecipeShelf, for every number of pages,       *)
(* recipes and steps.  The phone's own invariant is InstructionFeed's,     *)
(* proved there; here is what the watch adds to it.                        *)
(***************************************************************************)
EXTENDS WatchLink, SequenceTheorems, TLAPS

Proved == INSTANCE InstructionFeed_proofs WITH alive <- phoneAlive

\* The same phone, named twice: by WatchLink and with its proofs.
LEMMA SameInvariant == (Phone!IInv <=> Proved!IInv) /\ (Phone!IInv' <=> Proved!IInv')
BY Zenon
   DEF Phone!TypeOK, Proved!TypeOK, Phone!Phase, Proved!Phase, Phone!Steps,
       Proved!Steps, Phone!Row, Proved!Row, Phone!Message, Proved!Message,
       Phone!IsInjective, Proved!IsInjective, Phone!LinkFollowsCache,
       Proved!LinkFollowsCache, Phone!QueueInOrder, Proved!QueueInOrder,
       Phone!SavedIsLastRow, Proved!SavedIsLastRow, Phone!IInv, Proved!IInv

LEMMA SameNext == [Phone!Next]_(Phone!vars) <=> [Proved!Next]_(Proved!vars)
BY Zenon
   DEF Phone!Next, Proved!Next, Phone!PhoneStep, Proved!PhoneStep, Phone!Open,
       Proved!Open, Phone!Answer, Proved!Answer, Phone!AnswerRefused,
       Proved!AnswerRefused, Phone!AnswerParsed, Proved!AnswerParsed,
       Phone!AnswerTraps, Proved!AnswerTraps, Phone!SessionChanges,
       Proved!SessionChanges, Phone!MainFree, Proved!MainFree, Phone!Save,
       Proved!Save, Phone!SaveFails, Proved!SaveFails, Phone!Send, Proved!Send,
       Phone!Stop, Proved!Stop, Phone!Relaunch, Proved!Relaunch, Phone!Deliver,
       Proved!Deliver, Phone!Lose, Proved!Lose, Phone!RemoveAt, Proved!RemoveAt,
       Phone!vars, Proved!vars, Phone!pages, Proved!pages

\* The phone's steps, and the link's, keep the phone's invariant.
LEMMA PhoneInvariantKept ==
    ASSUME Phone!IInv, [Phone!Next]_(Phone!vars)
    PROVE  Phone!IInv'
<1>1. Proved!IInv /\ [Proved!Next]_(Proved!vars) => Proved!IInv'
  BY Proved!NextPreservesIInv, LinkAssumption
     DEF Proved!NextPreservesIInv, Proved!RecipeAssumption
<1> QED
  BY <1>1, SameInvariant, SameNext

\* A step of the phone saves, sends, or leaves rows, messages and the pages between
\* save and send as they are.
LEMMA PhoneStepEffect ==
    ASSUME IInv, Phone!PhoneStep
    PROVE  /\ \/ Phone!Save \/ Phone!Send
              \/ /\ UNCHANGED <<cache, link>>
                 /\ \A p \in Page : phase'[p] = "saved" => phase[p] = "saved"
           /\ StepsAreOwn'
<1>1. phase \in [Page -> Phone!Phase] /\ steps \in [Page -> Phone!Steps]
  BY DEF IInv, Phone!IInv, Phone!TypeOK
<1>2. ASSUME NEW p \in Page, Phone!Open(p) \/ Phone!Answer(p)
      PROVE  /\ UNCHANGED <<cache, link>>
             /\ \A q \in Page : phase'[q] = "saved" => phase[q] = "saved"
             /\ StepsAreOwn'
  BY <1>1, <1>2
     DEF IInv, StepsAreOwn, Phone!Open, Phone!Answer, Phone!AnswerRefused,
         Phone!AnswerParsed, Phone!AnswerTraps, Phone!pages
<1>3. CASE Phone!SessionChanges \/ Phone!SaveFails \/ Phone!Stop
  BY <1>3 DEF IInv, StepsAreOwn, Phone!SessionChanges, Phone!SaveFails, Phone!Stop, Phone!pages
<1>4. CASE Phone!Save \/ Phone!Send
  BY <1>4 DEF IInv, StepsAreOwn, Phone!Save, Phone!Send
<1>5. CASE Phone!Relaunch
  BY <1>1, <1>5 DEF IInv, StepsAreOwn, Phone!Relaunch
<1> QED
  BY <1>2, <1>3, <1>4, <1>5 DEF Phone!PhoneStep

\* The watch's array changes when a message is received or the app starts again.
LEMMA WatchKeepsArray ==
    ASSUME WatchRuns
    PROVE  UNCHANGED <<phoneVars, at, instructions>>
BY DEF WatchRuns, Watch!ActivationDidComplete, Watch!RxStep, Watch!RxStepNum,
       Watch!RxDetail, Watch!RxCheck, Watch!PreviousTapped, Watch!NextTapped, Watch!Tap,
       Watch!MainStep, Watch!MainStepNum, Watch!MainDetail, Watch!MainDetailTraps,
       Watch!MainCheck

-----------------------------------------------------------------------------
\* A new row goes on the shelf, ahead of what the watch holds.
LEMMA SaveRefines ==
    ASSUME IInv, PhoneRuns, Phone!Save
    PROVE  LinkAheadOfWatch' /\ UnsentIsAhead' /\ Shelf!Shelve
<1> DEFINE p == mainQueue[1]
           new == [title |-> recipe[p], steps |-> steps[p]]
<1>1. mainQueue \in Seq(Page) /\ mainQueue # <<>>
  BY DEF IInv, Phone!IInv, Phone!TypeOK, Phone!Save
<1>2. p \in Page /\ Head(mainQueue) = p
  BY <1>1, LenProperties, ElementOfSeq, EmptySeq
<1>3. cache' = Append(cache, new) /\ link' = link /\ UNCHANGED <<at, instructions>>
  BY <1>2 DEF Phone!Save, PhoneRuns, watchVars
<1>4. cache \in Seq(Phone!Row) /\ new \in Phone!Row
  BY <1>2 DEF IInv, Phone!IInv, Phone!TypeOK, Phone!Row
<1>5. new.steps \in {recipe[p], EmptyList} /\ recipe[p] \in Recipe
  BY <1>2 DEF IInv, StepsAreOwn, Phone!IInv, Phone!TypeOK
<1>6. Shelf!Shelve
  BY <1>3, <1>5 DEF Shelf!Shelve
<1> HIDE DEF new
<1>7. /\ Len(cache) \in Nat /\ Len(cache') = Len(cache) + 1
      /\ \A i \in 1 .. Len(cache) : cache'[i] = cache[i]
  BY <1>3, <1>4, AppendProperties, LenProperties
<1>8. at \in 0 .. Len(cache)
  BY <1>7 DEF IInv, LinkAheadOfWatch
<1>9. UnsentIsAhead'
  BY <1>3, <1>7, <1>8 DEF UnsentIsAhead
<1>10. Phone!LinkFollowsCache'
  BY PhoneInvariantKept DEF IInv, Phone!IInv, Phone!Next, PhoneRuns
<1>11. LinkAheadOfWatch'
  BY <1>3, <1>7, <1>8, <1>10 DEF IInv, LinkAheadOfWatch
<1> QED
  BY <1>6, <1>9, <1>11

\* The message repeats a row the watch does not hold yet.
LEMMA SendKeepsAhead ==
    ASSUME IInv, PhoneRuns, Phone!Send
    PROVE  LinkAheadOfWatch' /\ UnsentIsAhead' /\ UNCHANGED Shelf!vars
<1> DEFINE p == mainQueue[1]
           message == [steps |-> steps[p], row |-> Len(cache)]
<1>1. mainQueue \in Seq(Page) /\ mainQueue # <<>>
  BY DEF IInv, Phone!IInv, Phone!TypeOK, Phone!Send
<1>2. p \in Page /\ Head(mainQueue) = p
  BY <1>1, LenProperties, ElementOfSeq, EmptySeq
<1>3. /\ phase[p] = "saved" /\ phase' = [phase EXCEPT ![p] = "done"]
      /\ link' = link \/ link' = Append(link, message)
      /\ UNCHANGED <<cache, at, instructions>>
  BY <1>2 DEF Phone!Send, PhoneRuns, watchVars
<1>4. at < Len(cache) /\ message.row = Len(cache)
  BY <1>2, <1>3 DEF IInv, UnsentIsAhead
<1>5. phase \in [Page -> Phone!Phase] /\ link \in Seq(Phone!Message)
  BY DEF IInv, Phone!IInv, Phone!TypeOK
<1>6. UnsentIsAhead'
  BY <1>3, <1>5 DEF IInv, UnsentIsAhead
<1> HIDE DEF message
<1>7. message \in Phone!Message
  <2>1. cache \in Seq(Phone!Row) /\ steps[p] \in Phone!Steps
    BY <1>2 DEF IInv, Phone!IInv, Phone!TypeOK
  <2> QED
    BY <1>4, <2>1, LenProperties DEF IInv, message, Phone!Message
<1>8. \A i \in 1 .. Len(link') : link'[i].row > at
  <2>1. CASE link' = link
    BY <2>1 DEF IInv, LinkAheadOfWatch
  <2>2. CASE link' = Append(link, message)
    <3>1. /\ Len(link) \in Nat /\ Len(link') = Len(link) + 1
          /\ link'[Len(link) + 1] = message
          /\ \A i \in 1 .. Len(link) : link'[i] = link[i]
      BY <1>5, <1>7, <2>2, AppendProperties, LenProperties
    <3>2. \A i \in 1 .. Len(link') : i \in 1 .. Len(link) \/ i = Len(link) + 1
      BY <3>1
    <3>3. Len(cache) > at
      BY <1>4, <1>5, LenProperties DEF IInv, Phone!IInv, Phone!TypeOK
    <3> QED
      BY <1>4, <3>1, <3>2, <3>3 DEF IInv, LinkAheadOfWatch
  <2> QED
    BY <1>3, <2>1, <2>2
<1>9. Phone!LinkFollowsCache'
  BY PhoneInvariantKept DEF IInv, Phone!IInv, Phone!Next, PhoneRuns
<1>10. LinkAheadOfWatch' /\ UNCHANGED Shelf!vars
  BY <1>3, <1>8, <1>9 DEF IInv, LinkAheadOfWatch, Shelf!vars
<1> QED
  BY <1>6, <1>10

\* A delivery shows the row of the oldest message, and the others are newer.
LEMMA DeliverRefines ==
    ASSUME IInv, Deliver
    PROVE  LinkAheadOfWatch' /\ UnsentIsAhead' /\ at' \in Nat /\ Shelf!Show
<1>1. /\ link # <<>> /\ link' = Tail(link) /\ at' = Head(link).row
      /\ instructions' = Head(link).steps
      /\ UNCHANGED <<phase, recipe, steps, mainQueue, cache, session, phoneAlive>>
  BY DEF Deliver, Phone!Deliver, Phone!pages, Watch!Receive
<1>2. link \in Seq(Phone!Message)
  BY DEF IInv, Phone!IInv, Phone!TypeOK
<1>3. /\ Len(link) \in Nat \ {0} /\ Head(link) = link[1]
      /\ Len(link') = Len(link) - 1
      /\ \A i \in 1 .. Len(link') : link'[i] = link[i + 1]
  BY <1>1, <1>2, LenProperties, EmptySeq, HeadTailProperties
<1>4. Len(cache) \in Nat /\ at \in Nat
  BY LenProperties DEF IInv, Phone!IInv, Phone!TypeOK
<1>5. /\ at' \in 1 .. Len(cache) /\ at' > at
      /\ instructions' = cache[at'].steps
  BY <1>1, <1>3 DEF IInv, LinkAheadOfWatch, Phone!LinkFollowsCache
<1>6. Shelf!Show
  BY <1>1, <1>4, <1>5 DEF Shelf!Show
<1>7. \A i \in 1 .. Len(link') : link'[i].row > at'
  <2> TAKE i \in 1 .. Len(link')
  <2>1. i + 1 \in 1 .. Len(link) /\ 1 \in 1 .. Len(link) /\ 1 < i + 1
    BY <1>3
  <2>2. link[1].row < link[i + 1].row /\ link[1].row \in Nat /\ link[i + 1].row \in Nat
    BY <1>4, <2>1 DEF IInv, LinkAheadOfWatch, Phone!LinkFollowsCache
  <2> QED
    BY <1>1, <1>3, <2>2
<1>8. Phone!LinkFollowsCache'
  BY PhoneInvariantKept DEF IInv, Phone!IInv, Phone!Next, Deliver
<1>9. LinkAheadOfWatch'
  BY <1>1, <1>4, <1>5, <1>7, <1>8 DEF LinkAheadOfWatch
<1>10. UnsentIsAhead'
  BY <1>1, <1>3, <1>4 DEF IInv, UnsentIsAhead, Phone!IInv, Phone!SavedIsLastRow
<1> QED
  BY <1>4, <1>5, <1>6, <1>9, <1>10

\* A lost message is not noticed.
LEMMA LoseKeepsAhead ==
    ASSUME IInv, Lose
    PROVE  LinkAheadOfWatch' /\ UnsentIsAhead' /\ UNCHANGED Shelf!vars
<1>1. PICK i \in 1 .. Len(link) : link' = Phone!RemoveAt(link, i)
  BY DEF Lose, Phone!Lose
<1>2. link \in Seq(Phone!Message)
  BY DEF IInv, Phone!IInv, Phone!TypeOK
<1>3. UNCHANGED <<phase, cache, at, instructions>>
  BY DEF Lose, Phone!Lose, Phone!pages, watchVars
<1>4. /\ Len(link') = Len(link) - 1
      /\ \A j \in 1 .. Len(link) - 1 : link'[j] = link[IF j < i THEN j ELSE j + 1]
  <2>1. /\ Len(Proved!RemoveAt(link, i)) = Len(link) - 1
        /\ \A j \in 1 .. Len(link) - 1 :
              Proved!RemoveAt(link, i)[j] = link[IF j < i THEN j ELSE j + 1]
    BY <1>2, LinkAssumption, Proved!RemoveAtPlaces
       DEF Proved!RemoveAtPlaces, Proved!RecipeAssumption
  <2> QED
    BY <1>1, <2>1 DEF Proved!RemoveAt, Phone!RemoveAt
<1>5. \A j \in 1 .. Len(link') : \E k \in 1 .. Len(link) : link'[j] = link[k]
  BY <1>2, <1>4, LenProperties
<1>6. Phone!LinkFollowsCache'
  BY PhoneInvariantKept DEF IInv, Phone!IInv, Phone!Next, Lose
<1> QED
  BY <1>3, <1>5, <1>6 DEF IInv, LinkAheadOfWatch, UnsentIsAhead, Shelf!vars

-----------------------------------------------------------------------------
\* Every step keeps the invariant and is a step of the shelf or none.
THEOREM StepRefines == IInv /\ [Next]_vars => IInv' /\ [Shelf!Next]_(Shelf!vars)
<1> SUFFICES ASSUME IInv, [Next]_vars
             PROVE  IInv' /\ [Shelf!Next]_(Shelf!vars)
  OBVIOUS
<1>1. at \in Nat /\ Phone!IInv
  BY DEF IInv
<1>2. CASE PhoneRuns
  <2>1. Phone!IInv' /\ at' = at /\ instructions' = instructions
    BY <1>1, <1>2, PhoneInvariantKept DEF PhoneRuns, Phone!Next, watchVars
  <2>2. StepsAreOwn'
    BY <1>2, PhoneStepEffect DEF PhoneRuns
  <2>3. CASE Phone!Save
    BY <1>1, <1>2, <2>1, <2>2, <2>3, SaveRefines DEF IInv, Shelf!Next
  <2>4. CASE Phone!Send
    BY <1>1, <1>2, <2>1, <2>2, <2>4, SendKeepsAhead DEF IInv
  <2>5. CASE /\ UNCHANGED <<cache, link>>
             /\ \A p \in Page : phase'[p] = "saved" => phase[p] = "saved"
    BY <1>1, <2>1, <2>2, <2>5
       DEF IInv, LinkAheadOfWatch, UnsentIsAhead, Phone!IInv, Shelf!vars
  <2> QED
    BY <1>2, <2>3, <2>4, <2>5, PhoneStepEffect DEF PhoneRuns
<1>3. CASE Deliver
  <2>1. Phone!IInv' /\ StepsAreOwn'
    BY <1>1, <1>3, PhoneInvariantKept
       DEF Deliver, Phone!Next, Phone!Deliver, Phone!pages, IInv, StepsAreOwn
  <2> QED
    BY <1>3, <2>1, DeliverRefines DEF IInv, Shelf!Next
<1>4. CASE Lose
  <2>1. Phone!IInv' /\ StepsAreOwn' /\ at' = at
    BY <1>1, <1>4, PhoneInvariantKept
       DEF Lose, Phone!Next, Phone!Lose, Phone!pages, IInv, StepsAreOwn
  <2> QED
    BY <1>1, <1>4, <2>1, LoseKeepsAhead DEF IInv
<1>5. ASSUME UNCHANGED phoneVars
      PROVE  Phone!IInv' /\ StepsAreOwn'
  BY <1>1, <1>5, PhoneInvariantKept DEF phoneVars, Phone!vars, IInv, StepsAreOwn
<1>6. CASE WatchRuns \/ UNCHANGED vars
  <2>1. UNCHANGED <<phoneVars, at, instructions>>
    BY <1>6, WatchKeepsArray DEF vars, watchVars
  <2> QED
    BY <1>1, <1>5, <2>1
       DEF IInv, LinkAheadOfWatch, UnsentIsAhead, Phone!IInv, phoneVars, Shelf!vars
<1>7. CASE WatchRelaunch
  <2>1. UNCHANGED phoneVars /\ at' = 0 /\ instructions' = EmptyList
    BY <1>7 DEF WatchRelaunch, Watch!Relaunch
  <2>2. UNCHANGED <<phase, cache, link>> /\ Phone!IInv' /\ StepsAreOwn'
    BY <1>5, <2>1 DEF phoneVars
  <2>3. link \in Seq(Phone!Message) /\ cache \in Seq(Phone!Row)
    BY <1>1 DEF Phone!IInv, Phone!TypeOK
  <2>4. \A i \in 1 .. Len(link) : link[i].row > 0
    BY <1>1, <2>3, LenProperties DEF Phone!IInv, Phone!LinkFollowsCache
  <2>5. LinkAheadOfWatch'
    BY <2>1, <2>2, <2>4 DEF LinkAheadOfWatch, Phone!IInv
  <2>6. UnsentIsAhead'
    <3>1. \A p \in Page : phase[p] = "saved" => 0 < Len(cache)
      BY <1>1, <2>3, LenProperties, EmptySeq DEF Phone!IInv, Phone!SavedIsLastRow
    <3> QED
      BY <2>1, <2>2, <3>1 DEF UnsentIsAhead
  <2> QED
    BY <2>1, <2>2, <2>5, <2>6 DEF IInv, Shelf!Next, Shelf!Restart
<1> QED
  BY <1>2, <1>3, <1>4, <1>6, <1>7 DEF Next

\* Both apps start with nothing on the shelf and nothing shown.
LEMMA InitRefines == Init => IInv /\ Shelf!Init
<1> SUFFICES ASSUME Init
             PROVE  IInv /\ Shelf!Init
  OBVIOUS
<1>1. Phone!IInv
  <2>1. Phone!Init <=> Proved!Init
    BY Zenon DEF Phone!Init, Proved!Init
  <2> QED
    BY <2>1, LinkAssumption, SameInvariant, Proved!InitEstablishesIInv
       DEF Init, Proved!InitEstablishesIInv, Proved!RecipeAssumption
<1>2. at = 0 /\ instructions = EmptyList /\ cache = <<>> /\ link = <<>>
  BY DEF Init, Phone!Init, Watch!Init
<1>3. \A p \in Page : phase[p] = "new" /\ steps[p] = EmptyList
  BY DEF Init, Phone!Init
<1>4. LinkAheadOfWatch
  BY <1>1, <1>2 DEF LinkAheadOfWatch, Phone!IInv
<1> QED
  BY <1>1, <1>2, <1>3, <1>4 DEF IInv, UnsentIsAhead, StepsAreOwn, Shelf!Init

\* Every behaviour keeps the invariant of phone, link and watch.
THEOREM InductiveInvariant == Spec => []IInv
BY InitRefines, StepRefines, PTL DEF Spec

\* What the watch holds is on the phone's disk, and what is under way is newer.
THEOREM WatchIsBehind == Spec => []LinkAheadOfWatch
<1>1. IInv => LinkAheadOfWatch
  BY DEF IInv
<1> QED
  BY <1>1, InductiveInvariant, PTL

\* Phone and watch implement the shelf.
THEOREM Implements == Spec => ImplementsShelf
BY InitRefines, StepRefines, InductiveInvariant, PTL DEF Spec, ImplementsShelf, Shelf!Spec
=============================================================================
