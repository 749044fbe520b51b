----------------------- MODULE InstructionFeed_proofs ------------------------
(***************************************************************************)
(* What the phone sends is on its disk, in order, for every number of      *)
(* pages and recipes.  The argument: the main thread runs the blocks in    *)
(* turn, and between a block's save and its send the last row is its own.  *)
(***************************************************************************)
EXTENDS InstructionFeed, SequenceTheorems, TLAPS

\* Where the elements of a sequence are after one is removed.
LEMMA RemoveAtPlaces ==
    ASSUME NEW S, NEW s \in Seq(S), NEW i \in 1 .. Len(s)
    PROVE  /\ RemoveAt(s, i) \in Seq(S)
           /\ Len(RemoveAt(s, i)) = Len(s) - 1
           /\ \A j \in 1 .. Len(s) - 1 : RemoveAt(s, i)[j] = s[IF j < i THEN j ELSE j + 1]
<1> DEFINE a == SubSeq(s, 1, i - 1)
           b == SubSeq(s, i + 1, Len(s))
<1>1. Len(s) \in Nat /\ \A k \in 1 .. Len(s) : s[k] \in S
  BY LenProperties, ElementOfSeq
<1>2. a \in Seq(S) /\ Len(a) = i - 1 /\ \A k \in 1 .. i - 1 : a[k] = s[k]
  <2>1. \A k \in 1 .. i - 1 : s[k] \in S
    BY <1>1
  <2> QED
    BY <1>1, <2>1, SubSeqProperties
<1>3. b \in Seq(S) /\ Len(b) = Len(s) - i /\ \A k \in 1 .. Len(s) - i : b[k] = s[i + k]
  <2>1. \A k \in i + 1 .. Len(s) : s[k] \in S
    BY <1>1
  <2> QED
    BY <1>1, <2>1, SubSeqProperties
<1> HIDE DEF a, b
<1>4. /\ a \o b \in Seq(S)
      /\ Len(a \o b) = Len(s) - 1
      /\ \A j \in 1 .. Len(s) - 1 : (a \o b)[j] = IF j <= i - 1 THEN a[j] ELSE b[j - (i - 1)]
  <2>1. /\ a \o b \in Seq(S)
        /\ Len(a \o b) = Len(a) + Len(b)
        /\ \A j \in 1 .. Len(a) + Len(b) :
              (a \o b)[j] = IF j <= Len(a) THEN a[j] ELSE b[j - Len(a)]
    BY <1>2, <1>3, ConcatProperties
  <2>2. Len(a) + Len(b) = Len(s) - 1 /\ Len(a) = i - 1
    BY <1>1, <1>2, <1>3
  <2> QED
    BY <2>1, <2>2, Zenon
<1>5. \A j \in 1 .. Len(s) - 1 : (a \o b)[j] = s[IF j < i THEN j ELSE j + 1]
  <2> TAKE j \in 1 .. Len(s) - 1
  <2>1. CASE j < i
    BY <1>1, <1>2, <1>4, <2>1
  <2>2. CASE ~(j < i)
    <3>1. j - (i - 1) \in 1 .. Len(s) - i /\ i + (j - (i - 1)) = j + 1
      BY <1>1, <2>2
    <3> QED
      BY <1>1, <1>3, <1>4, <2>2, <3>1
  <2> QED
    BY <2>1, <2>2
<1> QED
  BY <1>4, <1>5 DEF RemoveAt, a, b

\* Taking any message off the link keeps the invariant: the others keep their order.
LEMMA ShrinkingLink ==
    ASSUME IInv, UNCHANGED <<pages, cache, session, alive>>,
           NEW i \in 1 .. Len(link),
           link' \in Seq(Message), Len(link') = Len(link) - 1,
           \A j \in 1 .. Len(link) - 1 : link'[j] = link[IF j < i THEN j ELSE j + 1]
    PROVE  IInv'
<1> USE DEF IInv
<1>1. Len(link) \in Nat /\ Len(link') \in Nat
  BY LenProperties DEF TypeOK
<1>2. \A j \in 1 .. Len(link') : \E k \in 1 .. Len(link) : link'[j] = link[k]
  BY <1>1
<1>3. TypeOK'
  BY DEF TypeOK, pages, IsInjective
<1>4. LinkFollowsCache'
  <2>1. \A j \in 1 .. Len(link') :
            link'[j].row \in 1 .. Len(cache') /\ cache'[link'[j].row].steps = link'[j].steps
    BY <1>2 DEF LinkFollowsCache
  <2>2. \A j, k \in 1 .. Len(link') : j < k => link'[j].row < link'[k].row
    <3> TAKE j, k \in 1 .. Len(link')
    <3> DEFINE at(n) == IF n < i THEN n ELSE n + 1
    <3> HAVE j < k
    <3>1. at(j) \in 1 .. Len(link) /\ at(k) \in 1 .. Len(link) /\ at(j) < at(k)
      BY <1>1
    <3>2. link'[j] = link[at(j)] /\ link'[k] = link[at(k)]
      BY <1>1
    <3> QED
      BY <3>1, <3>2 DEF LinkFollowsCache
  <2> QED
    BY <2>1, <2>2 DEF LinkFollowsCache
<1>5. QueueInOrder' /\ SavedIsLastRow'
  BY <1>2 DEF QueueInOrder, SavedIsLastRow, pages
<1> QED
  BY <1>3, <1>4, <1>5

LEMMA InitEstablishesIInv == Init => IInv
<1> SUFFICES ASSUME Init
             PROVE  IInv
  OBVIOUS
<1>1. TypeOK
  BY EmptySeq DEF Init, TypeOK, Phase, Steps, IsInjective
<1>2. LinkFollowsCache /\ QueueInOrder /\ SavedIsLastRow
  BY DEF Init, LinkFollowsCache, QueueInOrder, SavedIsLastRow
<1> QED
  BY <1>1, <1>2 DEF IInv

-----------------------------------------------------------------------------
(* One lemma per action that touches more than a page's phase.              *)

\* A parsed answer queues a page that was not queued, behind the others.
LEMMA AnswerPreservesIInv ==
    ASSUME IInv, NEW p \in Page, AnswerParsed(p)
    PROVE  IInv'
<1> USE DEF IInv
<1>1. /\ phase[p] = "loading" /\ phase' = [phase EXCEPT ![p] = "parsed"]
      /\ mainQueue' = Append(mainQueue, p)
      /\ UNCHANGED <<recipe, cache, session, link, alive>>
  BY DEF AnswerParsed
<1>2. /\ phase \in [Page -> Phase] /\ mainQueue \in Seq(Page)
      /\ \A i, j \in 1 .. Len(mainQueue) : mainQueue[i] = mainQueue[j] => i = j
  BY LenProperties DEF TypeOK, IsInjective
<1>3. /\ mainQueue' \in Seq(Page) /\ Len(mainQueue) \in Nat
      /\ Len(mainQueue') = Len(mainQueue) + 1
      /\ \A i \in 1 .. Len(mainQueue) : mainQueue'[i] = mainQueue[i] /\ mainQueue[i] \in Page
      /\ mainQueue'[Len(mainQueue) + 1] = p
      /\ DOMAIN mainQueue' = 1 .. Len(mainQueue) + 1
  BY <1>1, <1>2, AppendProperties, LenProperties, ElementOfSeq
<1>4. \A i \in 1 .. Len(mainQueue) : mainQueue[i] # p
  BY <1>1, <1>2, <1>3 DEF QueueInOrder
<1>5. /\ phase' \in [Page -> Phase] /\ phase'[p] = "parsed"
      /\ \A q \in Page : q # p => phase'[q] = phase[q] /\ steps'[q] = steps[q]
      /\ steps' \in [Page -> Steps]
  BY <1>1, <1>2 DEF AnswerParsed, TypeOK, Steps, Phase
<1>6. TypeOK'
  <2>1. IsInjective(mainQueue')
    BY <1>2, <1>3, <1>4 DEF IsInjective
  <2> QED
    BY <1>1, <1>3, <1>5, <2>1 DEF TypeOK
<1>7. LinkFollowsCache'
  BY <1>1 DEF LinkFollowsCache
<1>8. QueueInOrder'
  <2>1. \A i \in 1 .. Len(mainQueue') : phase'[mainQueue'[i]] \in {"parsed", "saved"}
    BY <1>3, <1>4, <1>5 DEF QueueInOrder
  <2>2. \A q \in Page : phase'[q] = "saved" => mainQueue' # <<>> /\ q = mainQueue'[1]
    <3> TAKE q \in Page
    <3> HAVE phase'[q] = "saved"
    <3>1. phase[q] = "saved" /\ mainQueue # <<>> /\ q = mainQueue[1]
      BY <1>1, <1>5 DEF QueueInOrder
    <3>2. Len(mainQueue) > 0
      BY <3>1, <1>2, <1>3, EmptySeq
    <3> QED
      BY <3>1, <3>2, <1>3, EmptySeq
  <2> QED
    BY <2>1, <2>2 DEF QueueInOrder
<1>9. SavedIsLastRow'
  BY <1>1, <1>5 DEF SavedIsLastRow
<1> QED
  BY <1>6, <1>7, <1>8, <1>9

\* The rows so far, and what the link repeats of them, are untouched by a new row.
LEMMA SavePreservesIInv ==
    ASSUME IInv, Save
    PROVE  IInv'
<1> USE DEF IInv
<1> DEFINE p == mainQueue[1]
           new == [title |-> recipe[p], steps |-> steps[p]]
<1>1. /\ mainQueue # <<>> /\ phase[p] = "parsed"
      /\ cache' = Append(cache, new)
      /\ phase' = [phase EXCEPT ![p] = "saved"]
      /\ UNCHANGED <<recipe, steps, mainQueue, session, link, alive>>
  BY DEF Save, TypeOK
<1>2. Len(mainQueue) \in Nat /\ Len(mainQueue) > 0 /\ p \in Page
  BY <1>1, LenProperties, ElementOfSeq, EmptySeq DEF TypeOK
<1>3. new \in Row
  BY <1>2 DEF TypeOK, Row
<1>4. cache \in Seq(Row) /\ link \in Seq(Message)
  BY DEF TypeOK
<1> HIDE DEF new
<1>5. /\ cache' \in Seq(Row) /\ Len(cache) \in Nat /\ Len(cache') = Len(cache) + 1
      /\ cache' # <<>>
      /\ \A i \in 1 .. Len(cache) : cache'[i] = cache[i]
      /\ cache'[Len(cache')] = new
  BY <1>1, <1>3, <1>4, AppendProperties, LenProperties
<1>6. TypeOK'
  BY <1>1, <1>2, <1>5 DEF TypeOK, Phase
<1>7. LinkFollowsCache'
  <2>1. \A i \in 1 .. Len(link) : link[i].row \in 1 .. Len(cache)
    BY DEF LinkFollowsCache
  <2> QED
    BY <1>1, <1>5, <2>1 DEF LinkFollowsCache
<1>8. QueueInOrder'
  BY <1>1, <1>2 DEF QueueInOrder, TypeOK
<1>9. SavedIsLastRow'
  <2>1. \A q \in Page : phase'[q] = "saved" => q = p
    BY <1>1, <1>8 DEF QueueInOrder
  <2>2. new.steps = steps[p]
    BY DEF new
  <2>3. \A i \in 1 .. Len(link) : link[i].row \in 1 .. Len(cache)
    BY DEF LinkFollowsCache
  <2> QED
    BY <1>1, <1>5, <2>1, <2>2, <2>3 DEF SavedIsLastRow
<1> QED
  BY <1>6, <1>7, <1>8, <1>9

\* The message repeats the row saved last, which is later than all under way.
LEMMA SendPreservesIInv ==
    ASSUME IInv, Send
    PROVE  IInv'
<1> USE DEF IInv
<1> DEFINE p == mainQueue[1]
           message == [steps |-> steps[p], row |-> Len(cache)]
<1>1. /\ mainQueue # <<>> /\ phase[p] = "saved"
      /\ link' = Append(link, message) \/ link' = link
      /\ phase' = [phase EXCEPT ![p] = "done"]
      /\ mainQueue' = Tail(mainQueue)
      /\ UNCHANGED <<recipe, steps, cache, session, alive>>
  BY DEF Send, TypeOK
<1>2. /\ Len(mainQueue) \in Nat /\ Len(mainQueue) > 0 /\ p \in Page
      /\ mainQueue \in Seq(Page) /\ DOMAIN mainQueue = 1 .. Len(mainQueue)
  BY <1>1, LenProperties, ElementOfSeq, EmptySeq DEF TypeOK
<1>3. /\ mainQueue' \in Seq(Page) /\ Len(mainQueue') = Len(mainQueue) - 1
      /\ \A i \in 1 .. Len(mainQueue') : mainQueue'[i] = mainQueue[i + 1]
      /\ DOMAIN mainQueue' = 1 .. Len(mainQueue')
  BY <1>1, <1>2, HeadTailProperties, LenProperties
<1>4. \A i \in 1 .. Len(mainQueue') : mainQueue'[i] \in Page /\ mainQueue'[i] # p
  BY <1>2, <1>3 DEF TypeOK, IsInjective
<1>5. /\ cache \in Seq(Row) /\ Len(cache) \in Nat \ {0} /\ cache[Len(cache)].steps = steps[p]
      /\ \A i \in 1 .. Len(link) : link[i].row < Len(cache)
  BY <1>1, <1>2, LenProperties, EmptySeq DEF SavedIsLastRow, TypeOK
<1>6. message \in Message
  BY <1>2, <1>5 DEF TypeOK, Message
<1>7. link \in Seq(Message) /\ Len(link) \in Nat
  BY LenProperties DEF TypeOK
<1>8. message.steps = steps[p] /\ message.row = Len(cache)
  OBVIOUS
<1> HIDE DEF message
<1>9. TypeOK'
  <2>1. IsInjective(mainQueue')
    <3>1. \A i, j \in 1 .. Len(mainQueue) : mainQueue[i] = mainQueue[j] => i = j
      BY <1>2 DEF TypeOK, IsInjective
    <3>2. ASSUME NEW i \in 1 .. Len(mainQueue'), NEW j \in 1 .. Len(mainQueue'),
                 mainQueue'[i] = mainQueue'[j]
          PROVE  i = j
      <4>1. i + 1 \in 1 .. Len(mainQueue) /\ j + 1 \in 1 .. Len(mainQueue)
        BY <1>2, <1>3
      <4>2. mainQueue[i + 1] = mainQueue[j + 1]
        BY <1>3, <3>2
      <4>3. i + 1 = j + 1
        BY <3>1, <4>1, <4>2
      <4> QED
        BY <4>3
    <3> QED
      BY <1>3, <3>2, Zenon DEF IsInjective
  <2>2. link' \in Seq(Message)
    BY <1>1, <1>6, <1>7, AppendProperties
  <2> QED
    BY <1>1, <1>2, <1>3, <2>1, <2>2 DEF TypeOK, Phase
<1>10. LinkFollowsCache'
  <2>1. CASE link' = link
    BY <1>1, <2>1 DEF LinkFollowsCache
  <2>2. CASE link' = Append(link, message)
    <3>1. /\ Len(link') = Len(link) + 1 /\ link'[Len(link) + 1] = message
          /\ \A i \in 1 .. Len(link) : link'[i] = link[i]
      BY <1>6, <1>7, <2>2, AppendProperties
    <3>2. \A i \in 1 .. Len(link') : i \in 1 .. Len(link) \/ i = Len(link) + 1
      BY <1>7, <3>1
    <3>3. \A i \in 1 .. Len(link') :
              link'[i].row \in 1 .. Len(cache') /\ cache'[link'[i].row].steps = link'[i].steps
      BY <1>1, <1>5, <1>8, <3>1, <3>2 DEF LinkFollowsCache
    <3>4. \A i, j \in 1 .. Len(link') : i < j => link'[i].row < link'[j].row
      <4> TAKE i, j \in 1 .. Len(link')
      <4> HAVE i < j
      <4>1. i \in 1 .. Len(link)
        BY <1>7, <3>1
      <4>2. CASE j \in 1 .. Len(link)
        BY <3>1, <4>1, <4>2 DEF LinkFollowsCache
      <4>3. CASE j = Len(link) + 1
        BY <1>5, <1>8, <3>1, <4>1, <4>3
      <4> QED
        BY <3>2, <4>2, <4>3
    <3> QED
      BY <3>3, <3>4 DEF LinkFollowsCache
  <2> QED
    BY <1>1, <2>1, <2>2
<1>11. QueueInOrder' /\ SavedIsLastRow'
  <2>1. \A q \in Page : phase'[q] # "saved"
    BY <1>1, <1>2 DEF QueueInOrder, TypeOK
  <2>2. \A i \in 1 .. Len(mainQueue') : phase'[mainQueue'[i]] \in {"parsed", "saved"}
    BY <1>1, <1>2, <1>3, <1>4 DEF QueueInOrder, TypeOK
  <2> QED
    BY <2>1, <2>2 DEF QueueInOrder, SavedIsLastRow
<1> QED
  BY <1>9, <1>10, <1>11

\* A relaunch forgets the queue and keeps rows and messages.
LEMMA RelaunchPreservesIInv ==
    ASSUME IInv, Relaunch
    PROVE  IInv'
<1> USE DEF IInv
<1>1. TypeOK'
  BY EmptySeq DEF Relaunch, TypeOK, Phase, IsInjective
<1>2. LinkFollowsCache'
  BY DEF Relaunch, LinkFollowsCache
<1>3. QueueInOrder' /\ SavedIsLastRow'
  BY DEF Relaunch, QueueInOrder, SavedIsLastRow
<1> QED
  BY <1>1, <1>2, <1>3

\* An opened page or a refused answer changes the phase of a page that is not queued.
LEMMA PhasePreservesIInv ==
    ASSUME IInv, NEW p \in Page, Open(p) \/ AnswerRefused(p)
    PROVE  IInv'
<1> USE DEF IInv
<1>1. /\ phase[p] \in {"new", "loading"}
      /\ phase' \in [Page -> Phase] /\ phase'[p] \in {"loading", "done"}
      /\ \A q \in Page : q # p => phase'[q] = phase[q]
      /\ session' \in {"notActivated", "activating", "activated"}
      /\ UNCHANGED <<recipe, steps, mainQueue, cache, link, alive>>
  BY DEF Open, AnswerRefused, TypeOK, Phase
<1>2. \A i \in 1 .. Len(mainQueue) : mainQueue[i] \in Page
  BY ElementOfSeq DEF TypeOK
<1>3. TypeOK'
  BY <1>1 DEF TypeOK, IsInjective
<1>4. LinkFollowsCache'
  BY <1>1 DEF LinkFollowsCache
<1>5. QueueInOrder' /\ SavedIsLastRow'
  BY <1>1, <1>2 DEF QueueInOrder, SavedIsLastRow
<1> QED
  BY <1>3, <1>4, <1>5

\* What changes neither pages, nor rows, nor messages.
LEMMA OthersPreserveIInv ==
    ASSUME IInv, UNCHANGED <<pages, cache, link>>,
           session' \in {"notActivated", "activating", "activated"}, alive' \in BOOLEAN
    PROVE  IInv'
BY DEF IInv, TypeOK, LinkFollowsCache, QueueInOrder, SavedIsLastRow, pages, IsInjective

\* Every step of the phone and of the link keeps the invariant.
THEOREM NextPreservesIInv == IInv /\ [Next]_vars => IInv'
<1> SUFFICES ASSUME IInv, [Next]_vars
             PROVE  IInv'
  OBVIOUS
<1>1. ASSUME NEW p \in Page, Open(p) \/ Answer(p)
      PROVE  IInv'
  <2>1. CASE AnswerTraps(p)
    BY <2>1, OthersPreserveIInv DEF AnswerTraps, IInv, TypeOK
  <2> QED
    BY <1>1, <2>1, PhasePreservesIInv, AnswerPreservesIInv DEF Answer
<1>2. CASE SessionChanges
  BY <1>2, OthersPreserveIInv DEF SessionChanges, IInv, TypeOK
<1>3. CASE Save
  BY <1>3, SavePreservesIInv
<1>4. CASE SaveFails \/ Stop
  BY <1>4, OthersPreserveIInv DEF SaveFails, Stop, IInv, TypeOK
<1>5. CASE Send
  BY <1>5, SendPreservesIInv
<1>6. CASE Relaunch
  BY <1>6, RelaunchPreservesIInv
<1>7. CASE Deliver
  <2>1. link \in Seq(Message) /\ link # <<>> /\ link' = Tail(link)
    BY <1>7 DEF Deliver, IInv, TypeOK
  <2>2. /\ link' \in Seq(Message) /\ Len(link') = Len(link) - 1
        /\ \A j \in 1 .. Len(link') : link'[j] = link[j + 1]
    BY <2>1, HeadTailProperties
  <2>3. Len(link) \in Nat /\ 1 \in 1 .. Len(link)
    BY <2>1, LenProperties, EmptySeq
  <2>4. \A j \in 1 .. Len(link) - 1 : link'[j] = link[IF j < 1 THEN j ELSE j + 1]
    BY <2>2, <2>3
  <2> QED
    BY <1>7, <2>2, <2>3, <2>4, ShrinkingLink DEF Deliver
<1>8. CASE Lose
  <2>1. PICK i \in 1 .. Len(link) : link' = RemoveAt(link, i)
    BY <1>8 DEF Lose
  <2>2. link \in Seq(Message)
    BY DEF IInv, TypeOK
  <2>3. /\ link' \in Seq(Message) /\ Len(link') = Len(link) - 1
        /\ \A j \in 1 .. Len(link) - 1 : link'[j] = link[IF j < i THEN j ELSE j + 1]
    BY <2>1, <2>2, RemoveAtPlaces
  <2> QED
    BY <1>8, <2>3, ShrinkingLink DEF Lose
<1>9. CASE UNCHANGED vars
  BY <1>9, OthersPreserveIInv DEF vars, pages, IInv, TypeOK
<1> QED
  BY <1>1, <1>2, <1>3, <1>4, <1>5, <1>6, <1>7, <1>8, <1>9 DEF Next, PhoneStep

-----------------------------------------------------------------------------
\* Every behaviour keeps the inductive invariant.
THEOREM InductiveInvariant == Spec => []IInv
BY InitEstablishesIInv, NextPreservesIInv, PTL DEF Spec

\* The types of the pages' state, and that no page is queued twice.
THEOREM TypeCorrect == Spec => []TypeOK
<1>1. IInv => TypeOK
  BY DEF IInv
<1> QED
  BY <1>1, InductiveInvariant, PTL

\* Whatever is on its way to the watch is on the phone's disk, in the order saved.
THEOREM SentIsSaved == Spec => []LinkFollowsCache
<1>1. IInv => LinkFollowsCache
  BY DEF IInv
<1> QED
  BY <1>1, InductiveInvariant, PTL
=============================================================================
