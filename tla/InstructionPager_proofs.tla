----------------------- MODULE InstructionPager_proofs -----------------------
(***************************************************************************)
(* Safety of the instructions tab, for any number of rows.  The argument:  *)
(* once the page has loaded, the index is that of a row and the two        *)
(* buttons allow exactly the taps that keep it one, before the queued      *)
(* block as well as after it.                                              *)
(***************************************************************************)
EXTENDS InstructionPager, TLAPS

\* Before it loads the page has done nothing.
UnloadedIsFresh ==
    phase = "unloaded" => index = 0 /\ listed = -1 /\ sent = -1 /\ ~tapped

\* A page loads only with a context and with a row.
LoadedHasRows == phase # "unloaded" => ContextSet /\ stored > 0 /\ count = stored

IndexInRange == phase # "unloaded" => index \in 0 .. count - 1

ButtonsFollowIndex ==
    phase # "unloaded" => /\ previousEnabled = (index > 0)
                          /\ nextEnabled = (index < count - 1)

\* The block has run, and what was shown since is of one row.
TappedIsReady == tapped => phase = "ready"

IInv ==
    /\ TypeOK
    /\ UnloadedIsFresh /\ LoadedHasRows /\ IndexInRange /\ ButtonsFollowIndex
    /\ TappedIsReady /\ TitleMatchesOnceTapped
    /\ TrapsOnlyInLoading

-----------------------------------------------------------------------------
\* The page starts with nothing loaded, whatever the store holds.
LEMMA InitEstablishesIInv == Init => IInv
<1> SUFFICES ASSUME Init
             PROVE  IInv
  OBVIOUS
<1>1. stored \in Nat /\ blank \subseteq 0 .. stored - 1
  BY PagerAssumption DEF Init
<1>2. TypeOK
  BY <1>1 DEF Init, TypeOK
<1> QED
  BY <1>2 DEF Init, IInv, UnloadedIsFresh, LoadedHasRows, IndexInRange, ButtonsFollowIndex,
              TappedIsReady, TitleMatchesOnceTapped, TrapsOnlyInLoading

\* What checkButtons decides about a row is what the invariant says of it.
LEMMA CheckButtonsFollowsIndex ==
    ASSUME NEW n \in Nat, NEW i \in 0 .. n - 1, CheckButtons(i, n)
    PROVE  /\ previousEnabled' = (i > 0) /\ nextEnabled' = (i < n - 1)
           /\ previousEnabled' \in BOOLEAN /\ nextEnabled' \in BOOLEAN
BY DEF CheckButtons

\* Loading the page: the first row.
LEMMA ViewDidLoadPreservesIInv ==
    ASSUME IInv, ViewDidLoad
    PROVE  IInv'
<1> USE DEF IInv
<1>1. /\ stored \in Nat /\ stored > 0 /\ ContextSet /\ index = 0 /\ listed = -1 /\ sent = -1
      /\ ~tapped /\ ~trapped
  BY DEF ViewDidLoad, TypeOK, UnloadedIsFresh
<1>2. /\ count' = stored /\ title' = index /\ phase' = "loaded"
      /\ UNCHANGED <<store, index, listed, activated, sent, trapped, tapped>>
      /\ CheckButtons(index, stored)
  BY DEF ViewDidLoad
<1>3. /\ previousEnabled' = (index > 0) /\ nextEnabled' = (index < stored - 1)
      /\ previousEnabled' \in BOOLEAN /\ nextEnabled' \in BOOLEAN
  BY <1>1, <1>2, CheckButtonsFollowsIndex
<1>4. TypeOK'
  BY <1>1, <1>2, <1>3 DEF TypeOK, store
<1>5. UnloadedIsFresh' /\ LoadedHasRows' /\ IndexInRange' /\ ButtonsFollowIndex'
  BY <1>1, <1>2, <1>3
     DEF UnloadedIsFresh, LoadedHasRows, IndexInRange, ButtonsFollowIndex, store
<1>6. TappedIsReady' /\ TitleMatchesOnceTapped' /\ TrapsOnlyInLoading'
  BY <1>1, <1>2 DEF TappedIsReady, TitleMatchesOnceTapped, TrapsOnlyInLoading
<1> QED
  BY <1>4, <1>5, <1>6

\* A loaded page comes to show row i: the block and the taps.
LEMMA ComingToARowPreservesIInv ==
    ASSUME IInv, phase # "unloaded", ~trapped, NEW i \in 0 .. count - 1,
           index' = i, listed' = i, CheckButtons(i, count), SendUnlessBlank(i),
           UNCHANGED <<store, count, activated, trapped>>,
           \/ phase' = "ready" /\ ~tapped /\ UNCHANGED <<title, tapped>>
           \/ phase' = phase /\ title' = i /\ tapped' = (phase = "ready")
    PROVE  IInv'
<1> USE DEF IInv
<1>1. /\ ContextSet /\ stored > 0 /\ count = stored /\ stored \in Nat
      /\ blank \subseteq 0 .. stored - 1
  BY DEF TypeOK, LoadedHasRows
<1>2. /\ previousEnabled' = (i > 0) /\ nextEnabled' = (i < count - 1)
      /\ previousEnabled' \in BOOLEAN /\ nextEnabled' \in BOOLEAN
  BY <1>1, CheckButtonsFollowsIndex
<1>3. sent' \in Nat \cup {-1}
  BY <1>1 DEF SendUnlessBlank, TypeOK
<1>4. TypeOK'
  <2>1. i \in Nat
    BY <1>1
  <2>2. title' \in Nat \cup {-1} /\ phase' \in {"unloaded", "loaded", "ready"}
    BY <2>1 DEF TypeOK
  <2>3. tapped' \in BOOLEAN
    <3>1. tapped' = tapped \/ tapped' = (phase = "ready")
      OBVIOUS
    <3> QED
      BY <3>1, Zenon DEF TypeOK
  <2> QED
    BY <1>1, <1>2, <1>3, <2>1, <2>2, <2>3 DEF TypeOK, store
<1>5. UnloadedIsFresh' /\ LoadedHasRows' /\ IndexInRange' /\ ButtonsFollowIndex'
  BY <1>1, <1>2 DEF TypeOK, UnloadedIsFresh, LoadedHasRows, IndexInRange, ButtonsFollowIndex, store
<1>6. TappedIsReady' /\ TitleMatchesOnceTapped' /\ TrapsOnlyInLoading'
  BY <1>1 DEF TypeOK, TappedIsReady, TitleMatchesOnceTapped, TrapsOnlyInLoading
<1> QED
  BY <1>4, <1>5, <1>6

\* A tap is in range: the button would be disabled otherwise.
LEMMA TapPreservesIInv ==
    ASSUME IInv, NEW step \in {-1, 1},
           step = -1 => Tap(previousEnabled, step),
           step = 1  => Tap(nextEnabled, step)
    PROVE  IInv'
<1>1. phase # "unloaded" /\ ~trapped
  BY DEF Tap
<1>2. count \in Nat /\ index \in 0 .. count - 1
  BY <1>1 DEF IInv, TypeOK, IndexInRange
<1>3. index + step \in 0 .. count - 1
  <2>1. CASE step = -1
    <3>1. index > 0
      BY <1>1, <2>1 DEF Tap, IInv, ButtonsFollowIndex
    <3> QED
      BY <1>2, <2>1, <3>1
  <2>2. CASE step = 1
    <3>1. index < count - 1
      BY <1>1, <2>2 DEF Tap, IInv, ButtonsFollowIndex
    <3> QED
      BY <1>2, <2>2, <3>1
  <2> QED
    BY <2>1, <2>2
<1>4. Move(index + step)
  BY <1>3 DEF Tap
<1> QED
  BY <1>1, <1>3, <1>4, ComingToARowPreservesIInv DEF Move

\* The block goes to the last row.
LEMMA ShowLastPreservesIInv ==
    ASSUME IInv, ShowLast
    PROVE  IInv'
<1>1. phase = "loaded" /\ ~trapped /\ ~tapped
  BY DEF ShowLast, IInv, TappedIsReady
<1>2. count \in Nat /\ count - 1 \in 0 .. count - 1
  BY <1>1 DEF IInv, TypeOK, LoadedHasRows
<1> QED
  BY <1>1, <1>2, ComingToARowPreservesIInv DEF ShowLast

\* Every step of the specification.
LEMMA NextPreservesIInv == IInv /\ [Next]_vars => IInv'
<1> SUFFICES ASSUME IInv, [Next]_vars
             PROVE  IInv'
  OBVIOUS
<1>1. CASE ViewDidLoad
  BY <1>1, ViewDidLoadPreservesIInv
<1>2. CASE ViewDidLoadTraps
  BY <1>2 DEF ViewDidLoadTraps, Trap, store, buttons, IInv, TypeOK, UnloadedIsFresh, LoadedHasRows,
              IndexInRange, ButtonsFollowIndex, TappedIsReady, TitleMatchesOnceTapped,
              TrapsOnlyInLoading
<1>3. CASE FirstLayout
  BY <1>3 DEF FirstLayout, store, buttons, IInv, TypeOK, UnloadedIsFresh, LoadedHasRows,
              IndexInRange, ButtonsFollowIndex, TappedIsReady, TitleMatchesOnceTapped,
              TrapsOnlyInLoading
<1>4. CASE SessionChanges
  BY <1>4 DEF SessionChanges, store, buttons, IInv, TypeOK, UnloadedIsFresh, LoadedHasRows,
              IndexInRange, ButtonsFollowIndex, TappedIsReady, TitleMatchesOnceTapped,
              TrapsOnlyInLoading
<1>5. CASE ShowLast
  BY <1>5, ShowLastPreservesIInv
<1>6. CASE PreviousTapped
  BY <1>6, TapPreservesIInv DEF PreviousTapped
<1>7. CASE NextTapped
  BY <1>7, TapPreservesIInv DEF NextTapped
<1>8. CASE UNCHANGED vars
  BY <1>8 DEF vars, IInv, TypeOK, UnloadedIsFresh, LoadedHasRows, IndexInRange,
              ButtonsFollowIndex, TappedIsReady, TitleMatchesOnceTapped, TrapsOnlyInLoading
<1> QED
  BY <1>1, <1>2, <1>3, <1>4, <1>5, <1>6, <1>7, <1>8 DEF Next

-----------------------------------------------------------------------------
\* Every behaviour keeps the inductive invariant.
THEOREM InductiveInvariant == Spec => []IInv
BY InitEstablishesIInv, NextPreservesIInv, PTL DEF Spec

\* The types of the instructions tab's state.
THEOREM TypeCorrect == Spec => []TypeOK
<1>1. IInv => TypeOK
  BY DEF IInv
<1> QED
  BY <1>1, InductiveInvariant, PTL

\* However many rows there are and wherever the block falls between the taps, paging
\* never reads a title out of range: a page that has loaded does not end the app.
THEOREM PagingNeverTraps == Spec => []TrapsOnlyInLoading
<1>1. IInv => TrapsOnlyInLoading
  BY DEF IInv
<1> QED
  BY <1>1, InductiveInvariant, PTL

\* Once a button was tapped, title, table and index are of one row.
THEOREM TitleMatches == Spec => []TitleMatchesOnceTapped
<1>1. IInv => TitleMatchesOnceTapped
  BY DEF IInv
<1> QED
  BY <1>1, InductiveInvariant, PTL
=============================================================================
