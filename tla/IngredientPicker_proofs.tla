----------------------- MODULE IngredientPicker_proofs -----------------------
(***************************************************************************)
(* Safety of the ingredients page, for any number of ingredients, rows on  *)
(* screen and taps.  The argument: while addToShopping runs nothing else   *)
(* touches the table, whose rows are all below the loop's last index, so   *)
(* that what is saved so far is what is checked so far.                    *)
(***************************************************************************)
EXTENDS IngredientPicker, SequenceTheorems, TLAPS

\* Rows can be unchecked only after the block has run, which lays the table out.
WishesNeedRows ==
    /\ request # "shown" => unwanted = {}
    /\ rows = -1 => request # "shown"

\* The loop reaches every row the table knows of.
LoopCoversTable == next > 0 => rows <= last

\* The rows saved by this tap so far are in the table's order.
SavedInOrder ==
    next > 0 => \A i, j \in before + 1 .. Len(saved) : i < j => saved[i] < saved[j]

\* Nothing is appended before the answer.
LoadingIsEmpty == request = "loading" => list = 0

\* A list that was scrolled fills the screen.
TopHasRow == top > 1 => top + Height - 1 <= rows

IInv ==
    /\ TypeOK
    /\ LoadingIsEmpty /\ TopHasRow
    /\ WishesNeedRows /\ MarksAreWishesUnlessScrolled
    /\ LoopCoversTable /\ FailureLeavesInitialPart /\ SavedInOrder

-----------------------------------------------------------------------------
\* The page starts with both requests under way and no row.
LEMMA InitEstablishesIInv == Init => IInv
<1> SUFFICES ASSUME Init
             PROVE  IInv
  OBVIOUS
<1> USE PickerAssumption DEF Init
<1>1. Visible = {}
  BY DEF Visible
<1>2. Len(saved) = 0 /\ saved \in Seq(1 .. MaxRows)
  BY EmptySeq
<1>3. /\ found \in 0 .. MaxRows /\ list \in 0 .. found /\ rows \in -1 .. list /\ top \in 1 .. MaxRows
      /\ next \in 0 .. last /\ last \in 0 .. list /\ taps \in 0 .. MaxTaps
      /\ before \in 0 .. Len(saved)
  BY <1>2
<1>4. TypeOK
  BY <1>1, <1>2, <1>3 DEF TypeOK
<1> QED
  BY <1>1, <1>4 DEF IInv, LoadingIsEmpty, TopHasRow, WishesNeedRows, MarksAreWishesUnlessScrolled, LoopCoversTable,
                    FailureLeavesInitialPart, SavedInOrder

\* What the type invariant says in numbers.
LEMMA Numbers ==
    ASSUME TypeOK
    PROVE  /\ MaxRows \in Nat /\ Height \in Nat /\ Height > 0 /\ MaxTaps \in Nat
           /\ found \in Nat /\ found <= MaxRows /\ list \in Nat /\ list <= found
           /\ rows \in Int /\ rows <= list /\ -1 <= rows
           /\ top \in Nat /\ 1 <= top /\ top <= MaxRows
           /\ last \in Nat /\ last <= list /\ next \in Nat /\ next <= last
           /\ taps \in Nat /\ taps <= MaxTaps
           /\ saved \in Seq(1 .. MaxRows) /\ Len(saved) \in Nat
           /\ before \in Nat /\ before <= Len(saved)
           /\ \A i \in Visible : i \in Nat /\ 1 <= i /\ i <= rows /\ i \in 1 .. MaxRows
           /\ checked \subseteq Visible
<1>1. /\ MaxRows \in Nat /\ Height \in Nat /\ Height > 0 /\ MaxTaps \in Nat
      /\ found \in Nat /\ found <= MaxRows /\ list \in Nat /\ list <= found
      /\ rows \in Int /\ rows <= list /\ -1 <= rows
      /\ top \in Nat /\ 1 <= top /\ top <= MaxRows
  BY PickerAssumption DEF TypeOK
<1>2. /\ last \in Nat /\ last <= list /\ next \in Nat /\ next <= last
      /\ taps \in Nat /\ taps <= MaxTaps
  BY <1>1 DEF TypeOK
<1>3. saved \in Seq(1 .. MaxRows) /\ Len(saved) \in Nat
  BY LenProperties DEF TypeOK
<1>4. before \in Nat /\ before <= Len(saved)
  BY <1>3 DEF TypeOK
<1>5. \A i \in Visible : i \in Nat /\ 1 <= i /\ i <= rows /\ i \in 1 .. MaxRows
  BY <1>1 DEF Visible
<1> QED
  BY <1>1, <1>2, <1>3, <1>4, <1>5 DEF TypeOK

\* A step that leaves the loop and its rows alone leaves what it saved right.
LEMMA LoopKept ==
    ASSUME IInv, UNCHANGED <<adding, checked, rows>>
    PROVE  LoopCoversTable' /\ FailureLeavesInitialPart' /\ SavedInOrder'
BY DEF IInv, LoopCoversTable, FailureLeavesInitialPart, SavedInOrder, SavedByTap, adding

\* While the loop does not run there is nothing to say of it.
LEMMA NoLoop ==
    ASSUME next' = 0
    PROVE  LoopCoversTable' /\ FailureLeavesInitialPart' /\ SavedInOrder'
BY DEF LoopCoversTable, FailureLeavesInitialPart, SavedInOrder

-----------------------------------------------------------------------------
(* The completion handlers.                                                *)

\* The answer, and the entries that are appended: the table does not change.
LEMMA HandlerPreservesIInv ==
    ASSUME IInv, Handler
    PROVE  IInv'
<1>1. /\ UNCHANGED <<table, adding, wishes>>
  BY DEF Handler, IngredientsAnswer, AppendIngredient, QueueReload, NutritionAnswer
<1>2. LoopCoversTable' /\ FailureLeavesInitialPart' /\ SavedInOrder'
  BY <1>1, LoopKept DEF table
<1>3. /\ request' # "shown" <=> request # "shown"
      /\ request' \in {"loading", "appending", "queued", "shown", "done"}
      /\ nutrition' \in {"loading", "samples", "queued", "shown"} /\ trapped' \in BOOLEAN
  BY DEF IInv, TypeOK, Handler, IngredientsAnswer, AppendIngredient, QueueReload,
         NutritionAnswer, loading
<1>4. found' \in 0 .. MaxRows /\ list' \in 0 .. found' /\ list <= list'
  <2>1. CASE IngredientsAnswer
    <3>1. list' = list /\ list \in Nat /\ found' \in 0 .. MaxRows
      BY <2>1, PickerAssumption DEF IngredientsAnswer, IInv, TypeOK
    <3>2. list = 0
      BY <2>1 DEF IngredientsAnswer, IInv, LoadingIsEmpty
    <3> QED
      BY <3>1, <3>2, PickerAssumption
  <2>2. CASE AppendIngredient
    BY <2>2, Numbers DEF AppendIngredient, IInv
  <2>3. CASE QueueReload \/ NutritionAnswer
    BY <2>3, Numbers DEF QueueReload, NutritionAnswer, loading, IInv
  <2> QED
    BY <2>1, <2>2, <2>3 DEF Handler
<1>5. TypeOK'
  BY <1>1, <1>3, <1>4, Numbers DEF IInv, TypeOK, Visible, table, adding, wishes
<1>6. WishesNeedRows' /\ MarksAreWishesUnlessScrolled'
  BY <1>1, <1>3 DEF IInv, WishesNeedRows, MarksAreWishesUnlessScrolled, Visible, table, wishes
<1>7. LoadingIsEmpty' /\ TopHasRow'
  BY <1>1 DEF IInv, LoadingIsEmpty, TopHasRow, Handler, IngredientsAnswer, AppendIngredient,
              QueueReload, NutritionAnswer, loading, table
<1> QED
  BY <1>2, <1>5, <1>6, <1>7 DEF IInv

-----------------------------------------------------------------------------
(* The table.                                                              *)

\* A layout: every row on screen is checked anew, before any was unchecked.
LEMMA ShowRowsPreservesIInv ==
    ASSUME IInv, next = 0, ShowRows, unwanted = {}, request' \in {request, "shown"},
           UNCHANGED <<found, list, top, adding, nutrition, trapped, wishes>>
    PROVE  IInv'
<1>1. LoopCoversTable' /\ FailureLeavesInitialPart' /\ SavedInOrder'
  BY NoLoop DEF adding
<1>2. /\ rows' = list /\ list \in Nat /\ list <= found /\ rows' \in -1 .. list /\ top \in Nat
  BY Numbers DEF ShowRows, IInv
<1>3. checked' = Visible'
  BY <1>2 DEF ShowRows, Visible
<1>4. TypeOK'
  BY <1>2, <1>3 DEF IInv, TypeOK, adding, wishes
<1>5. WishesNeedRows' /\ MarksAreWishesUnlessScrolled' /\ LoadingIsEmpty'
  BY <1>2, <1>3 DEF IInv, LoadingIsEmpty, WishesNeedRows, MarksAreWishesUnlessScrolled, wishes
<1>6. TopHasRow'
  BY <1>2, Numbers DEF IInv, TopHasRow
<1> QED
  BY <1>1, <1>4, <1>5, <1>6 DEF IInv

\* The blocks on the main thread.
LEMMA BlocksPreserveIInv ==
    ASSUME IInv, Blocks
    PROVE  IInv'
<1>1. CASE FirstLayout
  <2>1. unwanted = {}
    BY <1>1 DEF FirstLayout, IInv, WishesNeedRows
  <2> QED
    BY <1>1, <2>1, ShowRowsPreservesIInv DEF FirstLayout, MainFree, loading
<1>2. CASE Reload
  <2>1. unwanted = {}
    BY <1>2 DEF Reload, IInv, WishesNeedRows
  <2> QED
    BY <1>2, <2>1, ShowRowsPreservesIInv DEF Reload, MainFree
<1>3. CASE ShowNutrition
  <2>1. LoopCoversTable' /\ FailureLeavesInitialPart' /\ SavedInOrder'
    BY <1>3, LoopKept DEF ShowNutrition, table
  <2> QED
    BY <1>3, <2>1 DEF ShowNutrition, IInv, TypeOK, Visible, LoadingIsEmpty, TopHasRow, WishesNeedRows,
                      MarksAreWishesUnlessScrolled, loading, table, adding, wishes
<1> QED
  BY <1>1, <1>2, <1>3 DEF Blocks

\* A row is unchecked or checked.
LEMMA TogglePreservesIInv ==
    ASSUME IInv, Toggle
    PROVE  IInv'
<1>1. PICK i \in Visible :
         IF i \in checked
         THEN checked' = checked \ {i} /\ unwanted' = unwanted \cup {i}
         ELSE checked' = checked \cup {i} /\ unwanted' = unwanted \ {i}
  BY DEF Toggle
<1>2. /\ next' = 0 /\ request' = "shown"
      /\ UNCHANGED <<loading, rows, top, adding, nutrition, trapped, scrolled>>
  BY DEF Toggle, MainFree, loading, adding
<1>3. LoopCoversTable' /\ FailureLeavesInitialPart' /\ SavedInOrder'
  BY <1>2, NoLoop
<1>4. Visible' = Visible /\ i \in 1 .. MaxRows /\ checked \subseteq Visible
  BY <1>2, Numbers DEF IInv, Visible
<1>5. TypeOK'
  BY <1>1, <1>2, <1>4 DEF IInv, TypeOK, loading, adding
<1>6. WishesNeedRows' /\ MarksAreWishesUnlessScrolled' /\ LoadingIsEmpty' /\ TopHasRow'
  BY <1>1, <1>2, <1>4 DEF IInv, LoadingIsEmpty, TopHasRow, WishesNeedRows, MarksAreWishesUnlessScrolled, loading
<1> QED
  BY <1>3, <1>5, <1>6 DEF IInv

\* One row leaves the screen and another comes on.
LEMMA ScrollPreservesIInv ==
    ASSUME IInv, Scroll
    PROVE  IInv'
<1>1. /\ next' = 0 /\ scrolled' = TRUE /\ rows > Height
      /\ UNCHANGED <<loading, rows, adding, nutrition, trapped, unwanted>>
  BY DEF Scroll, MainFree, adding
<1>2. LoopCoversTable' /\ FailureLeavesInitialPart' /\ SavedInOrder'
  BY <1>1, NoLoop
<1>3. top' \in 1 .. MaxRows /\ checked' \subseteq Visible'
  <2>1. /\ Height \in Nat /\ Height > 0 /\ rows \in Int /\ rows <= MaxRows /\ MaxRows \in Nat
        /\ top \in Nat /\ 1 <= top /\ rows' = rows
    BY <1>1, Numbers DEF IInv
  <2>2. \A i \in checked : i \in 1 .. rows /\ i \in top .. top + Height - 1
    BY Numbers DEF IInv, Visible
  <2>3. CASE top + Height - 1 < rows /\ top' = top + 1
             /\ checked' = (checked \ {top}) \cup {top + Height}
    <3>1. \A i \in checked \ {top} : i \in 1 .. rows /\ i \in top + 1 .. top + 1 + Height - 1
      BY <2>1, <2>2
    <3>2. top + Height \in 1 .. rows /\ top + Height \in top + 1 .. top + 1 + Height - 1
      BY <2>1, <2>3
    <3>3. top + 1 \in 1 .. MaxRows
      BY <2>1, <2>3
    <3> QED
      BY <2>1, <2>3, <3>1, <3>2, <3>3 DEF Visible
  <2>4. CASE top > 1 /\ top' = top - 1
             /\ checked' = (checked \ {top + Height - 1}) \cup {top - 1}
    <3>1. \A i \in checked \ {top + Height - 1} :
             i \in 1 .. rows /\ i \in top - 1 .. top - 1 + Height - 1
      BY <2>1, <2>2
    <3>2. top - 1 \in 1 .. MaxRows /\ top - 1 \in top - 1 .. top - 1 + Height - 1
      BY <2>1, <2>4, Numbers DEF IInv
    <3>3. top - 1 \in 1 .. rows
      BY <2>1, <2>4, <1>1, Numbers DEF IInv, TopHasRow
    <3> QED
      BY <2>1, <2>4, <3>1, <3>2, <3>3 DEF Visible
  <2> QED
    BY <2>3, <2>4 DEF Scroll
<1>4. TypeOK'
  BY <1>1, <1>3 DEF IInv, TypeOK, loading, adding
<1>5. WishesNeedRows' /\ MarksAreWishesUnlessScrolled' /\ LoadingIsEmpty'
  BY <1>1 DEF IInv, LoadingIsEmpty, WishesNeedRows, MarksAreWishesUnlessScrolled, loading
<1>6. TopHasRow'
  <2>1. \/ top' = top + 1 /\ top + Height - 1 < rows
        \/ top' = top - 1 /\ top > 1
    BY DEF Scroll
  <2>2. top \in Nat /\ Height \in Nat /\ rows \in Int
    BY Numbers DEF IInv
  <2> QED
    BY <1>1, <2>1, <2>2 DEF IInv, TopHasRow
<1> QED
  BY <1>2, <1>4, <1>5, <1>6 DEF IInv

-----------------------------------------------------------------------------
(* addToShopping.                                                          *)

\* The tap: nothing is saved yet, and the last index is beyond the table's rows.
LEMMA AddToShoppingPreservesIInv ==
    ASSUME IInv, AddToShopping
    PROVE  IInv'
<1> USE Numbers DEF IInv
<1>1. /\ UNCHANGED <<loading, table, saved, nutrition, trapped, wishes>>
      /\ taps < MaxTaps /\ taps' = taps + 1 /\ before' = Len(saved) /\ last' = list
      /\ next' = IF list = 0 THEN 0 ELSE 1
  BY DEF AddToShopping
<1>2. TypeOK'
  <2>1. /\ next' \in 0 .. last' /\ last' \in 0 .. list /\ taps' \in 0 .. MaxTaps
        /\ before' \in 0 .. Len(saved)
    BY <1>1
  <2> QED
    BY <1>1, <2>1 DEF TypeOK, Visible, loading, table, wishes
<1>3. LoopCoversTable'
  BY <1>1 DEF LoopCoversTable, table
<1>4. SavedByTap' = {} /\ SavedInOrder'
  BY <1>1 DEF SavedByTap, SavedInOrder
<1>5. next' > 0 => {i \in checked : i < next'} = {}
  BY <1>1
<1>6. FailureLeavesInitialPart'
  BY <1>1, <1>4, <1>5 DEF FailureLeavesInitialPart, table
<1>7. WishesNeedRows' /\ MarksAreWishesUnlessScrolled' /\ LoadingIsEmpty' /\ TopHasRow'
  BY <1>1 DEF LoadingIsEmpty, TopHasRow, WishesNeedRows, MarksAreWishesUnlessScrolled, Visible, loading, table, wishes
<1> QED
  BY <1>2, <1>3, <1>4, <1>6, <1>7

\* One row of the loop, saved or passed over: up to it, the saved rows are the
\* checked ones in order.
LEMMA RowDone ==
    ASSUME IInv, next > 0, UNCHANGED <<checked, before>>,
           \/ next \in checked /\ saved' = Append(saved, next)
           \/ next \notin checked /\ saved' = saved
    PROVE  /\ saved' \in Seq(1 .. MaxRows) /\ before \in 0 .. Len(saved')
           /\ SavedByTap' = {i \in checked : i < next + 1}
           /\ \A i, j \in before + 1 .. Len(saved') : i < j => saved'[i] < saved'[j]
<1> USE Numbers DEF IInv
<1>1. /\ next \in Nat /\ before \in Nat /\ before <= Len(saved) /\ Len(saved) \in Nat
      /\ saved \in Seq(1 .. MaxRows)
      /\ \A i \in checked : i \in Nat
  OBVIOUS
<1>2. SavedByTap = {i \in checked : i < next}
  BY DEF FailureLeavesInitialPart
<1>3. \A i, j \in before + 1 .. Len(saved) : i < j => saved[i] < saved[j]
  BY DEF SavedInOrder
<1>4. CASE next \notin checked /\ saved' = saved
  <2>1. {i \in checked : i < next} = {i \in checked : i < next + 1}
    BY <1>1, <1>4
  <2>2. SavedByTap' = SavedByTap
    BY <1>4 DEF SavedByTap
  <2> QED
    BY <1>1, <1>2, <1>3, <1>4, <2>1, <2>2
<1>5. CASE next \in checked /\ saved' = Append(saved, next)
  <2>1. next \in 1 .. MaxRows
    BY <1>5
  <2>2. /\ saved' \in Seq(1 .. MaxRows) /\ Len(saved') = Len(saved) + 1
        /\ \A i \in 1 .. Len(saved) : saved'[i] = saved[i]
        /\ saved'[Len(saved) + 1] = next
    BY <1>1, <1>5, <2>1, AppendProperties
  <2>3. \A i \in before + 1 .. Len(saved') :
           i = Len(saved) + 1 \/ (i \in before + 1 .. Len(saved) /\ i \in 1 .. Len(saved))
    BY <1>1, <2>2
  <2>4. \A i \in before + 1 .. Len(saved) : saved'[i] = saved[i] /\ saved[i] \in SavedByTap
    <3> TAKE i \in before + 1 .. Len(saved)
    <3>1. i \in 1 .. Len(saved)
      BY <1>1
    <3> QED
      BY <2>2, <3>1 DEF SavedByTap
  <2>5. SavedByTap' = SavedByTap \cup {next}
    <3>1. \A x \in SavedByTap' : x \in SavedByTap \cup {next}
      BY <2>2, <2>3, <2>4 DEF SavedByTap
    <3>2. next \in SavedByTap'
      <4>1. Len(saved) + 1 \in before' + 1 .. Len(saved')
        BY <1>1, <2>2
      <4> QED
        BY <2>2, <4>1 DEF SavedByTap
    <3>3. \A x \in SavedByTap : x \in SavedByTap'
      <4> TAKE x \in SavedByTap
      <4>1. PICK i \in before + 1 .. Len(saved) : x = saved[i]
        BY DEF SavedByTap
      <4>2. i \in before' + 1 .. Len(saved') /\ saved'[i] = x
        BY <1>1, <2>2, <2>4, <4>1
      <4> QED
        BY <4>2 DEF SavedByTap
    <3> QED
      BY <3>1, <3>2, <3>3
  <2>6. {i \in checked : i < next} \cup {next} = {i \in checked : i < next + 1}
    <3>1. \A i \in checked : i < next + 1 <=> i < next \/ i = next
      BY <1>1
    <3>2. next < next + 1
      BY <1>1
    <3> QED
      BY <1>5, <3>1, <3>2
  <2>7. \A i, j \in before + 1 .. Len(saved') : i < j => saved'[i] < saved'[j]
    <3> SUFFICES ASSUME NEW i \in before + 1 .. Len(saved'), NEW j \in before + 1 .. Len(saved'), i < j
                 PROVE  saved'[i] < saved'[j]
      OBVIOUS
    <3>1. i \in before + 1 .. Len(saved)
      BY <1>1, <2>2
    <3>2. saved'[i] = saved[i] /\ saved[i] < next
      BY <1>2, <2>4, <3>1
    <3>3. CASE j = Len(saved) + 1
      BY <2>2, <3>2, <3>3
    <3>4. CASE j \in before + 1 .. Len(saved)
      BY <1>3, <2>4, <3>1, <3>4
    <3> QED
      BY <2>3, <3>3, <3>4
  <2>8. before \in 0 .. Len(saved')
    BY <1>1, <2>2
  <2> QED
    BY <1>2, <2>2, <2>5, <2>6, <2>7, <2>8
<1> QED
  BY <1>4, <1>5

\* The loop goes on, or ends.
LEMMA AddLoopPreservesIInv ==
    ASSUME IInv, AddLoop
    PROVE  IInv'
<1>1. CASE AddRowFails
  <2>1. LoopCoversTable' /\ FailureLeavesInitialPart' /\ SavedInOrder'
    BY <1>1, LoopKept DEF AddRowFails, table
  <2> QED
    BY <1>1, <2>1 DEF AddRowFails, IInv, TypeOK, Visible, LoadingIsEmpty, TopHasRow, WishesNeedRows,
                      MarksAreWishesUnlessScrolled, loading, table, adding, wishes
<1>2. CASE AddRow \/ SkipRow
  <2>1. /\ UNCHANGED <<loading, table, last, nutrition, trapped, taps, before, wishes>>
        /\ next > 0 /\ Advance
        /\ \/ next \in checked /\ saved' = Append(saved, next)
           \/ next \notin checked /\ saved' = saved
    BY <1>2 DEF AddRow, SkipRow
  <2>2. /\ saved' \in Seq(1 .. MaxRows) /\ before \in 0 .. Len(saved')
        /\ SavedByTap' = {i \in checked : i < next + 1}
        /\ \A i, j \in before + 1 .. Len(saved') : i < j => saved'[i] < saved'[j]
    BY <2>1, RowDone DEF table
  <2>3. next' \in 0 .. last /\ (next' > 0 => next' = next + 1)
    BY <2>1, Numbers DEF IInv, Advance
  <2>4. TypeOK'
    BY <2>1, <2>2, <2>3 DEF IInv, TypeOK, Visible, loading, table, wishes
  <2>5. LoopCoversTable' /\ FailureLeavesInitialPart' /\ SavedInOrder'
    BY <2>1, <2>2, <2>3 DEF IInv, LoopCoversTable, FailureLeavesInitialPart, SavedInOrder, table
  <2>6. WishesNeedRows' /\ MarksAreWishesUnlessScrolled' /\ LoadingIsEmpty' /\ TopHasRow'
    BY <2>1 DEF IInv, LoadingIsEmpty, TopHasRow, WishesNeedRows, MarksAreWishesUnlessScrolled, Visible,
                loading, table, wishes
  <2> QED
    BY <2>4, <2>5, <2>6 DEF IInv
<1> QED
  BY <1>1, <1>2 DEF AddLoop

\* Every step of the specification.
LEMMA NextPreservesIInv == IInv /\ [Next]_vars => IInv'
<1> SUFFICES ASSUME IInv, [Next]_vars
             PROVE  IInv'
  OBVIOUS
<1>1. CASE UNCHANGED vars
  BY <1>1 DEF vars, IInv, TypeOK, Visible, LoadingIsEmpty, TopHasRow, WishesNeedRows,
              MarksAreWishesUnlessScrolled, LoopCoversTable, FailureLeavesInitialPart,
              SavedInOrder, SavedByTap
<1> QED
  BY <1>1, HandlerPreservesIInv, BlocksPreserveIInv, TogglePreservesIInv, ScrollPreservesIInv,
     AddToShoppingPreservesIInv, AddLoopPreservesIInv DEF Next

-----------------------------------------------------------------------------
\* Every behaviour keeps the inductive invariant.
THEOREM InductiveInvariant == Spec => []IInv
BY InitEstablishesIInv, NextPreservesIInv, PTL DEF Spec

\* The types of the page's state; only a row that has a cell is checked.
THEOREM TypeCorrect == Spec => []TypeOK
<1>1. IInv => TypeOK
  BY DEF IInv
<1> QED
  BY <1>1, InductiveInvariant, PTL

\* Until the user scrolls, the marks on screen are the user's wishes.
THEOREM MarksAreWishes == Spec => []MarksAreWishesUnlessScrolled
<1>1. IInv => MarksAreWishesUnlessScrolled
  BY DEF IInv
<1> QED
  BY <1>1, InductiveInvariant, PTL

\* Wherever a save fails, the rows saved are the checked ones before it.
THEOREM FailureIsPrefix == Spec => []FailureLeavesInitialPart
<1>1. IInv => FailureLeavesInitialPart
  BY DEF IInv
<1> QED
  BY <1>1, InductiveInvariant, PTL

\* A tap that runs to its end has saved the rows checked on screen, each once and in
\* order, however long the list has grown meanwhile.
THEOREM TapSavesChecked == Spec => TapSavesWhatIsChecked
<1> DEFINE Saves == next > 0 /\ next' = 0 =>
                       /\ SavedByTap' = checked
                       /\ \A i, j \in before + 1 .. Len(saved') : i < j => saved'[i] < saved'[j]
<1>1. IInv /\ [Next]_vars => [Saves]_vars
  <2> SUFFICES ASSUME IInv, Next, next > 0, next' = 0
               PROVE  /\ SavedByTap' = checked
                      /\ \A i, j \in before + 1 .. Len(saved') : i < j => saved'[i] < saved'[j]
    OBVIOUS
  <2>1. AddRow \/ SkipRow
    BY DEF Next, Handler, IngredientsAnswer, AppendIngredient, QueueReload, NutritionAnswer,
           Blocks, FirstLayout, Reload, ShowNutrition, Toggle, Scroll, AddToShopping, MainFree,
           AddLoop, AddRowFails, adding
  <2>2. /\ UNCHANGED <<table, before>> /\ Advance
        /\ \/ next \in checked /\ saved' = Append(saved, next)
           \/ next \notin checked /\ saved' = saved
    BY <2>1 DEF AddRow, SkipRow
  <2>3. next = last /\ rows <= last
    BY <2>2, Numbers DEF Advance, IInv, LoopCoversTable
  <2>4. {i \in checked : i < next + 1} = checked
    BY <2>3, Numbers DEF IInv
  <2> QED
    BY <2>2, <2>4, RowDone DEF table
<1> QED
  BY <1>1, InductiveInvariant, PTL DEF Spec, TapSavesWhatIsChecked
=============================================================================
