--------------------------- MODULE IngredientPicker ---------------------------
(***************************************************************************)
(* The ingredients page: IngredientsViewController and the ItemToBuy rows  *)
(* it saves.                                                               *)
(*                                                                         *)
(* The check mark of an ingredient is kept nowhere but in its table cell.  *)
(* A cell exists while its row is on screen, and one that comes on screen  *)
(* is checked anew.  addToShopping goes through the list row by row, asks  *)
(* the table for the row's cell, and saves the row before the next.        *)
(*                                                                         *)
(* Rows are numbered from 1.  Rows leave and enter the screen by scrolling *)
(* one row at a time.                                                      *)
(***************************************************************************)
EXTENDS Integers, Sequences, FiniteSets

CONSTANTS
    MaxRows,    \* bound on the ingredients of a recipe
    Height,     \* how many rows fit on the screen
    MaxTaps     \* bound on the taps on Add to Shopping List

ASSUME PickerAssumption ==
    MaxRows \in Nat \ {0} /\ Height \in Nat \ {0} /\ MaxTaps \in Nat

VARIABLES
    request,     \* the request for the ingredients
    found,       \* the ingredients in its answer
    list,        \* how many of them ingredientList holds
    rows,        \* the rows the table knows of, -1 before its first layout
    top,         \* the first row on screen
    checked,     \* the rows on screen whose cell has a check mark
    next,        \* addToShopping: the row it looks at next, 0 if it does not run
    last,        \* addToShopping: the last row it will look at
    saved,       \* the rows saved as ItemToBuy, in order
    nutrition,   \* the request for the nutrition labels
    trapped,     \* the app has ended: a save failed or an array read was torn
    taps,        \* history: taps on Add to Shopping List
    before,      \* history: Len(saved) at the last of them
    unwanted,    \* history: rows the user unchecked and did not check again
    scrolled     \* history: the user scrolled

vars == <<request, found, list, rows, top, checked, next, last, saved, nutrition,
          trapped, taps, before, unwanted, scrolled>>
loading == <<request, found, list>>
table   == <<rows, top, checked>>
adding  == <<next, last, saved, taps, before>>
wishes  == <<unwanted, scrolled>>

Visible == {i \in 1 .. rows : i \in top .. top + Height - 1}

\* Nothing runs on the main thread, which addToShopping holds from start to end.
MainFree == ~trapped /\ next = 0

\* The rows saved by the last tap.
SavedByTap == {saved[i] : i \in before + 1 .. Len(saved)}

-----------------------------------------------------------------------------
\* viewDidLoad has started both requests.
Init ==
    /\ request = "loading" /\ found = 0 /\ list = 0
    /\ rows = -1 /\ top = 1 /\ checked = {}
    /\ next = 0 /\ last = 0 /\ saved = <<>>
    /\ nutrition = "loading" /\ trapped = FALSE
    /\ taps = 0 /\ before = 0 /\ unwanted = {} /\ scrolled = FALSE

-----------------------------------------------------------------------------
(* The completion handler of loadIngredients.                              *)

\* An error, a status other than 200 or an answer without "ingredients" ends it.
\* Otherwise it goes on, with none for a body that is no JSON object.
IngredientsAnswer ==
    /\ ~trapped /\ request = "loading"
    /\ \/ request' = "done" /\ found' = 0
       \/ request' = "appending" /\ found' \in 0 .. MaxRows
    /\ UNCHANGED <<list, table, adding, nutrition, trapped, wishes>>

\* The main thread may be reading ingredientList, in the loop of addToShopping or to
\* lay out rows it knows of: a data race, which may end the app.
AppendIngredient ==
    /\ ~trapped /\ request = "appending" /\ list < found
    /\ list' = list + 1
    /\ \/ UNCHANGED trapped
       \/ (rows > 0 \/ next > 0) /\ trapped' = TRUE
    /\ UNCHANGED <<request, found, table, adding, nutrition, wishes>>

QueueReload ==
    /\ ~trapped /\ request = "appending" /\ list = found
    /\ request' = "queued"
    /\ UNCHANGED <<found, list, table, adding, nutrition, trapped, wishes>>

-----------------------------------------------------------------------------
(* The table, on the main thread.                                          *)

\* The table asks for its rows: cellForRowAt checks every cell it makes.
ShowRows ==
    /\ rows' = list
    /\ checked' = 1 .. list \cap top .. top + Height - 1

\* The data source is set in the storyboard, so the first layout shows what has been
\* appended by then.
FirstLayout ==
    /\ MainFree /\ rows = -1
    /\ ShowRows
    /\ UNCHANGED <<loading, top, adding, nutrition, trapped, wishes>>

\* A reload that starts from no check marks.
ReloadUnchecked ==
    /\ MainFree /\ request = "queued"
    /\ rows' = list /\ checked' = {}
    /\ request' = "shown"
    /\ UNCHANGED <<found, list, top, adding, nutrition, trapped, wishes>>

\* The block: the delegate is set, and from here on rows can be tapped.
Reload ==
    /\ MainFree /\ request = "queued"
    /\ ShowRows
    /\ request' = "shown"
    /\ UNCHANGED <<found, list, top, adding, nutrition, trapped, wishes>>

\* didSelectRowAt
Toggle ==
    /\ MainFree /\ request = "shown"
    /\ \E i \in Visible :
          IF i \in checked
          THEN checked' = checked \ {i} /\ unwanted' = unwanted \cup {i}
          ELSE checked' = checked \cup {i} /\ unwanted' = unwanted \ {i}
    /\ UNCHANGED <<loading, rows, top, adding, nutrition, trapped, scrolled>>

\* One row leaves the screen and another comes on, with a cell checked anew.
Scroll ==
    /\ MainFree /\ rows > Height
    /\ \/ top + Height - 1 < rows
          /\ top' = top + 1 /\ checked' = (checked \ {top}) \cup {top + Height}
       \/ top > 1
          /\ top' = top - 1 /\ checked' = (checked \ {top + Height - 1}) \cup {top - 1}
    /\ scrolled' = TRUE
    /\ UNCHANGED <<loading, rows, adding, nutrition, trapped, unwanted>>

-----------------------------------------------------------------------------
(* addToShopping, on the main thread.                                      *)

\* A loop over the indices of the rows the table could hold.
AddToShoppingAll ==
    /\ MainFree /\ rows >= 0 /\ taps < MaxTaps
    /\ taps' = taps + 1 /\ before' = Len(saved)
    /\ next' = 1 /\ last' = found + 1
    /\ UNCHANGED <<loading, table, saved, nutrition, trapped, wishes>>

\* The loop is over the indices the list has now.
AddToShopping ==
    /\ MainFree /\ rows >= 0 /\ taps < MaxTaps
    /\ taps' = taps + 1 /\ before' = Len(saved)
    /\ next' = IF list = 0 THEN 0 ELSE 1
    /\ last' = list
    /\ UNCHANGED <<loading, table, saved, nutrition, trapped, wishes>>

\* A loop over 0 ..< count - 1.
AdvanceShort == next' = IF next + 1 >= last THEN 0 ELSE next + 1

Advance == next' = IF next = last THEN 0 ELSE next + 1

\* A row that is inserted, and saved with the next one.
AddRowLate ==
    /\ ~trapped /\ next > 0 /\ next \in checked
    /\ saved' = IF next = last THEN saved \o <<next>> ELSE saved
    /\ Advance
    /\ UNCHANGED <<loading, table, last, nutrition, trapped, taps, before, wishes>>

\* A row with a checked cell is inserted and saved by itself.
AddRow ==
    /\ ~trapped /\ next > 0 /\ next \in checked
    /\ saved' = Append(saved, next)
    /\ Advance
    /\ UNCHANGED <<loading, table, last, nutrition, trapped, taps, before, wishes>>

\* saveContext() ends the app when the store refuses; the rows before stay saved.
AddRowFails ==
    /\ ~trapped /\ next > 0 /\ next \in checked
    /\ trapped' = TRUE
    /\ UNCHANGED <<loading, table, adding, nutrition, wishes>>

\* A loop that stays at a row without a cell.
SkipRowStuck ==
    /\ ~trapped /\ next > 0 /\ next \in Visible \ checked
    /\ Advance
    /\ UNCHANGED <<loading, table, last, saved, nutrition, trapped, taps, before, wishes>>

\* A row that is not checked, or that has no cell because it is not on screen.
SkipRow ==
    /\ ~trapped /\ next > 0 /\ next \notin checked
    /\ Advance
    /\ UNCHANGED <<loading, table, last, saved, nutrition, trapped, taps, before, wishes>>

-----------------------------------------------------------------------------
(* loadNutrition: fifteen labels, set together on the main thread.          *)

\* An error, a status other than 200, or no "bad" and "good" lists: the labels keep
\* the sample figures of the storyboard.  Both requests' handlers run on the one
\* serial queue of URLSession.shared, so not inside each other.
NutritionAnswer ==
    /\ ~trapped /\ nutrition = "loading" /\ request # "appending"
    /\ nutrition' \in {"samples", "queued"}
    /\ UNCHANGED <<loading, table, adding, trapped, wishes>>

ShowNutrition ==
    /\ MainFree /\ nutrition = "queued"
    /\ nutrition' = "shown"
    /\ UNCHANGED <<loading, table, adding, trapped, wishes>>

Handler == IngredientsAnswer \/ AppendIngredient \/ QueueReload \/ NutritionAnswer
Blocks  == FirstLayout \/ Reload \/ ShowNutrition
AddLoop == AddRow \/ AddRowFails \/ SkipRow

Next == Handler \/ Blocks \/ Toggle \/ Scroll \/ AddToShopping \/ AddLoop

\* Requests are answered or time out, the serial queue goes on with a handler it has
\* begun, and the main thread runs its loop and the blocks queued on it.
Fairness == WF_vars(Handler) /\ WF_vars(AddLoop) /\ SF_vars(Reload) /\ SF_vars(ShowNutrition)

Spec == Init /\ [][Next]_vars /\ Fairness

-----------------------------------------------------------------------------
\* The state's types; only a row that has a cell is checked.
TypeOK ==
    /\ request \in {"loading", "appending", "queued", "shown", "done"}
    /\ found \in 0 .. MaxRows /\ list \in 0 .. found
    /\ rows \in -1 .. list /\ top \in 1 .. MaxRows
    /\ checked \subseteq Visible
    /\ next \in 0 .. last /\ last \in 0 .. list
    /\ saved \in Seq(1 .. MaxRows)
    /\ nutrition \in {"loading", "samples", "queued", "shown"}
    /\ trapped \in BOOLEAN /\ taps \in 0 .. MaxTaps /\ before \in 0 .. Len(saved)
    /\ unwanted \subseteq 1 .. MaxRows /\ scrolled \in BOOLEAN

\* When the loop of addToShopping ends it has saved the rows checked on screen, each
\* once and in the table's order, whatever the other thread appended meanwhile.
TapSavesWhatIsChecked ==
    [][next > 0 /\ next' = 0 =>
         /\ SavedByTap' = checked
         /\ \A i, j \in before + 1 .. Len(saved') : i < j => saved'[i] < saved'[j]]_vars

\* Until the user scrolls, the marks on screen are the user's wishes: late answers,
\* reloads and taps on Add leave them alone.
MarksAreWishesUnlessScrolled == ~scrolled => checked = Visible \ unwanted

\* A save that fails half way, or an end of the app in the loop, leaves the rows that
\* were to be saved up to the one being looked at, and no other.
FailureLeavesInitialPart ==
    next > 0 => SavedByTap = {i \in checked : i < next}

\* The ingredients come to be shown, or their request has failed, or the app ends.
IngredientsSettle == request = "loading" ~> request \in {"shown", "done"} \/ trapped
=============================================================================
