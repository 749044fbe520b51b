--------------------------- MODULE InstructionPager ---------------------------
(***************************************************************************)
(* The instructions tab: InstructionsViewController, which pages through   *)
(* the Instruction rows saved so far and sends the one it shows to the     *)
(* watch.                                                                  *)
(*                                                                         *)
(* All of it runs on the main thread, a handler at a time, except the      *)
(* session's activation.  The block queued by loadCoreInstruction runs     *)
(* after viewDidLoad, which queues it, has returned.                       *)
(*                                                                         *)
(* Rows are numbered from 0, as index is.  Of a row only one thing         *)
(* matters: whether its steps are empty.                                   *)
(***************************************************************************)
EXTENDS Integers

CONSTANTS
    MaxRows,      \* bound on the rows in the store
    ContextSet    \* something has set managedContext before the page loads

ASSUME PagerAssumption == MaxRows \in Nat /\ ContextSet \in BOOLEAN

VARIABLES
    stored,             \* the number of rows in the store
    blank,              \* those of them that have no steps
    count,              \* instructions.count, which is titles.count
    index,
    title,              \* the row whose title is in titleLabel, -1 for none
    listed,             \* the row whose steps the table lists, -1 for none
    previousEnabled,
    nextEnabled,
    activated,          \* the WCSession is activated
    sent,               \* the row last sent to the watch, -1 for none
    phase,              \* "unloaded", then "loaded", and "ready" after the block
    trapped,
    tapped              \* history: a button was tapped since the block ran

vars == <<stored, blank, count, index, title, listed, previousEnabled, nextEnabled,
          activated, sent, phase, trapped, tapped>>
store   == <<stored, blank>>
buttons == <<previousEnabled, nextEnabled>>

-----------------------------------------------------------------------------
Init ==
    /\ stored \in 0 .. MaxRows /\ blank \in SUBSET (0 .. stored - 1)
    /\ count = 0 /\ index = 0 /\ title = -1 /\ listed = -1
    /\ previousEnabled = TRUE /\ nextEnabled = TRUE
    /\ activated = FALSE /\ sent = -1
    /\ phase = "unloaded" /\ trapped = FALSE /\ tapped = FALSE

\* A test for the last row that is off by one.
CheckButtonsLoose(i, n) ==
    /\ previousEnabled' = (n > 0 /\ i > 0)
    /\ nextEnabled' = (n > 0 /\ i < n)

\* checkButtons() with index i and n rows.
CheckButtons(i, n) ==
    /\ previousEnabled' = (n > 0 /\ i > 0)
    /\ nextEnabled' = (n > 0 /\ i < n - 1)

\* sendInstruction() under the test of its three callers.  An activated session may
\* find its watch unreachable.
SendUnlessBlank(i) ==
    \/ activated /\ i \notin blank /\ sent' = i
    \/ UNCHANGED sent

Trap ==
    /\ trapped' = TRUE
    /\ UNCHANGED <<store, count, index, title, listed, buttons, activated, sent, phase, tapped>>

-----------------------------------------------------------------------------
\* A page that tests only the context.
ViewDidLoadUntitled ==
    /\ ~trapped /\ phase = "unloaded"
    /\ ContextSet
    /\ count' = stored
    /\ title' = index
    /\ CheckButtons(index, stored)
    /\ phase' = "loaded"
    /\ UNCHANGED <<store, index, listed, activated, sent, trapped, tapped>>

\* A load that succeeds: the fetch needs managedContext, and titles[0] needs a row.  The session is
\* activated at the end.
ViewDidLoad ==
    /\ ~trapped /\ phase = "unloaded"
    /\ ContextSet /\ stored > 0
    /\ count' = stored
    /\ title' = index
    /\ CheckButtons(index, stored)
    /\ phase' = "loaded"
    /\ UNCHANGED <<store, index, listed, activated, sent, trapped, tapped>>

\* Without a context the fetch ends the app.  A fetch that fails does so in a debug
\* build, by assertionFailure(); in a release build it leaves the list empty, as an
\* empty store does, and titles[0] ends the app.
ViewDidLoadTraps ==
    /\ ~trapped /\ phase = "unloaded"
    /\ Trap

\* The first layout asks the data source, before the block or after it.
FirstLayout ==
    /\ ~trapped /\ phase # "unloaded" /\ listed = -1
    /\ listed' = index
    /\ UNCHANGED <<store, count, index, title, buttons, activated, sent, phase, trapped, tapped>>

\* activate() is answered; a session may also be deactivated, and then stays so.
SessionChanges ==
    /\ ~trapped /\ phase # "unloaded"
    /\ activated' = ~activated
    /\ UNCHANGED <<store, count, index, title, listed, buttons, sent, phase, trapped, tapped>>

\* The block goes to the last row; the label keeps the title it has.
ShowLast ==
    /\ ~trapped /\ phase = "loaded"
    /\ index' = count - 1
    /\ listed' = index'
    /\ CheckButtons(index', count)
    /\ SendUnlessBlank(index')
    /\ phase' = "ready"
    /\ UNCHANGED <<store, count, title, activated, trapped, tapped>>

\* A tap that leaves the label alone.
MoveKeepingTitle(i) ==
    /\ index' = i /\ listed' = i
    /\ CheckButtons(i, count)
    /\ SendUnlessBlank(i)
    /\ tapped' = (phase = "ready")
    /\ UNCHANGED <<store, count, title, activated, phase, trapped>>

\* What a tap does with its new index: label, table, buttons, message.
Move(i) ==
    /\ index' = i /\ title' = i /\ listed' = i
    /\ CheckButtons(i, count)
    /\ SendUnlessBlank(i)
    /\ tapped' = (phase = "ready")
    /\ UNCHANGED <<store, count, activated, phase, trapped>>

\* titles[index] out of range would end the app.
Tap(enabled, step) ==
    /\ ~trapped /\ phase # "unloaded" /\ enabled
    /\ IF index + step \in 0 .. count - 1 THEN Move(index + step) ELSE Trap

PreviousTapped == Tap(previousEnabled, -1)
NextTapped     == Tap(nextEnabled, 1)

Next ==
    \/ ViewDidLoad \/ ViewDidLoadTraps \/ FirstLayout \/ SessionChanges
    \/ ShowLast \/ PreviousTapped \/ NextTapped

Spec == Init /\ [][Next]_vars

-----------------------------------------------------------------------------
\* The state's types.
TypeOK ==
    /\ stored \in 0 .. MaxRows /\ blank \subseteq 0 .. stored - 1
    /\ count \in {0, stored} /\ index \in Nat
    /\ title \in Nat \cup {-1} /\ listed \in Nat \cup {-1} /\ sent \in Nat \cup {-1}
    /\ previousEnabled \in BOOLEAN /\ nextEnabled \in BOOLEAN
    /\ activated \in BOOLEAN /\ trapped \in BOOLEAN /\ tapped \in BOOLEAN
    /\ phase \in {"unloaded", "loaded", "ready"}

\* Only loading the page can end the app: once it has loaded, no tap reads a title out
\* of range, wherever the block that moves index falls between the taps.
TrapsOnlyInLoading == trapped => phase = "unloaded"

\* Once a button was tapped, title, table and index are of one row.
TitleMatchesOnceTapped == tapped => title = listed /\ listed = index

\* "Show recipe instructions": with a recipe saved, the tab opens.
ShowsSavedInstructions == stored > 0 => ~trapped
=============================================================================
