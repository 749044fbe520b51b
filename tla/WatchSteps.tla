----------------------------- MODULE WatchSteps -----------------------------
(***************************************************************************)
(* The step display of the watch app: InterfaceController.                  *)
(*                                                                         *)
(* Two threads run its code.  The main thread runs awake, previousTapped   *)
(* and nextTapped; WCSession calls the two session(...) delegate methods   *)
(* on a queue of its own, one message at a time.  They share instructions, *)
(* stepIndex, the two labels and the two buttons without a lock, so every  *)
(* statement that touches shared state is a step here, a test and the call *)
(* it guards are two, and main and rx say which statement each thread runs *)
(* next.                                                                   *)
(*                                                                         *)
(* An instruction array is known by its recipe: an element of List has     *)
(* StepCount[l] >= 1 steps, EmptyList none.  The text of step k (from 1)   *)
(* of l is the pair <<l, k>>.  A trap (Swift's index out of range) or a    *)
(* torn array read sets alive to FALSE; the user may start the app again.  *)
(***************************************************************************)
EXTENDS Integers

CONSTANTS
    List,        \* the non-empty instruction arrays the phone may send
    EmptyList,   \* the empty array: the initial value, and a legal message
    StepCount    \* how many steps each array has

ASSUME ListAssumption ==
    /\ EmptyList \notin List
    /\ StepCount \in [List -> Nat \ {0}]

VARIABLES
    instructions,     \* the array last received
    stepIndex,        \* index of the current step, from 0
    stepNum,          \* the number in the stepNum label, 0 for its placeholder
    detail,           \* the text in the detail label
    previousEnabled,
    nextEnabled,
    activated,        \* the WCSession is activated
    main,             \* next statement of the main thread's handler
    rx,               \* next statement of didReceiveMessage
    alive,            \* the app has not trapped
    overlapped,       \* history: the two handlers once ran at the same time
    clashed,          \* history: the handlers that ran last did
    outgrown          \* history: an array came that has no step at stepIndex

vars == <<instructions, stepIndex, stepNum, detail, previousEnabled, nextEnabled,
          activated, main, rx, alive, overlapped, clashed, outgrown>>

labels  == <<stepNum, detail>>
buttons == <<previousEnabled, nextEnabled>>
history == <<overlapped, clashed, outgrown>>

AnyList == List \cup {EmptyList}

Length(l) == IF l = EmptyList THEN 0 ELSE StepCount[l]

Statement == {"idle", "stepNum", "detail", "enablePrevious", "enableNext",
              "testPrevious", "disablePrevious", "testNext", "disableNext"}

\* No handler is between two of its statements.
AtRest == main = "idle" /\ rx = "idle"

-----------------------------------------------------------------------------
\* The app as it starts: init disables both buttons.
Init ==
    /\ instructions = EmptyList /\ stepIndex = 0
    /\ stepNum = 0 /\ detail = <<EmptyList, 0>>
    /\ previousEnabled = FALSE /\ nextEnabled = FALSE
    /\ activated = FALSE /\ main = "idle" /\ rx = "idle" /\ alive = TRUE
    /\ overlapped = FALSE /\ clashed = FALSE /\ outgrown = FALSE

\* awake activates the session; its answer comes later, on the session's queue.
ActivationDidComplete ==
    /\ alive /\ ~activated
    /\ activated' = TRUE
    /\ UNCHANGED <<instructions, stepIndex, labels, buttons, main, rx, alive, history>>

-----------------------------------------------------------------------------
(* checkButtons(), which either thread runs: it enables both buttons, then *)
(* disables what is out of range.  For a moment both buttons take taps,    *)
(* and what a test read may be stale when its setEnabled(false) runs.  at  *)
(* is the statement the thread is at, to the one it goes on to.            *)

\* (The first form is off by one at the last step.)
NextOutOfRangeLoose == stepIndex > Length(instructions) - 1

NextOutOfRange     == stepIndex > Length(instructions) - 2
PreviousOutOfRange == stepIndex <= 0

EnablePrevious(at, to) ==
    /\ at = "enablePrevious" /\ to = "enableNext"
    /\ previousEnabled' = TRUE
    /\ UNCHANGED nextEnabled

\* A checkButtons() that leaves a disabled Next as it is.
EnableNextSkipped(at, to) ==
    /\ at = "enableNext" /\ to = "testPrevious"
    /\ UNCHANGED buttons

EnableNext(at, to) ==
    /\ at = "enableNext" /\ to = "testPrevious"
    /\ nextEnabled' = TRUE
    /\ UNCHANGED previousEnabled

TestPrevious(at, to) ==
    /\ at = "testPrevious"
    /\ to = IF PreviousOutOfRange THEN "disablePrevious" ELSE "testNext"
    /\ UNCHANGED buttons

DisablePrevious(at, to) ==
    /\ at = "disablePrevious" /\ to = "testNext"
    /\ previousEnabled' = FALSE
    /\ UNCHANGED nextEnabled

TestNext(at, to) ==
    /\ at = "testNext"
    /\ to = IF NextOutOfRange THEN "disableNext" ELSE "idle"
    /\ UNCHANGED buttons

DisableNext(at, to) ==
    /\ at = "disableNext" /\ to = "idle"
    /\ nextEnabled' = FALSE
    /\ UNCHANGED previousEnabled

CheckButtons(at, to) ==
    \/ EnablePrevious(at, to) \/ EnableNext(at, to)
    \/ TestPrevious(at, to)   \/ DisablePrevious(at, to)
    \/ TestNext(at, to)       \/ DisableNext(at, to)

-----------------------------------------------------------------------------
(* didReceiveMessage, on the session's queue.                              *)

\* The array is replaced.  Doing so while the main thread is at a statement that
\* reads it is a data race, which may trap.  An empty array ends the handler, and
\* so does a message without the key "passingInstructionArray", which changes
\* nothing: a stuttering step.
Receive(l) ==
    /\ alive /\ activated /\ rx = "idle"
    /\ instructions' = l
    /\ rx' = IF l = EmptyList THEN "idle" ELSE "stepNum"
    /\ \/ alive' = TRUE
       \/ main \in {"detail", "testNext"} /\ alive' = FALSE
    /\ clashed' = (main # "idle")
    /\ overlapped' = (overlapped \/ main # "idle")
    /\ outgrown' = (outgrown \/ stepIndex >= Length(l))
    /\ UNCHANGED <<stepIndex, labels, buttons, activated, main>>

\* A receive handler that leaves out detail.setText.
RxStepNumOnly ==
    /\ alive /\ rx = "stepNum"
    /\ stepNum' = 1
    /\ rx' = "enablePrevious"
    /\ UNCHANGED <<instructions, stepIndex, detail, buttons, activated, main, alive, history>>

RxStepNum ==
    /\ alive /\ rx = "stepNum"
    /\ stepNum' = 1
    /\ rx' = "detail"
    /\ UNCHANGED <<instructions, stepIndex, detail, buttons, activated, main, alive, history>>

RxDetail ==
    /\ alive /\ rx = "detail"
    /\ detail' = <<instructions, 1>>
    /\ rx' = "enablePrevious"
    /\ UNCHANGED <<instructions, stepIndex, stepNum, buttons, activated, main, alive, history>>

RxCheck ==
    /\ alive /\ CheckButtons(rx, rx')
    /\ UNCHANGED <<instructions, stepIndex, labels, activated, main, alive, history>>

-----------------------------------------------------------------------------
(* previousTapped and nextTapped, on the main thread.  A disabled button   *)
(* sends no tap, and the main thread runs one handler at a time.           *)

Tap(enabled, step) ==
    /\ alive /\ main = "idle" /\ enabled
    /\ stepIndex' = stepIndex + step
    /\ main' = "stepNum"
    /\ clashed' = (rx # "idle")
    /\ overlapped' = (overlapped \/ rx # "idle")
    /\ UNCHANGED <<instructions, labels, buttons, activated, rx, alive, outgrown>>

PreviousTapped == Tap(previousEnabled, -1)
NextTapped     == Tap(nextEnabled, 1)

\* The label numbered from the index itself, without the + 1.
MainStepNumFromIndex ==
    /\ alive /\ main = "stepNum"
    /\ stepNum' = stepIndex
    /\ main' = "detail"
    /\ UNCHANGED <<instructions, stepIndex, detail, buttons, activated, rx, alive, history>>

MainStepNum ==
    /\ alive /\ main = "stepNum"
    /\ stepNum' = stepIndex + 1
    /\ main' = "detail"
    /\ UNCHANGED <<instructions, stepIndex, detail, buttons, activated, rx, alive, history>>

MainDetail ==
    /\ alive /\ main = "detail"
    /\ stepIndex \in 0 .. Length(instructions) - 1
    /\ detail' = <<instructions, stepIndex + 1>>
    /\ main' = "enablePrevious"
    /\ UNCHANGED <<instructions, stepIndex, stepNum, buttons, activated, rx, alive, history>>

\* instructions[stepIndex] out of range, below or above.
MainDetailTraps ==
    /\ alive /\ main = "detail"
    /\ stepIndex \notin 0 .. Length(instructions) - 1
    /\ alive' = FALSE
    /\ UNCHANGED <<instructions, stepIndex, labels, buttons, activated, main, rx, history>>

MainCheck ==
    /\ alive /\ CheckButtons(main, main')
    /\ UNCHANGED <<instructions, stepIndex, labels, activated, rx, alive, history>>

-----------------------------------------------------------------------------
\* The app is started again, after a trap or after the system ended it.
\* Nothing is kept: every property of InterfaceController is in memory only.
Relaunch ==
    /\ instructions' = EmptyList /\ stepIndex' = 0
    /\ stepNum' = 0 /\ detail' = <<EmptyList, 0>>
    /\ previousEnabled' = FALSE /\ nextEnabled' = FALSE
    /\ activated' = FALSE /\ main' = "idle" /\ rx' = "idle" /\ alive' = TRUE
    /\ overlapped' = FALSE /\ clashed' = FALSE /\ outgrown' = FALSE

RxStep   == RxStepNum \/ RxDetail \/ RxCheck
MainStep == MainStepNum \/ MainDetail \/ MainDetailTraps \/ MainCheck

Next ==
    \/ ActivationDidComplete
    \/ \E l \in AnyList : Receive(l)
    \/ RxStep
    \/ PreviousTapped
    \/ NextTapped
    \/ MainStep
    \/ Relaunch

\* The system runs a thread that has a statement to run; nothing makes the phone
\* send or the user tap.
Fairness == WF_vars(RxStep) /\ WF_vars(MainStep)

Spec == Init /\ [][Next]_vars /\ Fairness

-----------------------------------------------------------------------------
\* The state's types.  stepIndex is -1 only between a tap on Previous at the first
\* step and the trap that follows it.
TypeOK ==
    /\ instructions \in AnyList
    /\ stepIndex \in Nat \cup {-1}
    /\ stepNum \in Nat
    /\ detail \in AnyList \X Nat
    /\ previousEnabled \in BOOLEAN /\ nextEnabled \in BOOLEAN
    /\ activated \in BOOLEAN /\ alive \in BOOLEAN
    /\ overlapped \in BOOLEAN /\ clashed \in BOOLEAN /\ outgrown \in BOOLEAN
    /\ main \in Statement /\ rx \in Statement

\* The app traps for two reasons only: didReceiveMessage ran at the same time as
\* a tap handler, or an array came without a step at the index the user was at
\* (didReceiveMessage does not reset stepIndex).
CrashHasCause == ~alive => overlapped \/ outgrown

\* The buttons allow exactly the moves that stay in the array, at rest after a
\* handler that ran alone, whatever came before it: wrong buttons that two
\* overlapping runs of checkButtons() leave, one testing before and disabling
\* after the other, are put right by the next handler.  (An empty array leaves the
\* buttons as they were.)
ButtonsMatchUnlessClashed ==
    alive /\ AtRest /\ ~clashed /\ instructions # EmptyList =>
        /\ previousEnabled <=> stepIndex > 0
        /\ nextEnabled <=> stepIndex + 1 < Length(instructions)

\* In the same states, the number in one label is the number of the step whose
\* text is in the other, and it is a step of the array held.
LabelsAgreeUnlessClashed ==
    alive /\ AtRest /\ ~clashed /\ instructions # EmptyList =>
        /\ detail = <<instructions, stepNum>>
        /\ stepNum \in 1 .. Length(instructions)

\* A non-empty array that is received is shown: the detail label comes to hold
\* one of its steps, unless the app traps or another array comes first.
ReceivedIsShown ==
    \A l \in List :
        (instructions = l /\ alive) ~> (detail[1] = l \/ instructions # l \/ ~alive)

\* What the tap handlers write, "Step \(stepIndex + 1)", and the number a user
\* reads it for: the step shown is the step the buttons move from.
LabelIsCurrentStep ==
    alive /\ AtRest /\ instructions # EmptyList => stepNum = stepIndex + 1

-----------------------------------------------------------------------------
(* The inductive invariant behind the safety properties: what each of them *)
(* needs while a handler is between two statements.                        *)

\* Only a handler that has not read the array yet can have left it below.
IndexBounded == main \notin {"stepNum", "detail"} => stepIndex \in Nat

\* As long as nothing raced and no array came too short, the index is in range,
\* and the buttons keep it there.
SafeWhenCalm ==
    ~overlapped /\ ~outgrown =>
        /\ alive
        /\ \/ stepIndex \in 0 .. Length(instructions) - 1
           \/ /\ instructions = EmptyList /\ stepIndex = 0 /\ AtRest
              /\ ~previousEnabled /\ ~nextEnabled

\* A receive that is under way has stored a non-empty array, and handlers that do
\* not clash take turns.
TakeTurns ==
    /\ rx # "idle" => instructions # EmptyList
    /\ clashed => overlapped
    /\ ~clashed => main = "idle" \/ rx = "idle"

\* What a run of checkButtons() that is at statement s, or done, has made of the
\* two buttons if it was not disturbed.
Checked(s) ==
    /\ s \in {"enableNext", "testPrevious"} => previousEnabled
    /\ s = "disablePrevious" => stepIndex <= 0
    /\ s \in {"testNext", "disableNext", "idle"} => (previousEnabled <=> stepIndex > 0)
    /\ s \in {"testPrevious", "disablePrevious", "testNext", "disableNext"} => nextEnabled
    /\ s = "disableNext" => NextOutOfRange
    /\ s = "idle" => (nextEnabled <=> stepIndex + 1 < Length(instructions))

ButtonsInPass ==
    ~clashed /\ instructions # EmptyList =>
        /\ main = "idle" => Checked(rx)
        /\ rx = "idle" => Checked(main)

\* How far an undisturbed handler has got with the two labels.
LabelsInPass ==
    ~clashed /\ instructions # EmptyList =>
        /\ main \notin {"stepNum", "detail"} /\ rx \notin {"stepNum", "detail"} =>
              detail = <<instructions, stepNum>> /\ stepNum \in 1 .. Length(instructions)
        /\ rx \notin {"idle", "stepNum"} => stepNum = 1
        /\ main \notin {"idle", "stepNum"} => stepNum = stepIndex + 1

IInv == /\ TypeOK /\ IndexBounded /\ SafeWhenCalm /\ TakeTurns
        /\ ButtonsInPass /\ LabelsInPass
=============================================================================
