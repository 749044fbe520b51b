------------------------------ MODULE WatchLink ------------------------------
(***************************************************************************)
(* Phone and watch together: the instruction pages of InstructionFeed send *)
(* to the step display of WatchSteps over WCSession.  A message is taken   *)
(* off the link by the watch's didReceiveMessage, or is lost.  Either app  *)
(* may end and be started again while messages are under way.              *)
(***************************************************************************)
EXTENDS Integers, Sequences

CONSTANTS Page, Recipe, EmptyList, StepCount

ASSUME LinkAssumption ==
    /\ EmptyList \notin Recipe
    /\ StepCount \in [Recipe -> Nat \ {0}]

VARIABLES
    \* the phone
    phase, recipe, steps, mainQueue, cache, session, phoneAlive,
    \* the messages under way
    link,
    \* the watch
    instructions, stepIndex, stepNum, detail, previousEnabled, nextEnabled,
    activated, main, rx, watchAlive, overlapped, clashed, outgrown,
    at    \* history: the row whose steps the watch holds, 0 for none

Phone == INSTANCE InstructionFeed WITH alive <- phoneAlive
Watch == INSTANCE WatchSteps WITH List <- Recipe, alive <- watchAlive

phoneVars == <<phase, recipe, steps, mainQueue, cache, session, phoneAlive, link>>
watchVars == <<instructions, stepIndex, stepNum, detail, previousEnabled, nextEnabled,
               activated, main, rx, watchAlive, overlapped, clashed, outgrown>>
vars == <<phoneVars, watchVars, at>>

-----------------------------------------------------------------------------
Init == Phone!Init /\ Watch!Init /\ at = 0

PhoneRuns == Phone!PhoneStep /\ UNCHANGED <<watchVars, at>>

\* WCSession hands the next message to the watch's delegate.
Deliver ==
    /\ Phone!Deliver
    /\ Watch!Receive(Head(link).steps)
    /\ at' = Head(link).row

Lose == Phone!Lose /\ UNCHANGED <<watchVars, at>>

WatchRuns ==
    /\ \/ Watch!ActivationDidComplete
       \/ Watch!RxStep
       \/ Watch!PreviousTapped \/ Watch!NextTapped
       \/ Watch!MainStep
    /\ UNCHANGED <<phoneVars, at>>

WatchRelaunch == Watch!Relaunch /\ at' = 0 /\ UNCHANGED phoneVars

Next == PhoneRuns \/ Deliver \/ Lose \/ WatchRuns \/ WatchRelaunch

Spec == Init /\ [][Next]_vars

-----------------------------------------------------------------------------
Shelf == INSTANCE RecipeShelf WITH shelf <- cache, place <- at, shown <- instructions

\* Phone and watch implement the shelf: rows are only added, and what the watch
\* holds changes only to the steps of a row on the phone's disk that was saved
\* after the one it holds, through crashes of either app and lost messages.
ImplementsShelf == Shelf!Spec

\* The array on the watch is that of row at, and no message under way is older: the
\* invariant that makes every delivery a step of the shelf.
LinkAheadOfWatch ==
    /\ at = 0 => instructions = EmptyList
    /\ at # 0 => at \in 1 .. Len(cache) /\ instructions = cache[at].steps
    /\ Phone!LinkFollowsCache
    /\ \A i \in 1 .. Len(link) : link[i].row > at

-----------------------------------------------------------------------------
(* The inductive invariant behind both.                                     *)

\* The row whose message is about to be sent is not yet on the watch.
UnsentIsAhead == \A p \in Page : phase[p] = "saved" => at < Len(cache)

\* A page holds steps of its own recipe or none.
StepsAreOwn == \A p \in Page : steps[p] \in {recipe[p], EmptyList}

IInv == Phone!IInv /\ at \in Nat /\ LinkAheadOfWatch /\ UnsentIsAhead /\ StepsAreOwn
=============================================================================
