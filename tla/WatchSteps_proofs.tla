------------------------- MODULE WatchSteps_proofs --------------------------
(***************************************************************************)
(* Safety of the watch's step display, for every set of arrays and every   *)
(* number of steps.  IInv is inductive: each action is shown to preserve   *)
(* its six parts, and the properties follow from it.                      *)
(***************************************************************************)
EXTENDS WatchSteps, TLAPS

\* An array's length is a number, and only the empty array has length 0.
LEMMA LengthIsNat ==
    ASSUME NEW l \in AnyList
    PROVE  /\ Length(l) \in Nat
           /\ l = EmptyList => Length(l) = 0
           /\ l # EmptyList => Length(l) > 0
BY ListAssumption DEF AnyList, Length

\* The app starts with nothing received and both buttons disabled.
LEMMA InitEstablishesIInv == Init => IInv
<1> SUFFICES ASSUME Init
             PROVE  IInv
  OBVIOUS
<1>1. TypeOK
  BY DEF Init, TypeOK, AnyList, Statement
<1>2. IndexBounded /\ SafeWhenCalm /\ TakeTurns
  BY DEF Init, IndexBounded, SafeWhenCalm, TakeTurns, AtRest
<1>3. ButtonsInPass /\ LabelsInPass
  BY DEF Init, ButtonsInPass, LabelsInPass
<1> QED
  BY <1>1, <1>2, <1>3 DEF IInv

-----------------------------------------------------------------------------
(* One lemma per handler.                                                  *)

\* didReceiveMessage storing an array keeps the invariant: it records a race and an
\* array that is too short, and what it disturbs else is only what rx excludes.
LEMMA ReceivePreservesIInv ==
    ASSUME IInv, NEW l \in AnyList, Receive(l)
    PROVE  IInv'
<1> USE DEF IInv
<1>1. Length(l) \in Nat /\ (l = EmptyList => Length(l) = 0)
      /\ (l # EmptyList => Length(l) > 0)
  BY LengthIsNat
<1>2. TypeOK'
  BY DEF Receive, TypeOK, labels, buttons, Statement
<1>3. IndexBounded'
  BY DEF Receive, IndexBounded
<1>4. SafeWhenCalm'
  <2> SUFFICES ASSUME ~overlapped', ~outgrown'
               PROVE  SafeWhenCalm'
    BY DEF SafeWhenCalm
  <2>1. ~overlapped /\ ~outgrown /\ main = "idle" /\ rx = "idle" /\ alive' /\ main' = "idle"
    BY DEF Receive, TypeOK, SafeWhenCalm
  <2>2. stepIndex \in Nat
    BY <2>1 DEF IndexBounded
  <2>3. stepIndex' = stepIndex /\ instructions' = l /\ stepIndex < Length(l)
    <3>1. ~(stepIndex >= Length(l))
      BY DEF Receive
    <3> QED
      BY <3>1, <1>1, <2>2 DEF Receive
  <2>4. l # EmptyList /\ rx' = "stepNum"
    BY <1>1, <2>2, <2>3 DEF Receive
  <2>5. Length(instructions') = Length(l)
    BY <2>3 DEF Length
  <2> QED
    BY <1>1, <2>1, <2>2, <2>3, <2>4, <2>5 DEF SafeWhenCalm, AtRest
<1>5. TakeTurns'
  BY DEF Receive, TakeTurns, TypeOK
<1>6. ButtonsInPass'
  BY DEF Receive, ButtonsInPass, Checked, buttons
<1>7. LabelsInPass'
  BY DEF Receive, LabelsInPass, TypeOK
<1> QED
  BY <1>2, <1>3, <1>4, <1>5, <1>6, <1>7

\* checkButtons() on one thread takes its two buttons from one statement's promise
\* to the next one's, if nothing else moves.
LEMMA CheckButtonsKeepsChecked ==
    ASSUME TypeOK, stepIndex \in Nat, NEW at \in Statement, NEW to \in Statement,
           CheckButtons(at, to), Checked(at), UNCHANGED <<instructions, stepIndex>>
    PROVE  Checked(to)'
<1>1. /\ Length(instructions) \in Nat /\ Length(instructions)' = Length(instructions)
      /\ stepIndex' = stepIndex
      /\ previousEnabled \in BOOLEAN /\ nextEnabled \in BOOLEAN
  BY LengthIsNat DEF TypeOK, Length
<1>2. CASE EnablePrevious(at, to)
  BY <1>1, <1>2 DEF EnablePrevious, Checked, NextOutOfRange
<1>3. CASE EnableNext(at, to)
  BY <1>1, <1>3 DEF EnableNext, Checked, NextOutOfRange
<1>4. CASE TestPrevious(at, to)
  BY <1>1, <1>4 DEF TestPrevious, Checked, NextOutOfRange, PreviousOutOfRange, buttons
<1>5. CASE DisablePrevious(at, to)
  BY <1>1, <1>5 DEF DisablePrevious, Checked, NextOutOfRange
<1>6. CASE TestNext(at, to)
  BY <1>1, <1>6 DEF TestNext, Checked, NextOutOfRange, buttons
<1>7. CASE DisableNext(at, to)
  BY <1>1, <1>7 DEF DisableNext, Checked, NextOutOfRange
<1> QED
  BY <1>2, <1>3, <1>4, <1>5, <1>6, <1>7 DEF CheckButtons

\* The statements didReceiveMessage runs after the store keep the invariant.
LEMMA RxStepPreservesIInv ==
    ASSUME IInv, RxStep
    PROVE  IInv'
<1> USE DEF IInv
<1>1. Length(instructions) \in Nat /\ instructions' = instructions
      /\ Length(instructions)' = Length(instructions)
  BY LengthIsNat DEF TypeOK, RxStep, RxStepNum, RxDetail, RxCheck, Length
<1>2. rx # "idle" => instructions # EmptyList /\ Length(instructions) > 0
  BY LengthIsNat DEF TakeTurns, TypeOK
<1>3. CASE RxStepNum
  <2>1. TypeOK'
    BY <1>3 DEF RxStepNum, TypeOK, buttons, history, Statement
  <2>2. IndexBounded' /\ SafeWhenCalm' /\ TakeTurns'
    BY <1>1, <1>2, <1>3
       DEF RxStepNum, IndexBounded, SafeWhenCalm, TakeTurns, AtRest, buttons, history
  <2>3. ButtonsInPass' /\ LabelsInPass'
    BY <1>1, <1>2, <1>3
       DEF RxStepNum, ButtonsInPass, LabelsInPass, TakeTurns, Checked, buttons, history
  <2> QED
    BY <2>1, <2>2, <2>3
<1>4. CASE RxDetail
  <2>1. TypeOK'
    BY <1>4 DEF RxDetail, TypeOK, buttons, history, Statement
  <2>2. IndexBounded' /\ SafeWhenCalm' /\ TakeTurns'
    BY <1>1, <1>2, <1>4
       DEF RxDetail, IndexBounded, SafeWhenCalm, TakeTurns, AtRest, buttons, history
  <2>3. ButtonsInPass' /\ LabelsInPass'
    BY <1>1, <1>2, <1>4
       DEF RxDetail, ButtonsInPass, LabelsInPass, TakeTurns, Checked, buttons, history
  <2> QED
    BY <2>1, <2>2, <2>3
<1>5. CASE RxCheck
  <2>1. /\ previousEnabled' \in BOOLEAN /\ nextEnabled' \in BOOLEAN
        /\ rx \notin {"idle", "stepNum", "detail"}
        /\ rx' \in Statement \ {"stepNum", "detail", "enablePrevious"}
    BY <1>5
       DEF RxCheck, CheckButtons, EnablePrevious, EnableNext, TestPrevious, DisablePrevious,
           TestNext, DisableNext, TypeOK, Statement, buttons
  <2>2. UNCHANGED <<instructions, stepIndex, stepNum, detail, activated, main, alive,
                    overlapped, clashed, outgrown>>
    BY <1>5 DEF RxCheck, labels, history
  <2>3. TypeOK' /\ IndexBounded'
    BY <2>1, <2>2 DEF TypeOK, IndexBounded
  <2>4. SafeWhenCalm' /\ TakeTurns'
    BY <1>1, <1>2, <2>1, <2>2 DEF SafeWhenCalm, TakeTurns, AtRest
  <2>5. ButtonsInPass'
    <3> SUFFICES ASSUME ~clashed
                 PROVE  (main = "idle" => Checked(rx)') /\ (rx' = "idle" => Checked(main)')
      BY <2>2 DEF ButtonsInPass
    <3>1. main = "idle" /\ stepIndex \in Nat /\ Checked(rx)
      BY <1>2, <2>1 DEF TakeTurns, IndexBounded, ButtonsInPass
    <3>2. Checked(rx)'
      <4>1. PICK at \in Statement, to \in Statement : at = rx /\ to = rx'
        BY <2>1 DEF TypeOK
      <4>2. CheckButtons(at, to) /\ Checked(at)
        BY <1>5, <3>1, <4>1 DEF RxCheck
      <4>3. Checked(to)'
        BY <2>2, <3>1, <4>2, CheckButtonsKeepsChecked
      <4> QED
        BY <4>1, <4>3 DEF Checked
    <3>3. main' = "idle" /\ (rx' = "idle" => rx' = main')
      BY <2>2, <3>1
    <3> QED
      BY <3>2, <3>3 DEF Checked
  <2>6. LabelsInPass'
    BY <1>1, <1>2, <2>1, <2>2 DEF LabelsInPass, TakeTurns
  <2> QED
    BY <2>3, <2>4, <2>5, <2>6
<1> QED
  BY <1>3, <1>4, <1>5 DEF RxStep

\* A tap keeps the invariant: a calm tap moves the index within the array.
LEMMA TapPreservesIInv ==
    ASSUME IInv, PreviousTapped \/ NextTapped
    PROVE  IInv'
<1> USE DEF IInv
<1>1. /\ Length(instructions) \in Nat /\ instructions' = instructions
      /\ Length(instructions)' = Length(instructions)
      /\ main = "idle" /\ main' = "stepNum" /\ rx' = rx /\ alive /\ alive'
  BY LengthIsNat DEF TypeOK, PreviousTapped, NextTapped, Tap, Length
<1>2. stepIndex \in Nat
  BY <1>1 DEF IndexBounded
<1>3. \/ previousEnabled /\ stepIndex' = stepIndex - 1
      \/ nextEnabled /\ stepIndex' = stepIndex + 1
  BY <1>2 DEF PreviousTapped, NextTapped, Tap
<1>4. /\ overlapped' = (overlapped \/ rx # "idle") /\ clashed' = (rx # "idle")
      /\ UNCHANGED <<stepNum, detail, previousEnabled, nextEnabled, activated, outgrown>>
  BY DEF PreviousTapped, NextTapped, Tap, labels, buttons
<1>5. TypeOK'
  BY <1>1, <1>2, <1>3, <1>4 DEF TypeOK, Statement
<1>6. IndexBounded'
  BY <1>1 DEF IndexBounded
<1>7. SafeWhenCalm'
  <2> SUFFICES ASSUME ~overlapped', ~outgrown'
               PROVE  SafeWhenCalm'
    BY DEF SafeWhenCalm
  <2>1. ~overlapped /\ ~outgrown /\ rx = "idle"
    BY <1>4 DEF TypeOK
  <2>2. /\ stepIndex \in 0 .. Length(instructions) - 1
        /\ previousEnabled => stepIndex > 0
        /\ nextEnabled => stepIndex + 1 < Length(instructions)
    <3>1. stepIndex \in 0 .. Length(instructions) - 1 /\ ~clashed
      BY <1>1, <1>3, <2>1 DEF SafeWhenCalm, TakeTurns, AtRest
    <3>2. instructions # EmptyList
      BY <3>1, LengthIsNat DEF TypeOK
    <3> QED
      BY <1>1, <2>1, <3>1, <3>2 DEF ButtonsInPass, Checked
  <2>3. stepIndex' \in 0 .. Length(instructions)' - 1
    BY <1>1, <1>3, <2>2
  <2> QED
    BY <1>1, <2>1, <2>3 DEF SafeWhenCalm, AtRest
<1>8. TakeTurns'
  BY <1>1, <1>4 DEF TakeTurns, TypeOK
<1>9. ButtonsInPass' /\ LabelsInPass'
  BY <1>1, <1>4 DEF ButtonsInPass, LabelsInPass, Checked, TypeOK
<1> QED
  BY <1>5, <1>6, <1>7, <1>8, <1>9

\* The statements of a tap handler keep the invariant: a calm handler never reads
\* outside the array.
LEMMA MainStepPreservesIInv ==
    ASSUME IInv, MainStep
    PROVE  IInv'
<1> USE DEF IInv
<1>1. Length(instructions) \in Nat /\ instructions' = instructions
      /\ Length(instructions)' = Length(instructions)
  BY LengthIsNat
     DEF TypeOK, MainStep, MainStepNum, MainDetail, MainDetailTraps, MainCheck, Length
<1>2. /\ instructions = EmptyList => Length(instructions) = 0
      /\ stepIndex \in Int /\ stepIndex >= -1
  BY LengthIsNat DEF TypeOK
<1>3. CASE MainStepNum
  <2>1. TypeOK'
    BY <1>2, <1>3 DEF MainStepNum, TypeOK, buttons, history, Statement
  <2>2. IndexBounded' /\ SafeWhenCalm' /\ TakeTurns'
    BY <1>1, <1>3
       DEF MainStepNum, IndexBounded, SafeWhenCalm, TakeTurns, AtRest, buttons, history
  <2>3. ButtonsInPass' /\ LabelsInPass'
    BY <1>1, <1>3
       DEF MainStepNum, ButtonsInPass, LabelsInPass, TakeTurns, Checked, buttons, history
  <2> QED
    BY <2>1, <2>2, <2>3
<1>4. CASE MainDetail
  <2>1. stepIndex \in Nat /\ stepIndex + 1 \in 1 .. Length(instructions)
    BY <1>1, <1>2, <1>4 DEF MainDetail
  <2>2. TypeOK'
    BY <1>4, <2>1 DEF MainDetail, TypeOK, buttons, history, Statement
  <2>3. IndexBounded' /\ SafeWhenCalm' /\ TakeTurns'
    BY <1>1, <1>4, <2>1
       DEF MainDetail, IndexBounded, SafeWhenCalm, TakeTurns, AtRest, buttons, history
  <2>4. ButtonsInPass' /\ LabelsInPass'
    BY <1>1, <1>4, <2>1
       DEF MainDetail, ButtonsInPass, LabelsInPass, TakeTurns, Checked, buttons, history
  <2> QED
    BY <2>2, <2>3, <2>4
<1>5. CASE MainDetailTraps
  <2>1. overlapped \/ outgrown
    BY <1>1, <1>2, <1>5 DEF MainDetailTraps, SafeWhenCalm, AtRest
  <2>2. TypeOK' /\ IndexBounded' /\ TakeTurns'
    BY <1>5 DEF MainDetailTraps, TypeOK, IndexBounded, TakeTurns, labels, buttons, history
  <2>3. SafeWhenCalm'
    BY <1>5, <2>1 DEF MainDetailTraps, SafeWhenCalm, history
  <2>4. ButtonsInPass' /\ LabelsInPass'
    BY <1>1, <1>5
       DEF MainDetailTraps, ButtonsInPass, LabelsInPass, Checked, NextOutOfRange, labels,
           buttons, history
  <2> QED
    BY <2>2, <2>3, <2>4
<1>6. CASE MainCheck
  <2>1. /\ previousEnabled' \in BOOLEAN /\ nextEnabled' \in BOOLEAN
        /\ main \notin {"idle", "stepNum", "detail"}
        /\ main' \in Statement \ {"stepNum", "detail", "enablePrevious"}
    BY <1>6
       DEF MainCheck, CheckButtons, EnablePrevious, EnableNext, TestPrevious,
           DisablePrevious, TestNext, DisableNext, TypeOK, Statement, buttons
  <2>2. UNCHANGED <<instructions, stepIndex, stepNum, detail, activated, rx, alive,
                    overlapped, clashed, outgrown>>
    BY <1>6 DEF MainCheck, labels, history
  <2>3. TypeOK' /\ IndexBounded'
    BY <2>1, <2>2 DEF TypeOK, IndexBounded
  <2>4. TakeTurns'
    BY <2>1, <2>2 DEF TakeTurns
  <2>5. ButtonsInPass'
    <3> SUFFICES ASSUME ~clashed, instructions # EmptyList
                 PROVE  (main' = "idle" => Checked(rx)') /\ (rx = "idle" => Checked(main)')
      BY <2>2 DEF ButtonsInPass
    <3>1. rx = "idle" /\ stepIndex \in Nat /\ Checked(main)
      BY <2>1 DEF TakeTurns, IndexBounded, ButtonsInPass
    <3>2. Checked(main)'
      <4>1. PICK at \in Statement, to \in Statement : at = main /\ to = main'
        BY <2>1 DEF TypeOK
      <4>2. CheckButtons(at, to) /\ Checked(at)
        BY <1>6, <3>1, <4>1 DEF MainCheck
      <4>3. Checked(to)'
        BY <2>2, <3>1, <4>2, CheckButtonsKeepsChecked
      <4> QED
        BY <4>1, <4>3 DEF Checked
    <3>3. rx' = "idle" /\ (main' = "idle" => rx' = main')
      BY <2>2, <3>1
    <3> QED
      BY <3>2, <3>3 DEF Checked
  <2>6. LabelsInPass'
    BY <1>1, <2>1, <2>2 DEF LabelsInPass
  <2>7. SafeWhenCalm'
    <3> SUFFICES ASSUME ~overlapped, ~outgrown
                 PROVE  SafeWhenCalm'
      BY <2>2 DEF SafeWhenCalm
    <3>1. alive /\ stepIndex \in 0 .. Length(instructions) - 1 /\ ~clashed /\ rx = "idle"
      BY <2>1 DEF SafeWhenCalm, TakeTurns, AtRest
    <3>2. instructions # EmptyList
      BY <1>1, <1>2, <3>1
    <3>3. main' = "idle" => Checked(main)'
      BY <2>2, <2>5, <3>1, <3>2 DEF ButtonsInPass
    <3> QED
      BY <1>1, <2>2, <3>1, <3>3 DEF SafeWhenCalm, AtRest, Checked
  <2> QED
    BY <2>3, <2>4, <2>5, <2>6, <2>7
<1> QED
  BY <1>3, <1>4, <1>5, <1>6 DEF MainStep

\* A relaunch is a start from nothing.
LEMMA RelaunchPreservesIInv ==
    ASSUME Relaunch
    PROVE  IInv'
BY ListAssumption
   DEF Relaunch, IInv, TypeOK, IndexBounded, SafeWhenCalm, TakeTurns, ButtonsInPass,
       LabelsInPass, AnyList, Length, Statement, AtRest

\* Every step of the app keeps the invariant.
LEMMA NextPreservesIInv == IInv /\ [Next]_vars => IInv'
<1> SUFFICES ASSUME IInv, [Next]_vars
             PROVE  IInv'
  OBVIOUS
<1>1. CASE ActivationDidComplete
  BY <1>1
     DEF ActivationDidComplete, IInv, TypeOK, IndexBounded, SafeWhenCalm, TakeTurns,
         ButtonsInPass, LabelsInPass, Checked, NextOutOfRange, AtRest, Length, labels,
         buttons, history
<1>2. CASE \E l \in AnyList : Receive(l)
  BY <1>2, ReceivePreservesIInv
<1>3. CASE RxStep
  BY <1>3, RxStepPreservesIInv
<1>4. CASE PreviousTapped \/ NextTapped
  BY <1>4, TapPreservesIInv
<1>5. CASE MainStep
  BY <1>5, MainStepPreservesIInv
<1>6. CASE Relaunch
  BY <1>6, RelaunchPreservesIInv
<1>7. CASE UNCHANGED vars
  BY <1>7
     DEF vars, IInv, TypeOK, IndexBounded, SafeWhenCalm, TakeTurns, ButtonsInPass,
         LabelsInPass, Checked, NextOutOfRange, AtRest, Length
<1> QED
  BY <1>1, <1>2, <1>3, <1>4, <1>5, <1>6, <1>7 DEF Next

-----------------------------------------------------------------------------
\* Every behaviour keeps the inductive invariant.
THEOREM InductiveInvariant == Spec => []IInv
BY InitEstablishesIInv, NextPreservesIInv, PTL DEF Spec

\* The types of the step display's state.
THEOREM TypeCorrect == Spec => []TypeOK
<1>1. IInv => TypeOK
  BY DEF IInv
<1> QED
  BY <1>1, InductiveInvariant, PTL

\* The app never traps but after a race of its two handlers or an array too short
\* for the index it keeps, however many steps the arrays have.
THEOREM CrashesHaveACause == Spec => []CrashHasCause
<1>1. IInv => CrashHasCause
  BY DEF IInv, SafeWhenCalm, CrashHasCause
<1> QED
  BY <1>1, InductiveInvariant, PTL

\* At rest after a handler that ran alone the two buttons allow exactly the moves
\* that stay in the array, whatever races came before.
THEOREM ButtonsMatch == Spec => []ButtonsMatchUnlessClashed
<1>1. IInv => ButtonsMatchUnlessClashed
  <2> SUFFICES ASSUME IInv, AtRest, ~clashed, instructions # EmptyList
               PROVE  /\ previousEnabled <=> stepIndex > 0
                      /\ nextEnabled <=> stepIndex + 1 < Length(instructions)
    BY DEF ButtonsMatchUnlessClashed
  <2>1. Checked("idle")
    BY DEF IInv, ButtonsInPass, AtRest
  <2> QED
    BY <2>1 DEF Checked
<1> QED
  BY <1>1, InductiveInvariant, PTL

\* Number and text on display then belong to the same step.
THEOREM LabelsAgree == Spec => []LabelsAgreeUnlessClashed
<1>1. IInv => LabelsAgreeUnlessClashed
  BY DEF IInv, LabelsInPass, LabelsAgreeUnlessClashed, AtRest
<1> QED
  BY <1>1, InductiveInvariant, PTL
=============================================================================
