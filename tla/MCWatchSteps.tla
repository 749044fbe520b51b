---------------------------- MODULE MCWatchSteps ----------------------------
(***************************************************************************)
(* Three arrays of 1, 2 and 4 steps: a later array may be longer, equal or *)
(* shorter than the one on display, and shorter by one or by more.         *)
(***************************************************************************)
EXTENDS WatchSteps

CONSTANTS toast, salad, stew

MCList      == {toast, salad, stew}
MCStepCount == [l \in MCList |-> CASE l = toast -> 1 [] l = salad -> 2 [] l = stew -> 4]
=============================================================================
