----------------------------- MODULE MCWatchLink -----------------------------
(***************************************************************************)
(* Two pages over two recipes, of one step and of two: the second message  *)
(* may shorten the array under the watch's index, or be empty.             *)
(***************************************************************************)
EXTENDS WatchLink

CONSTANTS p1, p2, toast, salad

MCPage      == {p1, p2}
MCRecipe    == {toast, salad}
MCStepCount == [r \in MCRecipe |-> IF r = toast THEN 1 ELSE 2]
=============================================================================
