----------------------------- MODULE RecipeShelf -----------------------------
(***************************************************************************)
(* What phone and watch promise together, seen from outside: recipes are   *)
(* put on a shelf and stay there, and the watch shows the steps of a       *)
(* recipe on the shelf, never going back to one shelved before the one it  *)
(* shows, until it is started again.                                       *)
(***************************************************************************)
EXTENDS Integers, Sequences

CONSTANTS Recipe, EmptyList

VARIABLES
    shelf,    \* the recipes saved, in order, each with its steps or none
    place,    \* the place on the shelf of the recipe on the watch, 0 for none
    shown     \* the steps the watch holds

vars == <<shelf, place, shown>>

Init == shelf = <<>> /\ place = 0 /\ shown = EmptyList

Shelve ==
    /\ \E r \in Recipe : \E l \in {r, EmptyList} :
          shelf' = Append(shelf, [title |-> r, steps |-> l])
    /\ UNCHANGED <<place, shown>>

\* A recipe shelved later than the one shown takes its place.
Show ==
    /\ place' \in place + 1 .. Len(shelf)
    /\ shown' = shelf[place'].steps
    /\ UNCHANGED shelf

Restart == place' = 0 /\ shown' = EmptyList /\ UNCHANGED shelf

Next == Shelve \/ Show \/ Restart

Spec == Init /\ [][Next]_vars
=============================================================================
