------------------------------- MODULE Outbox -------------------------------
(***************************************************************************)
(* What the app may rely on when it writes to the database and does not    *)
(* wait: writes are numbered as they are issued; the server takes them in  *)
(* that order; they are settled in that order, each with what the server   *)
(* said when it last took it.  After a lost connection the server is shown *)
(* the unsettled writes again, from the first of them on.  When the app    *)
(* ends, the unsettled writes are given up.                                *)
(***************************************************************************)
EXTENDS Integers

CONSTANT Limit    \* how many writes there may be

VARIABLES
    issued,    \* the number of the newest write
    first,     \* the oldest write not settled or given up; issued + 1 if there is none
    cursor,    \* the write the server takes next
    said,      \* what the server said to each write, and
    told       \* what the app was told of it: ok, refused, or nothing

vars == <<issued, first, cursor, said, told>>

Init ==
    /\ issued = 0 /\ first = 1 /\ cursor = 1
    /\ said = [i \in 1..Limit |-> "nothing"]
    /\ told = [i \in 1..Limit |-> "nothing"]

Issue == /\ issued < Limit
         /\ issued' = issued + 1
         /\ UNCHANGED <<first, cursor, said, told>>

Take == /\ cursor <= issued
        /\ cursor' = cursor + 1
        /\ \E answer \in {"ok", "refused"} : said' = [said EXCEPT ![cursor] = answer]
        /\ UNCHANGED <<issued, first, told>>

Settle == /\ first < cursor
          /\ told' = [told EXCEPT ![first] = said[first]]
          /\ first' = first + 1
          /\ UNCHANGED <<issued, cursor, said>>

StartOver == cursor' = first /\ UNCHANGED <<issued, first, said, told>>

GiveUp == /\ first' = issued + 1
          /\ cursor' = issued + 1
          /\ UNCHANGED <<issued, said, told>>

Next == Issue \/ Take \/ Settle \/ StartOver \/ GiveUp

Spec == Init /\ [][Next]_vars
=============================================================================
