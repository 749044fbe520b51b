--------------------------- MODULE MCSearchResults ---------------------------
(***************************************************************************)
(* Three searches of up to two results: answers overtake one another, come *)
(* empty, and come while earlier results are on display.                   *)
(***************************************************************************)
EXTENDS SearchResults

CONSTANTS s1, s2, s3

MCSearch == {s1, s2, s3}
=============================================================================
