-------------------------- MODULE MCInstructionFeed --------------------------
(***************************************************************************)
(* Three pages over two recipes: some recipe is opened twice, and three    *)
(* answers can come in any order.                                          *)
(***************************************************************************)
EXTENDS InstructionFeed

CONSTANTS p1, p2, p3, soup, curry

MCPage   == {p1, p2, p3}
MCRecipe == {soup, curry}
=============================================================================
