--------------------------- MODULE MCFreshnessCaches ---------------------------
(* FreshnessCaches with two commands at a time. *)
EXTENDS FreshnessCaches, TLC

CONSTANTS c1, c2
TwoCommands == {c1, c2}

\* The commands are alike; every property here is about states and steps, so
\* exchanging them is sound.
Alike == Permutations(TwoCommands)

\* A content, and the same with another body of a suite: an edit, undone and redone.
MCNames == <<1, 1>>
MCCovered == <<1, 2>>
=============================================================================
