----------------------------- MODULE MCRunArtifacts -----------------------------
(* RunArtifacts with two commands. *)
EXTENDS RunArtifacts, TLC

CONSTANTS r1, r2
TwoRuns == {r1, r2}

\* The commands are alike; every property here is about states and steps, so
\* exchanging them is sound.
Alike == Permutations(TwoRuns)
=============================================================================
