-------------------------- MODULE MCCoverageDirectory --------------------------
(* CoverageDirectory with two paths and one content that has points, or two. *)
EXTENDS CoverageDirectory, TLC

CONSTANTS s1, s2
TwoSources == {s1, s2}

\* Contents are compared, never read: exchanging the two is sound.
Alike == Permutations(TwoSources)
=============================================================================
