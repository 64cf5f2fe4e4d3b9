----------------------------- MODULE MCSuiteRunner -----------------------------
(* SuiteRunner with one test, one retry and the hook sets that interact. *)
EXTENDS SuiteRunner

MCHookSets == {{}, {"before_all", "after_all"}, {"before_each", "after_each"}}

\* One hook that can outlive its budget is enough to reach a later body.
ZombieHookSets == {{"before_all"}}
=============================================================================
