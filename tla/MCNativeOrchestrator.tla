------------------------- MODULE MCNativeOrchestrator -------------------------
(* NativeOrchestrator with three suites and two workers. *)
EXTENDS NativeOrchestrator

\* A pass, a failure, and a pass whose exit code betrays a crash at shutdown.
MCExits == {[file |-> "passed", code |-> 0], [file |-> "failed", code |-> 1],
            [file |-> "passed", code |-> 3]}
=============================================================================
