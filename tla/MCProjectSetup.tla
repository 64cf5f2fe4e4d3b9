---------------------------- MODULE MCProjectSetup ----------------------------
(* ProjectSetup with two versions of gd-tools, of which the second no longer ships a *)
(* file of the coverage addon, and two suites in different directories.              *)
EXTENDS ProjectSetup

Runner == <<"test", "runner">>
Tracker == <<"coverage", "tracker">>
Hook == <<"coverage", "hook">>
AllFiles == {Runner, Tracker, Hook}

Bundled == <<
    <<[addon |-> "test", files |-> <<Runner>>, removed |-> << >>],
      [addon |-> "coverage", files |-> <<Tracker, Hook>>, removed |-> << >>]>>,
    <<[addon |-> "test", files |-> <<Runner>>, removed |-> << >>],
      [addon |-> "coverage", files |-> <<Tracker>>, removed |-> <<Hook>>]>>>>

SuiteDirs == <<"test", "spec">>
Projects == {<<"gut", "gut">>, <<"gut", "bare">>, <<"unsupported", "stray">>, <<"nested", "gut">>}

TestDir == {"test"}
BothDirs == {"test", "spec"}
DirSettings == {TestDir, BothDirs}
DefaultDirs == [k \in {"dirs"} |-> TestDir]
GutDirs == {None, [k \in {"dirs"} |-> BothDirs]}
=============================================================================
