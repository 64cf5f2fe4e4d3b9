--------------------------------- MODULE ReRuns ---------------------------------
(***************************************************************************)
(* What `gd-tools test --watch` promises about saves and runs, without     *)
(* events, queues or clocks: runs happen one at a time; each one after the *)
(* first answers at least one save that no earlier run answered; and a     *)
(* save is answered by one run only.                                       *)
(***************************************************************************)
EXTENDS Integers

CONSTANT MaxSaves  \* saves the user makes (bound)

VARIABLES
    saves,     \* number of saves made so far; saves are numbered from 1
    waiting,   \* saves that no run has answered
    busy,      \* a run is in progress
    over       \* the session has ended

vars == <<saves, waiting, busy, over>>

\* The session opens with a run of everything, answering nothing.
Init == saves = 0 /\ waiting = {} /\ busy = TRUE /\ over = FALSE

\* Not every change calls for a run: deletions do not.
Save ==
    /\ saves < MaxSaves
    /\ saves' = saves + 1 /\ waiting' \in {waiting, waiting \cup {saves'}}
    /\ UNCHANGED <<busy, over>>

Start ==
    /\ ~busy /\ ~over
    /\ \E answered \in (SUBSET waiting) \ {{}} : waiting' = waiting \ answered
    /\ busy' = TRUE /\ UNCHANGED <<saves, over>>

Finish == busy /\ ~over /\ busy' = FALSE /\ UNCHANGED <<saves, waiting, over>>

End == ~over /\ over' = TRUE /\ busy' = FALSE /\ UNCHANGED <<saves, waiting>>

Next == Save \/ Start \/ Finish \/ End
Spec == Init /\ [][Next]_vars
=============================================================================
