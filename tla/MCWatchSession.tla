----------------------------- MODULE MCWatchSession -----------------------------
(* WatchSession on a source file, its suite and a suite of its own. *)
EXTENDS WatchSession

MCNames == [f \in {"enemy", "test_enemy", "test_map"} |->
               IF f = "enemy" THEN <<"test_enemy">> ELSE <<>>]
=============================================================================
