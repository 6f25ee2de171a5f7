---------------------------- MODULE MCTaskBudget ----------------------------
(* A task with two purposes and a shared cost ceiling. *)
EXTENDS TaskBudget, TLC

MCResources == {"searches", "models", "cost"}
MCLimit     == [searches |-> 2, models |-> 1, cost |-> 4]
\* A search and a model call: two searches or a model call and one search fit.
MCCharges   == {[searches |-> 1, models |-> 0, cost |-> 1],
                [searches |-> 0, models |-> 1, cost |-> 3]}
ThreadSymmetry == Permutations(Threads)
=============================================================================
