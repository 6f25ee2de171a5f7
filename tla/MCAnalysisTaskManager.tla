----------------------- MODULE MCAnalysisTaskManager -----------------------
(***************************************************************************)
(* Two requests for one competitor, whose spellings have the same key, and *)
(* two workflows.                                                          *)
(***************************************************************************)
EXTENDS AnalysisTaskManager, TLC

Acme == "Acme"
Upper == "ACME"
Flow == "workflow"
Flow2 == "another workflow"

SameKey     == {Acme, Upper, Flow, Flow2}
OnlyFlow    == {Flow, Flow2}
SameKeyKeys == {Acme, Flow, Flow2}
KeyOfSame   == [q \in SameKey |-> IF q = Upper THEN Acme ELSE q]

AllFaults == {"submit", "build", "row", "runner", "crash"}
=============================================================================
