------------------------ MODULE MCCompetitiveReport ------------------------
(***************************************************************************)
(* A workflow and two requests to write, which may carry one request id,   *)
(* about two scopes of one target and one scope of another.                *)
(***************************************************************************)
EXTENDS CompetitiveReport, TLC

CONSTANTS flow, w1, w2, t1, t2, compared, rewritten, older

AllCallers == {flow, w1, w2}
AllClients == {w1, w2}
AllWriters == {w1, w2}
AllTasks   == {t1, t2}
AllScopes  == {compared, rewritten, older}
TwoTargets == {"Acme", "Other"}
TargetOf   == [s \in AllScopes |-> IF s = older THEN "Other" ELSE "Acme"]

\* Writers, ids, and scopes of one target are only compared for equality.
CallSymmetry ==
  Permutations(AllClients) \cup Permutations(AllTasks) \cup Permutations({compared, rewritten})
=============================================================================
