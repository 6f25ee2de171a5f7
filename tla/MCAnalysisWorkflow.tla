------------------------- MODULE MCAnalysisWorkflow -------------------------
(***************************************************************************)
(* A workflow with a report writer of its own and three possible           *)
(* competitors, of which it holds two; the name of one is spelt with       *)
(* characters that normalization replaces.                                 *)
(***************************************************************************)
EXTENDS AnalysisWorkflow

OneCaller   == {"flow"}
OwnWriter   == {"flow"}
NoClients   == {}
OneTask     == {"budget"}
OneScope    == {"compared"}
OneTarget   == {"Acme"}
TargetOf    == [s \in OneScope |-> "Acme"]
ThreeRivals == {"r1", "r2", "r3"}
Fullwidth   == {"r2"}
=============================================================================
