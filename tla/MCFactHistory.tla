--------------------------- MODULE MCFactHistory ---------------------------
(* Small instances of FactHistory. *)
EXTENDS FactHistory, TLC

CONSTANTS k1, k2

\* Values are only compared with each other.
ValueSymmetry == Permutations(Values)

Kind(p, j) == [provider |-> p, job |-> j]

\* One page with one identity; two pages with one identity each; two pages that
\* both can state k1.
OnePage     == <<{k1}>>
TwoPages    == <<{k1}, {k2}>>
SharedPages == <<{k1}, {k1, k2}>>

FixtureFull  == {Kind("fixture", "full")}
LlmFull      == {Kind("llm", "full")}
WithSmoke    == FixtureFull \cup {Kind("fixture", "smoke"), Kind("llm", "smoke")}
WithSkip     == LlmFull \cup {Kind("fixture", "skip")}

NoFaults    == {}
AllPhases   == Phases
LateFaults  == {"page", "write", "report"}
=============================================================================
