--------------------------- MODULE MCAgentRuntime ---------------------------
(* Two runs of one session asking the same prompt.                         *)
EXTENDS AgentRuntime, TLC

CONSTANTS r1, r2, w1, w2, s1, p1

MCRuns == {r1, r2}
OneWorker == {w1}
TwoWorkers == {w1, w2}
MCSessions == {s1}
MCPrompts == {p1}
SameSession == [r \in MCRuns |-> s1]
SamePrompt == [r \in MCRuns |-> p1]
Symmetry == Permutations(MCRuns) \cup Permutations(TwoWorkers)
=============================================================================
