---------------------------- MODULE MCDAGExecutor ----------------------------
(* Two plans.  "One": one execution of four nodes over two skills, three   *)
(* of which are independent, one of these is rejected, and two feed the    *)
(* last.  "Two": two executions of a node that feeds another, of one that  *)
(* bypasses the cache, and of one that waits for itself.                   *)
EXTENDS DAGExecutor, TLC

CONSTANTS e1, e2, a, b, c, d, search, synth

OneExecutions == {e1}
OneNodes == {a, b, c, d}
OneSkills == {search, synth}
OneSkill == [n \in OneNodes |-> IF n = d THEN synth ELSE search]
OneDeps == [n \in OneNodes |-> IF n = d THEN {a, b} ELSE {}]
OnePriority == [n \in OneNodes |-> IF n = c THEN 1 ELSE 0]
OneIdOrder == [n \in OneNodes |-> CASE n = a -> 1 [] n = b -> 2 [] n = c -> 3 [] n = d -> 4]
OneRejected == {b}

TwoExecutions == {e1, e2}
TwoNodes == {a, b, c, d}
TwoSkills == {search}
TwoSkill == [n \in TwoNodes |-> search]
TwoDeps == [n \in TwoNodes |-> CASE n = b -> {a} [] n = d -> {d} [] OTHER -> {}]
TwoPriority == [n \in TwoNodes |-> 0]
TwoIdOrder == OneIdOrder
TwoBypass == {c}
Alike == Permutations(TwoExecutions)

NoNodes == {}
=============================================================================
