-------------------------- MODULE MCTaskDistributor --------------------------
(* Two loops and three tasks, one of them without a handler.               *)
EXTENDS TaskDistributor

CONSTANTS t1, t2, t3, w1, w2

MCTasks == {t1, t2, t3}
MCHandled == {t1, t2}
MCWorkers == {w1, w2}
=============================================================================
