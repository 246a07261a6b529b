------------------------------- MODULE DagRun -------------------------------
(***************************************************************************)
(* What the executor promises about each execution of a plan: its nodes    *)
(* run, at most Limit at once, each one time, and none before those it     *)
(* depends on are done.                                                    *)
(***************************************************************************)
EXTENDS Naturals, FiniteSets

CONSTANTS
  Executions,
  Nodes,
  Deps,    \* of each node, the nodes it depends on
  Limit    \* how many nodes of an execution may run at once

VARIABLES running, done

rvars == <<running, done>>

Init ==
  /\ running = [e \in Executions |-> {}]
  /\ done = [e \in Executions |-> {}]

Start(e, S) ==
  /\ S # {}
  /\ S \cap (running[e] \cup done[e]) = {}
  /\ \A n \in S : Deps[n] \subseteq done[e]
  /\ Cardinality(running[e] \cup S) <= Limit
  /\ running' = [running EXCEPT ![e] = @ \cup S]
  /\ UNCHANGED done

Finish(e, n) ==
  /\ n \in running[e]
  /\ running' = [running EXCEPT ![e] = @ \ {n}]
  /\ done' = [done EXCEPT ![e] = @ \cup {n}]

Next ==
  \/ \E e \in Executions, S \in SUBSET Nodes : Start(e, S)
  \/ \E e \in Executions, n \in Nodes : Finish(e, n)

Spec == Init /\ [][Next]_rvars
=============================================================================
