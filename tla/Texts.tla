------------------------------- MODULE Texts --------------------------------
(***************************************************************************)
(* A text is the set of the hint words that occur in it: planner, gates,   *)
(* tools and search providers look at a text through such hints alone.     *)
(***************************************************************************)
EXTENDS FiniteSetsExt, Integers

Mentions(t, hints) == t \cap hints # {}

(* The first entry of a table of <<words, answer>> one of whose words      *)
(* occurs, and the answer when there is none.                              *)
FirstMention(t, table, other) ==
  LET hits == {i \in DOMAIN table : Mentions(t, table[i][1])}
  IN IF hits = {} THEN other ELSE table[Min(hits)][2]
=============================================================================
