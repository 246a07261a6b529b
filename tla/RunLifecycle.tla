---------------------------- MODULE RunLifecycle ----------------------------
(***************************************************************************)
(* What the backend promises about run requests, without queues of frames, *)
(* store calls or workers: requests are picked in the order they were      *)
(* made, at most Capacity of them are being worked on, each is picked once *)
(* and settles once, and only the death of the process drops some.         *)
(***************************************************************************)
EXTENDS Naturals, Sequences, FiniteSets

CONSTANTS
  Runs,
  Capacity   \* how many runs may be worked on at once, a positive number

VARIABLES
  line,    \* requests not picked yet, in order
  phase    \* of each run

lvars == <<line, phase>>

Active  == {"live", "paused"}
Settled == {"completed", "failed", "unrecorded"}

Init ==
  /\ line = <<>>
  /\ phase = [r \in Runs |-> "new"]

Request(r) ==
  /\ phase[r] = "new"
  /\ line' = Append(line, r)
  /\ phase' = [phase EXCEPT ![r] = "pending"]

Pick ==
  /\ line # <<>>
  /\ Cardinality({r \in Runs : phase[r] \in Active}) < Capacity
  /\ line' = Tail(line)
  /\ phase' = [phase EXCEPT ![Head(line)] = "live"]

(* A question to the user pauses a run, the answer lets it go on.          *)
Pause(r) ==
  /\ phase[r] = "live"
  /\ phase' = [phase EXCEPT ![r] = "paused"]
  /\ UNCHANGED line

Continue(r) ==
  /\ phase[r] = "paused"
  /\ phase' = [phase EXCEPT ![r] = "live"]
  /\ UNCHANGED line

(* "unrecorded": the run is over but its row in the store does not say how.*)
Settle(r) ==
  /\ phase[r] \in Active
  /\ \E outcome \in Settled : phase' = [phase EXCEPT ![r] = outcome]
  /\ UNCHANGED line

(* The process dies.  Pending runs are dropped; a run that was being       *)
(* worked on is over, with or without its outcome recorded.                *)
Die ==
  /\ line' = <<>>
  /\ phase' \in [Runs -> Settled \cup {"new"}]
  /\ \A r \in Runs :
       /\ phase[r] \in Settled \cup {"new"} => phase'[r] = phase[r]
       /\ phase[r] = "pending" => phase'[r] = "unrecorded"
       /\ phase[r] \in Active => phase'[r] \in Settled

Next ==
  \/ \E r \in Runs : Request(r) \/ Pause(r) \/ Continue(r) \/ Settle(r)
  \/ Pick
  \/ Die

Spec == Init /\ [][Next]_lvars
=============================================================================
