--------------------------- MODULE CircuitBreaker ---------------------------
(***************************************************************************)
(* The circuit breaker of runtime_resilience.py as values and functions: a *)
(* module that uses one keeps the value in a variable of its own.          *)
(*                                                                         *)
(* The code compares the clock with opened_until.  `cooling` says whether  *)
(* that instant still lies ahead; the user of a breaker models the passing *)
(* of time with Cooled.                                                    *)
(***************************************************************************)
EXTENDS Naturals

CONSTANTS
  FailThreshold,     \* fail_threshold, 5 in the executor
  HalfOpenMaxCalls   \* half_open_max_calls, 1 wherever a breaker is made

ASSUME BreakerAssumption ==
  /\ FailThreshold \in Nat \ {0}
  /\ HalfOpenMaxCalls \in Nat \ {0}

Breaker == [state    : {"closed", "open", "half_open"},
            failures : Nat,                    \* _consecutive_failures
            calls    : 0..HalfOpenMaxCalls,    \* _half_open_calls
            cooling  : BOOLEAN]

Closed == [state |-> "closed", failures |-> 0, calls |-> 0, cooling |-> FALSE]

(* allow_request first turns an open breaker whose time has come into a    *)
(* half-open one with all its slots free.                                  *)
Seen(b) ==
  IF b.state = "open" /\ ~b.cooling
  THEN [b EXCEPT !.state = "half_open", !.calls = 0]
  ELSE b

SlotFree(b) == b.state = "half_open" /\ b.calls < HalfOpenMaxCalls

(* What allow_request answers, and the breaker it leaves.                  *)
Allows(b) == Seen(b).state = "closed" \/ SlotFree(Seen(b))

(* A request that is refused counts as one that was admitted.              *)
BugAfterRequest(b) ==
  IF Seen(b).state = "half_open" THEN [Seen(b) EXCEPT !.calls = @ + 1] ELSE Seen(b)

AfterRequest(b) ==
  IF SlotFree(Seen(b)) THEN [Seen(b) EXCEPT !.calls = @ + 1] ELSE Seen(b)

TripOpen(b) == [b EXCEPT !.state = "open", !.calls = 0, !.cooling = TRUE]

(* record_success: whatever the state, so a late answer closes a breaker   *)
(* that has opened since the request was admitted.                         *)
RecordSuccess(b) == Closed

(* A failed probe does not open the breaker again.                         *)
BugRecordFailure(b) ==
  IF b.state = "half_open" THEN b
  ELSE IF b.failures + 1 >= FailThreshold
       THEN TripOpen([b EXCEPT !.failures = @ + 1])
       ELSE [b EXCEPT !.failures = @ + 1]

(* record_failure: a failure that arrives while the breaker is open counts *)
(* too and pushes opened_until further away.                               *)
RecordFailure(b) ==
  IF b.state = "half_open" THEN TripOpen(b)
  ELSE IF b.failures + 1 >= FailThreshold
       THEN TripOpen([b EXCEPT !.failures = @ + 1])
       ELSE [b EXCEPT !.failures = @ + 1]

(* The clock reaches opened_until.                                         *)
Cooled(b) == [b EXCEPT !.cooling = FALSE]
=============================================================================
