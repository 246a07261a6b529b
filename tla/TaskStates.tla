------------------------------ MODULE TaskStates ------------------------------
(***************************************************************************)
(* The task states of the runtime store and the transition table that      *)
(* transition_runtime_task enforces.  Absent stands for a task without a   *)
(* row.                                                                    *)
(***************************************************************************)

Absent    == "ABSENT"
Created   == "CREATED"
Queue     == "QUEUED"
Running   == "RUNNING"
Waiting   == "WAITING"
Completed == "COMPLETED"
Failed    == "FAILED"

TaskStates == {Absent, Created, Queue, Running, Waiting, Completed, Failed}

(* TASK_STATE_TRANSITIONS.  A transition of a task without a row raises.   *)
Allowed ==
  [s \in TaskStates |->
     CASE s = Created   -> {Queue}
       [] s = Queue     -> {Running}
       [] s = Running   -> {Waiting, Completed, Failed}
       [] s = Waiting   -> {Running}
       [] s = Failed    -> {Queue}
       [] OTHER         -> {}]

Settled == {Completed, Failed}
=============================================================================
