--------------------------- MODULE TaskDistributor ---------------------------
(***************************************************************************)
(* The in-process task distributor: one unbounded FIFO queue, a pool of    *)
(* worker loops and a stop protocol that queues one pill per worker.       *)
(*                                                                         *)
(* The event loop runs a coroutine without interruption up to an await     *)
(* that really suspends, and a put on an unbounded queue does not.  An     *)
(* action is therefore one such slice of a worker loop, of start() or of   *)
(* stop().  What a handler puts into the event queue of its task during    *)
(* its slice is the parameter `put`, so that a module which composes this  *)
(* one decides what the handlers do.                                       *)
(*                                                                         *)
(* An operator named Bug... is a mutation of the one that follows it: a    *)
(* mistake that code could contain, kept to show that a property fails     *)
(* then.  No specification uses one.                                       *)
(***************************************************************************)
EXTENDS Naturals, Sequences, FiniteSets

CONSTANTS
  Tasks,     \* task identifiers, each unique (run:<uuid4>)
  Handled,   \* the tasks whose prefix has a registered handler
  Workers    \* the worker loops start() creates: max(1, worker_count) of them

Stop   == "__stop__"
Idle   == "idle"
Exited == "exited"

ASSUME DistributorAssumption ==
  /\ Handled \subseteq Tasks
  /\ {Stop, Idle, Exited} \cap Tasks = {}
  /\ IsFiniteSet(Workers) /\ Workers # {}

VARIABLES
  queue,      \* asyncio.Queue of task identifiers and pills
  isRunning,  \* _is_running
  pool,       \* the loops held in _workers
  worker,     \* what each loop is awaiting: Idle (queue.get), a task's handler, or it Exited
  metrics,    \* the counters get_metrics reports
  out,        \* per task, everything put into its event queue so far
  late        \* history variable: tasks enqueued since stop() and not started over

dvars == <<queue, isRunning, pool, worker, metrics, out, late>>

Frames == {"message", "done", "error", "END"}

Counters == {"enqueued", "processed", "failed", "missing", "inflight"}
ZeroMetrics == [c \in Counters |-> 0]

Queued == {queue[i] : i \in DOMAIN queue}
Busy(w) == worker[w] \in Tasks

TypeOK ==
  /\ queue \in Seq(Tasks \cup {Stop})
  /\ isRunning \in BOOLEAN
  /\ pool \in {{}, Workers}
  /\ worker \in [Workers -> Tasks \cup {Idle, Exited}]
  /\ metrics \in [Counters -> Nat]
  /\ out \in [Tasks -> Seq(Frames)]
  /\ late \subseteq Tasks

Init ==
  /\ queue = <<>>
  /\ isRunning = FALSE
  /\ pool = {}
  /\ worker = [w \in Workers |-> Exited]
  /\ metrics = ZeroMetrics
  /\ out = [t \in Tasks |-> <<>>]
  /\ late = {}

-----------------------------------------------------------------------------
(* A LIFO queue.                                                           *)
BugEnqueueFront(t) ==
  /\ queue' = <<t>> \o queue
  /\ metrics' = [metrics EXCEPT !["enqueued"] = @ + 1]
  /\ late' = IF isRunning THEN late ELSE late \cup {t}
  /\ UNCHANGED <<isRunning, pool, worker, out>>

(* enqueue_task: counts and puts; it does not look at _is_running.         *)
Enqueue(t) ==
  /\ queue' = Append(queue, t)
  /\ metrics' = [metrics EXCEPT !["enqueued"] = @ + 1]
  /\ late' = IF isRunning THEN late ELSE late \cup {t}
  /\ UNCHANGED <<isRunning, pool, worker, out>>

(* start: a no-op when running.  The lifespan hook never calls it while a  *)
(* stop is still gathering its workers, hence pool = {}.                   *)
Start ==
  /\ ~isRunning
  /\ pool = {}
  /\ isRunning' = TRUE
  /\ pool' = Workers
  /\ worker' = [w \in Workers |-> Idle]
  /\ late' = {}
  /\ UNCHANGED <<queue, metrics, out>>

Pills == [i \in 1..Cardinality(pool) |-> Stop]

(* The pills overtake what is queued.                                      *)
BugStopNow ==
  /\ isRunning
  /\ isRunning' = FALSE
  /\ queue' = Pills \o queue
  /\ UNCHANGED <<pool, worker, metrics, out, late>>

(* stop, up to its gather: lowers the flag and queues one pill per loop.   *)
StopRequest ==
  /\ isRunning
  /\ isRunning' = FALSE
  /\ queue' = queue \o Pills
  /\ UNCHANGED <<pool, worker, metrics, out, late>>

(* stop, after its gather: every loop has exited.                          *)
Drained ==
  /\ ~isRunning
  /\ pool # {}
  /\ \A w \in pool : worker[w] = Exited

StopReturn ==
  /\ Drained
  /\ pool' = {}
  /\ UNCHANGED <<queue, isRunning, worker, metrics, out, late>>

CanGet(w) == worker[w] = Idle /\ queue # <<>>

(* One pill for all: each loop hands it on.                                *)
BugPassPillOn(w) ==
  /\ CanGet(w)
  /\ Head(queue) = Stop
  /\ queue' = Append(Tail(queue), Stop)
  /\ worker' = [worker EXCEPT ![w] = Exited]
  /\ UNCHANGED <<isRunning, pool, metrics, out, late>>

(* A loop takes the pill at the head of the queue and breaks.              *)
TakePill(w) ==
  /\ CanGet(w)
  /\ Head(queue) = Stop
  /\ queue' = Tail(queue)
  /\ worker' = [worker EXCEPT ![w] = Exited]
  /\ UNCHANGED <<isRunning, pool, metrics, out, late>>

(* The early path forgets its counter.                                     *)
BugUnhandledUncounted(w) ==
  /\ CanGet(w)
  /\ Head(queue) \in Tasks \ Handled
  /\ queue' = Tail(queue)
  /\ out' = [out EXCEPT ![Head(queue)] = @ \o <<"error", "END">>]
  /\ UNCHANGED <<isRunning, pool, worker, metrics, late>>

(* No handler is registered for the prefix: error, then the sentinel.      *)
TakeUnhandled(w) ==
  /\ CanGet(w)
  /\ Head(queue) \in Tasks \ Handled
  /\ queue' = Tail(queue)
  /\ metrics' = [metrics EXCEPT !["missing"] = @ + 1]
  /\ out' = [out EXCEPT ![Head(queue)] = @ \o <<"error", "END">>]
  /\ UNCHANGED <<isRunning, pool, worker, late>>

Take(w) ==
  /\ CanGet(w)
  /\ Head(queue) \in Handled
  /\ queue' = Tail(queue)
  /\ worker' = [worker EXCEPT ![w] = Head(queue)]
  /\ metrics' = [metrics EXCEPT !["inflight"] = @ + 1]
  /\ UNCHANGED <<isRunning, pool, out, late>>

(* A slice of the handler that ends in another await.                      *)
Put(w, put) ==
  /\ Busy(w)
  /\ out' = [out EXCEPT ![worker[w]] = @ \o put]
  /\ UNCHANGED <<queue, isRunning, pool, worker, metrics, late>>

(* inflight is lowered in the except branch and again in the finally.      *)
BugReturnTwice(w, put, raised) ==
  /\ Busy(w)
  /\ out' = [out EXCEPT ![worker[w]] =
               @ \o put \o (IF raised THEN <<"error", "END">> ELSE <<>>)]
  /\ metrics' = [metrics EXCEPT !["inflight"] = @ - (IF raised THEN 2 ELSE 1),
                                ![IF raised THEN "failed" ELSE "processed"] = @ + 1]
  /\ worker' = [worker EXCEPT ![w] = Idle]
  /\ UNCHANGED <<queue, isRunning, pool, late>>

(* A failed task is put back for a retry, by the loop and by its handler.  *)
BugReturnRequeues(w, put, raised) ==
  /\ Busy(w)
  /\ out' = [out EXCEPT ![worker[w]] = @ \o put]
  /\ metrics' = [metrics EXCEPT !["inflight"] = @ - 1]
  /\ queue' = IF raised THEN queue \o <<worker[w], worker[w]>> ELSE queue
  /\ worker' = [worker EXCEPT ![w] = Idle]
  /\ UNCHANGED <<isRunning, pool, late>>

(* The loop does not survive an exception of a handler.                    *)
BugReturnEndsLoop(w, put, raised) ==
  /\ Busy(w)
  /\ out' = [out EXCEPT ![worker[w]] = @ \o put]
  /\ metrics' = [metrics EXCEPT !["inflight"] = @ - 1]
  /\ worker' = [worker EXCEPT ![w] = IF raised THEN Exited ELSE Idle]
  /\ UNCHANGED <<queue, isRunning, pool, late>>

(* The handler's last slice: it returns, or raises, and then the loop adds *)
(* an error frame and a sentinel of its own.                               *)
Return(w, put, raised) ==
  /\ Busy(w)
  /\ out' = [out EXCEPT ![worker[w]] =
               @ \o put \o (IF raised THEN <<"error", "END">> ELSE <<>>)]
  /\ metrics' = [metrics EXCEPT !["inflight"] = @ - 1,
                                ![IF raised THEN "failed" ELSE "processed"] = @ + 1]
  /\ worker' = [worker EXCEPT ![w] = Idle]
  /\ UNCHANGED <<queue, isRunning, pool, late>>

(* The process dies: whatever it held in memory is gone.  What was already *)
(* put for a task stays on record in `out`.                                *)
ProcessExit ==
  /\ queue' = <<>>
  /\ isRunning' = FALSE
  /\ pool' = {}
  /\ worker' = [w \in Workers |-> Exited]
  /\ metrics' = ZeroMetrics
  /\ late' = {}
  /\ UNCHANGED out

-----------------------------------------------------------------------------
(* The distributor alone: each task is enqueued at most once, and a        *)
(* handler closes its own stream before it returns.                        *)
Fresh(t) ==
  /\ t \notin Queued
  /\ \A w \in Workers : worker[w] # t
  /\ out[t] = <<>>

Work(w) ==
  \/ TakePill(w)
  \/ TakeUnhandled(w)
  \/ Take(w)
  \/ \E raised \in BOOLEAN : Return(w, <<"END">>, raised)

Next ==
  \/ \E t \in Tasks : Fresh(t) /\ Enqueue(t)
  \/ Start
  \/ StopRequest
  \/ StopReturn
  \/ \E w \in Workers : Work(w)

Spec == Init /\ [][Next]_dvars

(* A loop that can run is run, and handlers return: every await inside one *)
(* is a sleep, a timed wait or a call that returns.  Nobody has to start,  *)
(* stop or enqueue.                                                        *)
FairSpec == Spec /\ \A w \in Workers : WF_dvars(Work(w))

-----------------------------------------------------------------------------
(* A task is in one place at a time: never twice in the queue, never with  *)
(* two loops, never queued and running at once (get hands each item to one *)
(* loop and nothing puts a task back).                                     *)
OnePlace ==
  /\ \A i, j \in DOMAIN queue : queue[i] = queue[j] /\ queue[i] # Stop => i = j
  /\ \A w \in Workers : Busy(w) => worker[w] \notin Queued
  /\ \A w, v \in Workers : Busy(w) /\ worker[w] = worker[v] => w = v

(* get_metrics adds up in every state: inflight is the number of loops in  *)
(* a handler, and every task ever enqueued is queued, in flight, processed,*)
(* failed or without a handler - the finally branch and the two early      *)
(* paths of the loop account for each exactly once.                        *)
MetricsAddUp ==
  /\ metrics["inflight"] = Cardinality({w \in Workers : Busy(w)})
  /\ metrics["enqueued"] =
       Cardinality(Queued \cap Tasks) + metrics["inflight"] + metrics["processed"]
         + metrics["failed"] + metrics["missing"]

(* stop() drains: once it has returned, every task accepted while the      *)
(* distributor ran has left the queue, and no pill is left over to end a   *)
(* loop of a later start.                                                  *)
StopDrains == pool = {} => Queued \subseteq late

(* While stop() waits there is a pill for every loop that has not exited,  *)
(* so its gather can end.                                                  *)
PillPerLoop ==
  Cardinality({i \in DOMAIN queue : queue[i] = Stop}) =
    IF isRunning THEN 0 ELSE Cardinality({w \in Workers : worker[w] # Exited})

(* Whatever was queued while the distributor ran is eventually taken, with *)
(* or without a stop coming in between.                                    *)
QueuedIsServed == \A t \in Tasks : (isRunning /\ t \in Queued) ~> (t \notin Queued)
=============================================================================
