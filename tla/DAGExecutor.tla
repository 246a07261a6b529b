----------------------------- MODULE DAGExecutor -----------------------------
(***************************************************************************)
(* The executor of planned nodes: execute_stream, one generator for each   *)
(* execution of a plan, the asyncio task it creates for each node, and     *)
(* what all executions share: one breaker per skill and the node cache.    *)
(*                                                                         *)
(* An action is a slice of a coroutine between two awaits that suspend.    *)
(* A generator suspends in asyncio.wait ("waiting") and at a yield, where  *)
(* its consumer works ("yielded", also before its first step).  A task     *)
(* suspends in skill.execute ("calling") and in the sleep before another   *)
(* attempt ("backoff").                                                    *)
(*                                                                         *)
(* The executions run the same plan for the same prompt and recent memory, *)
(* as those of two fresh sessions asked the same thing do: only then can   *)
(* their cache keys meet.  What a skill computes is named by the execution *)
(* that computed it.  An operator named Bug... is a mutation of the one    *)
(* that follows it; no specification uses one.                             *)
(***************************************************************************)
EXTENDS Integers, FiniteSets, Functions, CircuitBreaker

CONSTANTS
  Executions,
  Nodes,           \* the ids of the plan's nodes
  Deps,            \* depends_on of each node
  Priority,        \* priority of each node
  IdOrder,         \* the place of each id in string order
  Skills,
  Skill,           \* the skill of each node
  Rejected,        \* nodes without a registered skill, or with input off its schema
  Bypass,          \* nodes whose cache_policy is bypass
  MaxConcurrency,
  Retries

NotYet == "not yet"
Failed == "failed"       \* a result without success: an error text
NoData == "no data"      \* a success whose data is None, rendered as an error text

ASSUME ExecutorAssumption ==
  /\ IsFiniteSet(Nodes)
  /\ Deps \in [Nodes -> SUBSET Nodes]
  /\ Priority \in [Nodes -> Int]
  /\ IdOrder \in [Nodes -> Nat]
  /\ Skill \in [Nodes -> Skills]
  /\ MaxConcurrency \in Nat \ {0}
  /\ Retries \in Nat
  /\ {NotYet, Failed, NoData} \cap Executions = {}

VARIABLES
  phase,      \* of each generator
  pending,    \* per execution, nodes without a task
  inFlight,   \* per execution, nodes whose task the generator waits for
  done,       \* per execution, what asyncio.wait returned and is not yielded yet
  completed,  \* per execution, nodes whose result is in results
  task,       \* per execution and node, the state of its task
  attempt,    \* per execution and node, the attempt under way
  result,     \* per execution and node, what its task returned
  breakers,   \* per skill
  cache       \* the node cache: the entries that have not expired

generators == <<phase, pending, inFlight, done, completed>>
tasks == <<task, attempt, result>>
vars == <<generators, tasks, breakers, cache>>

Phases == {"yielded", "waiting", "ended", "raised", "abandoned"}
Results == Executions \cup {Failed, NoData}

TypeOK ==
  /\ phase \in [Executions -> Phases]
  /\ pending \in [Executions -> SUBSET Nodes]
  /\ inFlight \in [Executions -> SUBSET Nodes]
  /\ done \in [Executions -> SUBSET Nodes]
  /\ completed \in [Executions -> SUBSET Nodes]
  /\ task \in [Executions -> [Nodes -> {"none", "created", "calling", "backoff", "finished"}]]
  /\ attempt \in [Executions -> [Nodes -> 0..Retries]]
  /\ result \in [Executions -> [Nodes -> Results \cup {NotYet}]]
  /\ breakers \in [Skills -> Breaker]
  /\ \A k \in DOMAIN cache : cache[k] \in Executions

Init ==
  /\ phase = [e \in Executions |-> "yielded"]
  /\ pending = [e \in Executions |-> Nodes]
  /\ inFlight = [e \in Executions |-> {}]
  /\ done = [e \in Executions |-> {}]
  /\ completed = [e \in Executions |-> {}]
  /\ task = [e \in Executions |-> [n \in Nodes |-> "none"]]
  /\ attempt = [e \in Executions |-> [n \in Nodes |-> 0]]
  /\ result = [e \in Executions |-> [n \in Nodes |-> NotYet]]
  /\ breakers = [s \in Skills |-> Closed]
  /\ cache = <<>>

-----------------------------------------------------------------------------
(* The generator.                                                          *)

(* any() where the code has all().                                         *)
BugReady(e) == {n \in pending[e] : Deps[n] = {} \/ Deps[n] \cap completed[e] # {}}

Ready(e) == {n \in pending[e] : Deps[n] \subseteq completed[e]}

(* The sort key is (-priority, number of dependencies, id).                *)
Before(m, n) ==
  LET size(x) == Cardinality(Deps[x])
  IN \/ Priority[m] > Priority[n]
     \/ Priority[m] = Priority[n] /\ size(m) < size(n)
     \/ Priority[m] = Priority[n] /\ size(m) = size(n) /\ IdOrder[m] < IdOrder[n]

(* One task for each turn of the outer loop.                               *)
BugFirstReady(e, S) ==
  /\ S \subseteq Ready(e)
  /\ Cardinality(inFlight[e] \cup S) <= MaxConcurrency
  /\ Cardinality(S) <= 1
  /\ Ready(e) # {} => S # {}

(* S is what the inner loop pops: the first ready nodes, up to the limit.  *)
FirstReady(e, S) ==
  /\ S \subseteq Ready(e)
  /\ Cardinality(inFlight[e] \cup S) <= MaxConcurrency
  /\ S = Ready(e) \/ Cardinality(inFlight[e] \cup S) = MaxConcurrency
  /\ \A m \in S, n \in Ready(e) \ S : Before(m, n)

(* The head of the outer loop: the consumer asks for the next update, and  *)
(* all the last wait returned has been yielded.                            *)
AtLoopHead(e) == phase[e] = "yielded" /\ done[e] = {}

Schedule(e) ==
  /\ AtLoopHead(e)
  /\ \E S \in SUBSET pending[e] :
       /\ FirstReady(e, S)
       /\ inFlight[e] \cup S # {}
       /\ pending' = [pending EXCEPT ![e] = @ \ S]
       /\ inFlight' = [inFlight EXCEPT ![e] = @ \cup S]
       /\ task' = [task EXCEPT ![e] = [n \in Nodes |-> IF n \in S THEN "created" ELSE @[n]]]
  /\ phase' = [phase EXCEPT ![e] = "waiting"]
  /\ UNCHANGED <<done, completed, attempt, result, breakers, cache>>

(* "Circular dependency detected in DAG."                                  *)
Raise(e) ==
  /\ AtLoopHead(e)
  /\ pending[e] # {}
  /\ Ready(e) = {}
  /\ inFlight[e] = {}
  /\ phase' = [phase EXCEPT ![e] = "raised"]
  /\ UNCHANGED <<pending, inFlight, done, completed, tasks, breakers, cache>>

End(e) ==
  /\ AtLoopHead(e)
  /\ pending[e] = {}
  /\ inFlight[e] = {}
  /\ phase' = [phase EXCEPT ![e] = "ended"]
  /\ UNCHANGED <<pending, inFlight, done, completed, tasks, breakers, cache>>

(* Only a success completes a node.                                        *)
BugYieldSuccess(e, n, rest) ==
  /\ inFlight' = [inFlight EXCEPT ![e] = @ \ {n}]
  /\ completed' = [completed EXCEPT ![e] = IF result[e][n] = Failed THEN @ ELSE @ \cup {n}]
  /\ done' = [done EXCEPT ![e] = rest]
  /\ phase' = [phase EXCEPT ![e] = "yielded"]
  /\ UNCHANGED <<pending, tasks, breakers, cache>>

(* One node is taken from a wait that returned several.                    *)
BugYieldFirst(e, n, rest) ==
  /\ inFlight' = [inFlight EXCEPT ![e] = @ \ ({n} \cup rest)]
  /\ completed' = [completed EXCEPT ![e] = @ \cup {n}]
  /\ done' = [done EXCEPT ![e] = {}]
  /\ phase' = [phase EXCEPT ![e] = "yielded"]
  /\ UNCHANGED <<pending, tasks, breakers, cache>>

(* One turn of the loop over what asyncio.wait returned, up to its yield:  *)
(* a failed node is completed like any other.                              *)
Yield(e, n, rest) ==
  /\ inFlight' = [inFlight EXCEPT ![e] = @ \ {n}]
  /\ completed' = [completed EXCEPT ![e] = @ \cup {n}]
  /\ done' = [done EXCEPT ![e] = rest]
  /\ phase' = [phase EXCEPT ![e] = "yielded"]
  /\ UNCHANGED <<pending, tasks, breakers, cache>>

Finished(e) == {n \in inFlight[e] : task[e][n] = "finished"}

(* asyncio.wait returns all that have finished by the time it resumes.     *)
Wake(e) ==
  /\ phase[e] = "waiting"
  /\ \E n \in Finished(e) : Yield(e, n, Finished(e) \ {n})

Report(e) ==
  /\ phase[e] = "yielded"
  /\ \E n \in done[e] : Yield(e, n, done[e] \ {n})

(* The tasks still in flight are cancelled: no except clause of the guard  *)
(* takes a CancelledError, so no breaker hears of them.                    *)
BugAbandon(e) ==
  /\ phase[e] = "yielded"
  /\ completed[e] # {}
  /\ phase' = [phase EXCEPT ![e] = "abandoned"]
  /\ task' = [task EXCEPT ![e] = [n \in Nodes |-> IF n \in inFlight[e] THEN "finished" ELSE @[n]]]
  /\ UNCHANGED <<pending, inFlight, done, completed, attempt, result, breakers, cache>>

(* The consumer raises between two updates and its generator is closed at  *)
(* the yield: nothing there cancels or awaits the tasks in flight.         *)
Abandon(e) ==
  /\ phase[e] = "yielded"
  /\ completed[e] # {}
  /\ phase' = [phase EXCEPT ![e] = "abandoned"]
  /\ UNCHANGED <<pending, inFlight, done, completed, tasks, breakers, cache>>

-----------------------------------------------------------------------------
(* The task of a node.                                                     *)

(* dependency_outputs                                                      *)
Outputs(e, n) == [d \in Deps[n] \cap completed[e] |-> result[e][d]]

(* The key leaves out what the dependencies returned.                      *)
BugCacheKey(n, outputs) == <<n, <<>>>>

(* build_key: skill and input are the node's, and the outputs its          *)
(* dependencies had; prompt and memory are the same for all executions.    *)
CacheKey(n, outputs) == <<n, outputs>>

Key(e, n) == CacheKey(n, Outputs(e, n))

Cached(e, n) == n \notin Bypass /\ Key(e, n) \in DOMAIN cache

Return(e, n, r) ==
  /\ task' = [task EXCEPT ![e][n] = "finished"]
  /\ result' = [result EXCEPT ![e][n] = r]
  /\ UNCHANGED <<generators, attempt>>

(* Its first slice returns at once, without a call ...                     *)
Refuse(e, n) ==
  /\ task[e][n] = "created"
  /\ n \in Rejected
  /\ Return(e, n, Failed)
  /\ UNCHANGED <<breakers, cache>>

Hit(e, n) ==
  /\ task[e][n] = "created"
  /\ n \notin Rejected
  /\ Cached(e, n)
  /\ Return(e, n, cache[Key(e, n)])
  /\ UNCHANGED <<breakers, cache>>

AskBreaker(n) ==
  breakers' = [breakers EXCEPT ![Skill[n]] = AfterRequest(@)]

CircuitOpen(e, n) ==
  /\ task[e][n] = "created"
  /\ n \notin Rejected
  /\ ~Cached(e, n)
  /\ ~Allows(breakers[Skill[n]])
  /\ AskBreaker(n)
  /\ Return(e, n, Failed)
  /\ UNCHANGED cache

(* ... or goes up to the first attempt's await.                            *)
Call(e, n) ==
  /\ task[e][n] = "created"
  /\ n \notin Rejected
  /\ ~Cached(e, n)
  /\ Allows(breakers[Skill[n]])
  /\ AskBreaker(n)
  /\ task' = [task EXCEPT ![e][n] = "calling"]
  /\ UNCHANGED <<generators, attempt, result, cache>>

(* An attempt succeeds, with or without data.                              *)
Succeed(e, n) ==
  /\ task[e][n] = "calling"
  /\ breakers' = [breakers EXCEPT ![Skill[n]] = RecordSuccess(@)]
  /\ \/ /\ Return(e, n, e)
        /\ cache' = IF n \in Bypass THEN cache
                    ELSE [k \in DOMAIN cache \cup {Key(e, n)} |-> IF k = Key(e, n) THEN e ELSE cache[k]]
     \/ /\ Return(e, n, NoData)
        /\ UNCHANGED cache

(* One attempt too many.                                                   *)
BugRetry(e, n) ==
  /\ task[e][n] = "calling"
  /\ attempt[e][n] <= Retries
  /\ task' = [task EXCEPT ![e][n] = "backoff"]
  /\ UNCHANGED <<generators, attempt, result, breakers, cache>>

(* An attempt that is not the last times out or fails with a transient     *)
(* error.                                                                  *)
Retry(e, n) ==
  /\ task[e][n] = "calling"
  /\ attempt[e][n] < Retries
  /\ task' = [task EXCEPT ![e][n] = "backoff"]
  /\ UNCHANGED <<generators, attempt, result, breakers, cache>>

(* The attempts are not counted.                                           *)
BugSleep(e, n) ==
  /\ task[e][n] = "backoff"
  /\ task' = [task EXCEPT ![e][n] = "calling"]
  /\ UNCHANGED <<generators, attempt, result, breakers, cache>>

(* The sleep ends and the next attempt starts: the breaker is not asked.   *)
Sleep(e, n) ==
  /\ task[e][n] = "backoff"
  /\ task' = [task EXCEPT ![e][n] = "calling"]
  /\ attempt' = [attempt EXCEPT ![e][n] = @ + 1]
  /\ UNCHANGED <<generators, result, breakers, cache>>

(* The last attempt fails, or any with a permanent or a system error.      *)
Fail(e, n) ==
  /\ task[e][n] = "calling"
  /\ Return(e, n, Failed)
  /\ breakers' = [breakers EXCEPT ![Skill[n]] = RecordFailure(@)]
  /\ UNCHANGED cache

-----------------------------------------------------------------------------
(* Time.                                                                   *)

RecoveryTimeout(s) ==
  /\ breakers[s].cooling
  /\ breakers' = [breakers EXCEPT ![s] = Cooled(@)]
  /\ UNCHANGED <<generators, tasks, cache>>

(* The next get finds the entry expired and removes it.                    *)
Expire(k) ==
  /\ cache' = Restrict(cache, DOMAIN cache \ {k})
  /\ UNCHANGED <<generators, tasks, breakers>>

-----------------------------------------------------------------------------
Over(e) ==
  /\ phase[e] \in {"ended", "raised", "abandoned"}
  /\ \A n \in Nodes : task[e][n] \in {"none", "finished"}

(* Nothing is left to do.                                                  *)
AllOver ==
  /\ \A e \in Executions : Over(e)
  /\ UNCHANGED vars

Advance(e) == Schedule(e) \/ Raise(e) \/ End(e) \/ Wake(e) \/ Report(e)
First(e, n) == Refuse(e, n) \/ Hit(e, n) \/ CircuitOpen(e, n) \/ Call(e, n)
Answer(e, n) == Succeed(e, n) \/ Retry(e, n) \/ Fail(e, n)

Next ==
  \/ \E e \in Executions : Advance(e) \/ Abandon(e)
  \/ \E e \in Executions, n \in Nodes : First(e, n) \/ Answer(e, n) \/ Sleep(e, n)
  \/ \E s \in Skills : RecoveryTimeout(s)
  \/ \E k \in DOMAIN cache : Expire(k)
  \/ AllOver

Spec == Init /\ [][Next]_vars

(* The event loop resumes what can run; wait_for bounds an attempt and the *)
(* sleep ends; the consumer asks on or gives the generator up.             *)
Fairness ==
  /\ \A e \in Executions : WF_vars(Advance(e))
  /\ \A e \in Executions, n \in Nodes :
       WF_vars(First(e, n)) /\ WF_vars(Answer(e, n)) /\ WF_vars(Sleep(e, n))

FairSpec == Spec /\ Fairness

-----------------------------------------------------------------------------
(* Properties.                                                             *)

(* Every node of every execution is in one of the three collections of     *)
(* execute_stream, so none is lost, run or reported twice, and where it is *)
(* agrees with the state of its task, also after the generator was given   *)
(* up (executor.py:93-132).                                                *)
Accounted ==
  \A e \in Executions :
    /\ pending[e] \cup inFlight[e] \cup completed[e] = Nodes
    /\ pending[e] \cap inFlight[e] = {}
    /\ pending[e] \cap completed[e] = {}
    /\ inFlight[e] \cap completed[e] = {}
    /\ done[e] \subseteq inFlight[e]
    /\ phase[e] # "yielded" /\ phase[e] # "abandoned" => done[e] = {}
    /\ \A n \in Nodes :
         /\ task[e][n] = "none" <=> n \in pending[e]
         /\ task[e][n] = "finished" <=> result[e][n] # NotYet
         /\ n \in completed[e] \cup done[e] => task[e][n] = "finished"

(* A generator that waits waits for something, for no more nodes than the  *)
(* limit, and leaves no ready node behind while a slot is free             *)
(* (executor.py:96-126).                                                   *)
NoSlotWasted ==
  \A e \in Executions :
    phase[e] = "waiting" =>
      /\ inFlight[e] # {}
      /\ Cardinality(inFlight[e]) <= MaxConcurrency
      /\ Ready(e) = {} \/ Cardinality(inFlight[e]) = MaxConcurrency

Circular(S) == S # {} /\ \A n \in S : Deps[n] \cap S # {}

(* A plan is reported as circular only if the nodes left wait for each     *)
(* other, whatever fails and in whatever order, and a plan with a cycle    *)
(* never ends normally with nodes left out (executor.py:97, 123).          *)
CircularVerdict ==
  \A e \in Executions :
    /\ phase[e] = "raised" => Circular(pending[e])
    /\ phase[e] = "ended" => ~ \E S \in SUBSET Nodes : Circular(S)

Asking(s) ==
  {p \in Executions \X Nodes : Skill[p[2]] = s /\ task[p[1]][p[2]] \in {"calling", "backoff"}}

(* A breaker is closed exactly while it counts fewer failures than its     *)
(* threshold, and a half-open one has a request out whose answer will move *)
(* it on, although answers to requests from before it opened come in any   *)
(* order (runtime_resilience.py:84-117, executor.py:165-218).              *)
BreakersSound ==
  \A s \in Skills :
    /\ breakers[s].state = "closed" <=> breakers[s].failures < FailThreshold
    /\ breakers[s].cooling => breakers[s].state = "open"
    /\ breakers[s].state = "half_open" => Asking(s) # {}

(* What a node of one execution returned through the cache of another was  *)
(* computed from the very outputs that its dependencies have in its own    *)
(* execution (executor.py:161, 215).                                       *)
CachedFitsInputs ==
  \A e \in Executions, n \in Nodes :
    result[e][n] \in Executions =>
      LET by == result[e][n]
      IN /\ result[by][n] = by
         /\ \A d \in Deps[n] : result[by][d] = result[e][d]

Plan == INSTANCE DagRun WITH Limit <- MaxConcurrency, running <- inFlight, done <- completed

(* Each execution runs its nodes once, within the limit, each one after    *)
(* its dependencies.                                                       *)
ImplementsDag == Plan!Spec

(* Every execution ends, raises or is given up by its consumer.            *)
ExecutionsEnd == \A e \in Executions : <>(phase[e] \in {"ended", "raised", "abandoned"})

(* No breaker stays half-open, where it turns all but a probe away.        *)
HalfOpenIsLeft ==
  \A s \in Skills : breakers[s].state = "half_open" ~> breakers[s].state # "half_open"
=============================================================================
