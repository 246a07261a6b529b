-------------------------- MODULE DAGExecutor_proofs --------------------------
(***************************************************************************)
(* Facts about one breaker, and with them the safety properties of the     *)
(* executor, for any number of executions and any plan.                    *)
(***************************************************************************)
EXTENDS DAGExecutor, FiniteSetTheorems, TLAPS

-----------------------------------------------------------------------------
(* One breaker.                                                            *)

(* A breaker whose state agrees with its count and its clock.              *)
Sound(b) ==
  /\ b.state = "closed" <=> b.failures < FailThreshold
  /\ b.cooling => b.state = "open"

(* The initial breaker, also what record_success leaves.                   *)
LEMMA ClosedSound == Closed \in Breaker /\ Sound(Closed) /\ Closed.state = "closed"
  BY BreakerAssumption DEF Closed, Breaker, Sound

(* The first half of allow_request keeps a breaker a sound breaker.        *)
LEMMA SeenSound ==
  ASSUME NEW b \in Breaker, Sound(b)
  PROVE  Seen(b) \in Breaker /\ Sound(Seen(b))
<1>1. CASE b.state = "open" /\ ~b.cooling
  <2>1. Seen(b) = [b EXCEPT !.state = "half_open", !.calls = 0]
    BY <1>1 DEF Seen
  <2>2. [b EXCEPT !.state = "half_open", !.calls = 0] \in Breaker
    <3>1. 0 \in 0..HalfOpenMaxCalls
      BY BreakerAssumption
    <3> QED BY <3>1 DEF Breaker
  <2>3. Sound([b EXCEPT !.state = "half_open", !.calls = 0])
    BY <1>1 DEF Breaker, Sound
  <2> QED BY <2>1, <2>2, <2>3
<1>2. CASE ~(b.state = "open" /\ ~b.cooling)
  BY <1>2 DEF Seen
<1> QED BY <1>1, <1>2

(* allow_request keeps a breaker a sound breaker, and one it leaves        *)
(* half-open was so before or has just let a request through.              *)
LEMMA RequestSound ==
  ASSUME NEW b \in Breaker, Sound(b)
  PROVE  /\ AfterRequest(b) \in Breaker
         /\ Sound(AfterRequest(b))
         /\ AfterRequest(b).state = "half_open" => b.state = "half_open" \/ Allows(b)
<1> DEFINE c == Seen(b)
<1>1. c \in Breaker /\ Sound(c)
  BY SeenSound
<1>2. CASE SlotFree(c)
  <2>1. [c EXCEPT !.calls = @ + 1] \in Breaker
    BY <1>1, <1>2, BreakerAssumption DEF Breaker, SlotFree
  <2>2. Sound([c EXCEPT !.calls = @ + 1])
    BY <1>1 DEF Breaker, Sound
  <2> QED BY <1>2, <2>1, <2>2 DEF AfterRequest, Allows
<1>3. CASE ~SlotFree(c)
  <2>1. c.state = "half_open" => b.state = "half_open" \/ SlotFree(c)
    BY BreakerAssumption DEF Breaker, Seen, SlotFree
  <2> QED BY <1>1, <1>3, <2>1 DEF AfterRequest, Allows
<1> QED BY <1>2, <1>3

(* A breaker that counts enough failures may trip.                         *)
LEMMA TripSound ==
  ASSUME NEW b \in Breaker, b.failures >= FailThreshold
  PROVE  /\ TripOpen(b) \in Breaker
         /\ Sound(TripOpen(b))
         /\ TripOpen(b).state = "open"
<1>1. TripOpen(b) \in Breaker
  <2>1. 0 \in 0..HalfOpenMaxCalls
    BY BreakerAssumption
  <2> QED BY <2>1 DEF Breaker, TripOpen
<1>2. TripOpen(b).state = "open" /\ TripOpen(b).failures = b.failures
  BY DEF Breaker, TripOpen
<1>3. Sound(TripOpen(b))
  BY <1>2, BreakerAssumption DEF Breaker, Sound
<1> QED BY <1>1, <1>2, <1>3

(* record_failure keeps a breaker a sound breaker and leaves none          *)
(* half-open.                                                              *)
LEMMA FailureSound ==
  ASSUME NEW b \in Breaker, Sound(b)
  PROVE  /\ RecordFailure(b) \in Breaker
         /\ Sound(RecordFailure(b))
         /\ RecordFailure(b).state # "half_open"
<1> DEFINE c == [b EXCEPT !.failures = @ + 1]
<1>1. c \in Breaker /\ c.failures = b.failures + 1 /\ c.state = b.state /\ c.cooling = b.cooling
  BY DEF Breaker
<1>2. CASE b.state = "half_open"
  <2>1. b.failures >= FailThreshold
    BY <1>2, BreakerAssumption DEF Breaker, Sound
  <2> QED BY <1>2, <2>1, TripSound DEF RecordFailure
<1>3. CASE b.state # "half_open" /\ b.failures + 1 >= FailThreshold
  <2>1. RecordFailure(b) = TripOpen(c)
    BY <1>3 DEF RecordFailure
  <2> HIDE DEF c
  <2> QED BY <1>1, <1>3, <2>1, TripSound
<1>4. CASE b.state # "half_open" /\ ~(b.failures + 1 >= FailThreshold)
  <2>1. RecordFailure(b) = c
    BY <1>4 DEF RecordFailure
  <2>2. b.failures < FailThreshold
    BY <1>4, BreakerAssumption DEF Breaker
  <2>3. c.failures < FailThreshold /\ c.state = "closed" /\ ~c.cooling
    BY <1>1, <1>4, <2>2, BreakerAssumption DEF Breaker, Sound
  <2> HIDE DEF c
  <2> QED BY <1>1, <2>1, <2>3 DEF Sound
<1> QED BY <1>2, <1>3, <1>4

(* The passing of time does not change the state.                          *)
LEMMA CooledSound ==
  ASSUME NEW b \in Breaker, Sound(b)
  PROVE  Cooled(b) \in Breaker /\ Sound(Cooled(b)) /\ Cooled(b).state = b.state
  BY DEF Breaker, Sound, Cooled

-----------------------------------------------------------------------------
(* Updates of the variables that hold a value per execution and node.      *)

LEMMA NestedUpdate ==
  ASSUME NEW A, NEW B, NEW C, NEW f \in [A -> [B -> C]],
         NEW x \in A, NEW y \in B, NEW c \in C
  PROVE  /\ [f EXCEPT ![x][y] = c] \in [A -> [B -> C]]
         /\ \A u \in A, v \in B :
              [f EXCEPT ![x][y] = c][u][v] = IF u = x /\ v = y THEN c ELSE f[u][v]
  OBVIOUS

LEMMA FlatUpdate ==
  ASSUME NEW A, NEW C, NEW f \in [A -> C], NEW x \in A, NEW c \in C
  PROVE  /\ [f EXCEPT ![x] = c] \in [A -> C]
         /\ \A u \in A : [f EXCEPT ![x] = c][u] = IF u = x THEN c ELSE f[u]
  OBVIOUS

(* The three things the steps of a task can do to it.                      *)
TaskBecomes(e, n, t) ==
  /\ task' \in [Executions -> [Nodes -> {"none", "created", "calling", "backoff", "finished"}]]
  /\ \A u \in Executions, v \in Nodes :
       task'[u][v] = IF u = e /\ v = n THEN t ELSE task[u][v]

ResultBecomes(e, n, r) ==
  /\ result' \in [Executions -> [Nodes -> Results \cup {NotYet}]]
  /\ \A u \in Executions, v \in Nodes :
       result'[u][v] = IF u = e /\ v = n THEN r ELSE result[u][v]

LEMMA TaskUpdate ==
  ASSUME TypeOK, NEW e \in Executions, NEW n \in Nodes,
         NEW t \in {"none", "created", "calling", "backoff", "finished"},
         task' = [task EXCEPT ![e][n] = t]
  PROVE  TaskBecomes(e, n, t)
  BY NestedUpdate, task \in [Executions -> [Nodes -> {"none", "created", "calling", "backoff", "finished"}]]
  DEF TypeOK, TaskBecomes

LEMMA ReturnUpdate ==
  ASSUME TypeOK, NEW e \in Executions, NEW n \in Nodes, NEW r \in Results,
         Return(e, n, r)
  PROVE  /\ TaskBecomes(e, n, "finished")
         /\ ResultBecomes(e, n, r)
         /\ UNCHANGED <<generators, attempt>>
<1>1. TaskBecomes(e, n, "finished")
  BY TaskUpdate DEF Return
<1>2. ResultBecomes(e, n, r)
  <2>1. result \in [Executions -> [Nodes -> Results \cup {NotYet}]]
    BY DEF TypeOK
  <2>2. r \in Results \cup {NotYet}
    OBVIOUS
  <2> QED BY <2>1, <2>2, NestedUpdate DEF Return, ResultBecomes
<1> QED BY <1>1, <1>2 DEF Return

-----------------------------------------------------------------------------
(* Types.  TypeOK is not inductive: a sleep adds one to the attempt, which *)
(* stays in range because only an attempt that is not the last sleeps; and *)
(* a trip needs a breaker whose state agrees with its count.               *)
TypeInv ==
  /\ TypeOK
  /\ \A e \in Executions, n \in Nodes : task[e][n] = "backoff" => attempt[e][n] < Retries
  /\ \A s \in Skills : Sound(breakers[s])

BreakersTyped(f) == f \in [Skills -> Breaker] /\ \A s \in Skills : Sound(f[s])

LEMMA BreakerUpdate ==
  ASSUME BreakersTyped(breakers), NEW s \in Skills, NEW b \in Breaker, Sound(b),
         breakers' = [breakers EXCEPT ![s] = b]
  PROVE  BreakersTyped(breakers)'
<1>1. breakers \in [Skills -> Breaker]
  BY DEF BreakersTyped
<1>2. breakers' \in [Skills -> Breaker] /\ \A u \in Skills : breakers'[u] = IF u = s THEN b ELSE breakers[u]
  BY <1>1, FlatUpdate
<1>3. ASSUME NEW u \in Skills PROVE Sound(breakers'[u])
  <2>1. CASE u = s
    BY <1>2, <2>1
  <2>2. CASE u # s
    <3>1. breakers'[u] = breakers[u]
      BY <1>2, <2>2
    <3> QED BY <3>1 DEF BreakersTyped
  <2> QED BY <2>1, <2>2
<1> QED BY <1>2, <1>3 DEF BreakersTyped

LEMMA SkillOf == ASSUME NEW n \in Nodes PROVE Skill[n] \in Skills
  BY ExecutorAssumption

(* A request and its answer keep every breaker a sound one.                *)
LEMMA AskTyped ==
  ASSUME BreakersTyped(breakers), NEW n \in Nodes, AskBreaker(n)
  PROVE  BreakersTyped(breakers)'
<1> DEFINE b == breakers[Skill[n]]
<1>1. Skill[n] \in Skills /\ b \in Breaker /\ Sound(b)
  BY SkillOf DEF BreakersTyped
<1>2. breakers' = [breakers EXCEPT ![Skill[n]] = AfterRequest(b)]
  BY DEF AskBreaker
<1>3. AfterRequest(b) \in Breaker /\ Sound(AfterRequest(b))
  BY <1>1, RequestSound
<1> QED BY <1>1, <1>2, <1>3, BreakerUpdate

LEMMA AnswerTyped ==
  ASSUME BreakersTyped(breakers), NEW n \in Nodes,
         \/ breakers' = [breakers EXCEPT ![Skill[n]] = RecordSuccess(@)]
         \/ breakers' = [breakers EXCEPT ![Skill[n]] = RecordFailure(@)]
  PROVE  BreakersTyped(breakers)' /\ breakers'[Skill[n]].state # "half_open"
<1> DEFINE b == breakers[Skill[n]]
<1>1. Skill[n] \in Skills /\ b \in Breaker /\ Sound(b) /\ breakers \in [Skills -> Breaker]
  BY SkillOf DEF BreakersTyped
<1>2. CASE breakers' = [breakers EXCEPT ![Skill[n]] = RecordSuccess(@)]
  <2>1. breakers' = [breakers EXCEPT ![Skill[n]] = Closed]
    BY <1>2 DEF RecordSuccess
  <2>2. breakers'[Skill[n]] = Closed
    BY <1>1, <2>1
  <2> QED BY <1>1, <2>1, <2>2, ClosedSound, BreakerUpdate
<1>3. CASE breakers' = [breakers EXCEPT ![Skill[n]] = RecordFailure(@)]
  <2>1. breakers' = [breakers EXCEPT ![Skill[n]] = RecordFailure(b)]
    BY <1>3
  <2>2. breakers'[Skill[n]] = RecordFailure(b)
    BY <1>1, <2>1
  <2> QED BY <1>1, <2>1, <2>2, FailureSound, BreakerUpdate
<1> QED BY <1>2, <1>3

-----------------------------------------------------------------------------
LEMMA TypeInit == Init => TypeInv
<1> SUFFICES ASSUME Init PROVE TypeInv
  OBVIOUS
<1>1. Closed \in Breaker /\ Sound(Closed)
  BY ClosedSound
<1>2. breakers \in [Skills -> Breaker] /\ \A s \in Skills : Sound(breakers[s])
  BY <1>1 DEF Init
<1>3. attempt \in [Executions -> [Nodes -> 0..Retries]]
  BY ExecutorAssumption DEF Init
<1>4. \A e \in Executions, n \in Nodes : task[e][n] # "backoff"
  BY DEF Init
<1>5. DOMAIN cache = {}
  BY DEF Init
<1>6. TypeOK
  BY <1>2, <1>3, <1>5 DEF Init, TypeOK, Phases
<1> QED BY <1>2, <1>4, <1>6 DEF TypeInv

(* Wake and Report are both a Yield; `from` is what the wait returned.     *)
LEMMA Yields ==
  ASSUME TypeOK, NEW e \in Executions, Wake(e) \/ Report(e)
  PROVE  \E from \in SUBSET Nodes, n \in Nodes :
           /\ n \in from
           /\ Yield(e, n, from \ {n})
           /\ \/ phase[e] = "waiting" /\ from = Finished(e)
              \/ phase[e] = "yielded" /\ from = done[e]
<1>1. Finished(e) \subseteq Nodes /\ done[e] \subseteq Nodes
  BY DEF TypeOK, Finished
<1>2. CASE Wake(e)
  <2>1. PICK n \in Finished(e) : Yield(e, n, Finished(e) \ {n})
    BY <1>2 DEF Wake
  <2> QED BY <1>1, <1>2, <2>1 DEF Wake
<1>3. CASE Report(e)
  <2>1. PICK n \in done[e] : Yield(e, n, done[e] \ {n})
    BY <1>3 DEF Report
  <2> QED BY <1>1, <1>3, <2>1 DEF Report
<1> QED BY <1>2, <1>3

(* What a step of the generator of e is allowed to do to the tasks.        *)
LEMMA AdvanceTyped ==
  ASSUME TypeInv, NEW e \in Executions, Advance(e) \/ Abandon(e)
  PROVE  TypeInv'
<1> USE DEF TypeInv
<1>1. CASE Schedule(e)
  <2>1. PICK S \in SUBSET pending[e] :
          /\ pending' = [pending EXCEPT ![e] = @ \ S]
          /\ inFlight' = [inFlight EXCEPT ![e] = @ \cup S]
          /\ task' = [task EXCEPT ![e] = [n \in Nodes |-> IF n \in S THEN "created" ELSE @[n]]]
    BY <1>1 DEF Schedule
  <2>2. S \subseteq Nodes
    BY DEF TypeOK
  <2>3. \A u \in Executions, n \in Nodes : task'[u][n] = "backoff" => task[u][n] = "backoff"
    BY <2>1 DEF TypeOK
  <2>4. pending' \in [Executions -> SUBSET Nodes] /\ inFlight' \in [Executions -> SUBSET Nodes]
    BY <2>1, <2>2 DEF TypeOK
  <2>5. phase' \in [Executions -> Phases]
    BY <1>1 DEF Schedule, TypeOK, Phases
  <2>6. task' \in [Executions -> [Nodes -> {"none", "created", "calling", "backoff", "finished"}]]
    BY <2>1 DEF TypeOK
  <2> QED BY <1>1, <2>3, <2>4, <2>5, <2>6 DEF Schedule, TypeOK
<1>2. CASE Raise(e) \/ End(e) \/ Abandon(e)
  <2>1. phase' \in [Executions -> Phases]
    BY <1>2 DEF Raise, End, Abandon, TypeOK, Phases
  <2> QED BY <1>2, <2>1 DEF Raise, End, Abandon, TypeOK, tasks
<1>3. CASE Wake(e) \/ Report(e)
  <2>1. PICK from \in SUBSET Nodes, n \in Nodes : Yield(e, n, from \ {n})
    BY <1>3, Yields
  <2>2. inFlight' \in [Executions -> SUBSET Nodes]
    BY <2>1 DEF Yield, TypeOK
  <2>3. completed' \in [Executions -> SUBSET Nodes]
    BY <2>1 DEF Yield, TypeOK
  <2>4. done' \in [Executions -> SUBSET Nodes]
    BY <2>1 DEF Yield, TypeOK
  <2>5. phase' \in [Executions -> Phases]
    BY <2>1 DEF Yield, TypeOK, Phases
  <2> QED BY <2>1, <2>2, <2>3, <2>4, <2>5 DEF Yield, TypeOK, tasks
<1> QED BY <1>1, <1>2, <1>3 DEF Advance

(* What a step of the task of node n is allowed to do to the types.        *)
LEMMA TaskTyped ==
  ASSUME TypeInv, NEW e \in Executions, NEW n \in Nodes,
         First(e, n) \/ Answer(e, n) \/ Sleep(e, n)
  PROVE  TypeInv'
<1> USE DEF TypeInv
<1>1. BreakersTyped(breakers)
  BY DEF TypeOK, BreakersTyped
<1>2. ASSUME BreakersTyped(breakers)', NEW r \in Results, Return(e, n, r),
             \A k \in DOMAIN cache' : cache'[k] \in Executions
      PROVE  TypeInv'
  <2>1. TaskBecomes(e, n, "finished") /\ ResultBecomes(e, n, r) /\ UNCHANGED <<generators, attempt>>
    BY <1>2, ReturnUpdate
  <2>2. TypeOK'
    BY <1>2, <2>1 DEF TypeOK, generators, TaskBecomes, ResultBecomes, BreakersTyped
  <2>3. \A u \in Executions, v \in Nodes : task'[u][v] = "backoff" => attempt'[u][v] < Retries
    BY <2>1 DEF TaskBecomes
  <2> QED BY <1>2, <2>2, <2>3 DEF BreakersTyped
<1>3. \A k \in DOMAIN cache : cache[k] \in Executions
  BY DEF TypeOK
<1>4. CASE Refuse(e, n)
  <2>1. UNCHANGED <<breakers, cache>> /\ Return(e, n, Failed)
    BY <1>4 DEF Refuse
  <2> QED BY <1>1, <1>2, <1>3, <2>1 DEF Results, BreakersTyped
<1>5. CASE Hit(e, n)
  <2>1. UNCHANGED <<breakers, cache>> /\ Return(e, n, cache[Key(e, n)]) /\ cache[Key(e, n)] \in Executions
    BY <1>3, <1>5 DEF Hit, Cached
  <2> QED BY <1>1, <1>2, <1>3, <2>1 DEF Results, BreakersTyped
<1>6. CASE CircuitOpen(e, n)
  <2>1. BreakersTyped(breakers)' /\ UNCHANGED cache /\ Return(e, n, Failed)
    BY <1>1, <1>6, AskTyped DEF CircuitOpen
  <2> QED BY <1>2, <1>3, <2>1 DEF Results
<1>7. CASE Succeed(e, n)
  <2>1. BreakersTyped(breakers)'
    BY <1>1, <1>7, AnswerTyped DEF Succeed
  <2>2. \A k \in DOMAIN cache' : cache'[k] \in Executions
    BY <1>3, <1>7 DEF Succeed
  <2>3. \E r \in Results : Return(e, n, r)
    BY <1>7 DEF Succeed, Results
  <2> QED BY <1>2, <2>1, <2>2, <2>3
<1>8. CASE Fail(e, n)
  <2>1. BreakersTyped(breakers)' /\ UNCHANGED cache /\ Return(e, n, Failed)
    BY <1>1, <1>8, AnswerTyped DEF Fail
  <2> QED BY <1>2, <1>3, <2>1 DEF Results
<1>9. CASE Call(e, n)
  <2>1. BreakersTyped(breakers)'
    BY <1>1, <1>9, AskTyped DEF Call
  <2>2. TaskBecomes(e, n, "calling") /\ UNCHANGED <<generators, attempt, result, cache>>
    BY <1>9, TaskUpdate DEF Call
  <2> QED BY <2>1, <2>2 DEF TypeOK, generators, TaskBecomes, BreakersTyped
<1>10. CASE Retry(e, n)
  <2>1. TaskBecomes(e, n, "backoff") /\ UNCHANGED <<generators, attempt, result, breakers, cache>>
    BY <1>10, TaskUpdate DEF Retry
  <2>2. attempt[e][n] < Retries
    BY <1>10 DEF Retry
  <2> QED BY <2>1, <2>2 DEF TypeOK, generators, TaskBecomes
<1>11. CASE Sleep(e, n)
  <2>1. TaskBecomes(e, n, "calling") /\ UNCHANGED <<generators, result, breakers, cache>>
    BY <1>11, TaskUpdate DEF Sleep
  <2>2. attempt[e][n] < Retries /\ attempt \in [Executions -> [Nodes -> 0..Retries]]
    BY <1>11 DEF Sleep, TypeOK
  <2>3. attempt[e][n] + 1 \in 0..Retries
    BY <2>2, ExecutorAssumption
  <2>4. attempt' = [attempt EXCEPT ![e][n] = attempt[e][n] + 1]
    BY <1>11 DEF Sleep
  <2>5. /\ attempt' \in [Executions -> [Nodes -> 0..Retries]]
        /\ \A u \in Executions, v \in Nodes : ~(u = e /\ v = n) => attempt'[u][v] = attempt[u][v]
    BY <2>2, <2>3, <2>4, NestedUpdate
  <2> QED BY <2>1, <2>5 DEF TypeOK, generators, TaskBecomes
<1> QED BY <1>4, <1>5, <1>6, <1>7, <1>8, <1>9, <1>10, <1>11 DEF First, Answer

LEMMA TimeTyped ==
  ASSUME TypeInv,
         \/ \E s \in Skills : RecoveryTimeout(s)
         \/ \E k \in DOMAIN cache : Expire(k)
  PROVE  TypeInv'
<1> USE DEF TypeInv
<1>1. BreakersTyped(breakers)
  BY DEF TypeOK, BreakersTyped
<1>2. ASSUME NEW s \in Skills, RecoveryTimeout(s) PROVE TypeInv'
  <2>1. breakers[s] \in Breaker /\ Sound(breakers[s])
    BY <1>1 DEF BreakersTyped
  <2>2. breakers' = [breakers EXCEPT ![s] = Cooled(breakers[s])]
    BY <1>2 DEF RecoveryTimeout
  <2>3. BreakersTyped(breakers)'
    BY <1>1, <2>1, <2>2, CooledSound, BreakerUpdate
  <2> QED BY <1>2, <2>3 DEF RecoveryTimeout, TypeOK, generators, tasks, BreakersTyped
<1>3. ASSUME NEW k \in DOMAIN cache, Expire(k) PROVE TypeInv'
  <2>1. \A x \in DOMAIN cache' : cache'[x] \in Executions
    BY <1>3 DEF Expire, Restrict, TypeOK
  <2> QED BY <1>3, <2>1 DEF Expire, TypeOK, generators, tasks
<1> QED BY <1>2, <1>3

LEMMA TypeStep == TypeInv /\ [Next]_vars => TypeInv'
<1> SUFFICES ASSUME TypeInv, [Next]_vars PROVE TypeInv'
  OBVIOUS
<1>1. CASE UNCHANGED vars
  BY <1>1 DEF TypeInv, TypeOK, vars, generators, tasks
<1>2. CASE AllOver
  BY <1>2, <1>1 DEF AllOver
<1>3. CASE Next /\ ~AllOver
  BY <1>3, AdvanceTyped, TaskTyped, TimeTyped DEF Next
<1> QED BY <1>1, <1>2, <1>3

LEMMA TypeInvariant == Spec => []TypeInv
  BY TypeInit, TypeStep, PTL DEF Spec

(* The executor keeps the types of its variables: attempts never exceed    *)
(* the retry budget, half-open slots never exceed their number.            *)
THEOREM TypeCorrect == Spec => []TypeOK
  BY TypeInvariant, PTL DEF TypeInv

-----------------------------------------------------------------------------
(* What each kind of step does, for the invariants below.                  *)

(* A task's step changes no collection of the generators, and of the tasks *)
(* only its own, which was created and not finished: it returns a result   *)
(* or goes on.                                                             *)
GoesOn(e, n) ==
  /\ UNCHANGED result
  /\ \E t \in {"calling", "backoff"} : TaskBecomes(e, n, t)

Returns(e, n) ==
  \E r \in Results : TaskBecomes(e, n, "finished") /\ ResultBecomes(e, n, r)

LEMMA TaskStep ==
  ASSUME TypeOK, NEW e \in Executions, NEW n \in Nodes,
         First(e, n) \/ Answer(e, n) \/ Sleep(e, n)
  PROVE  /\ UNCHANGED generators
         /\ task[e][n] \in {"created", "calling", "backoff"}
         /\ GoesOn(e, n) \/ Returns(e, n)
<1>1. ASSUME NEW r \in Results, Return(e, n, r) PROVE Returns(e, n) /\ UNCHANGED generators
  BY <1>1, ReturnUpdate DEF Returns
<1>2. CASE Refuse(e, n) \/ CircuitOpen(e, n) \/ Fail(e, n)
  BY <1>1, <1>2 DEF Refuse, CircuitOpen, Fail, Results
<1>3. CASE Hit(e, n)
  <2>1. cache[Key(e, n)] \in Results
    BY <1>3 DEF Hit, Cached, TypeOK, Results
  <2> QED BY <1>1, <1>3, <2>1 DEF Hit
<1>4. CASE Succeed(e, n)
  <2>1. \E r \in Results : Return(e, n, r)
    BY <1>4 DEF Succeed, Results
  <2> QED BY <1>1, <1>4, <2>1 DEF Succeed
<1>5. CASE Call(e, n) \/ Retry(e, n) \/ Sleep(e, n)
  <2>1. \E t \in {"calling", "backoff"} : task' = [task EXCEPT ![e][n] = t]
    BY <1>5 DEF Call, Retry, Sleep
  <2>2. \E t \in {"calling", "backoff"} : TaskBecomes(e, n, t)
    BY <2>1, TaskUpdate
  <2> QED BY <1>5, <2>2 DEF GoesOn, Call, Retry, Sleep
<1> QED BY <1>2, <1>3, <1>4, <1>5 DEF First, Answer

(* The other steps leave generators and tasks alone.                       *)
LEMMA OtherStep ==
  ASSUME \/ \E s \in Skills : RecoveryTimeout(s)
         \/ \E k \in DOMAIN cache : Expire(k)
         \/ AllOver
         \/ UNCHANGED vars
  PROVE  UNCHANGED <<generators, tasks>>
  BY DEF RecoveryTimeout, Expire, AllOver, vars

(* A generator's step.                                                     *)
Starts(e, S) ==
  /\ AtLoopHead(e)
  /\ FirstReady(e, S)
  /\ S \subseteq pending[e]
  /\ inFlight[e] \cup S # {}
  /\ pending' = [pending EXCEPT ![e] = @ \ S]
  /\ inFlight' = [inFlight EXCEPT ![e] = @ \cup S]
  /\ phase' = [phase EXCEPT ![e] = "waiting"]
  /\ \A u \in Executions, v \in Nodes :
       task'[u][v] = IF u = e /\ v \in S THEN "created" ELSE task[u][v]
  /\ UNCHANGED <<done, completed, result>>

Stops(e) ==
  /\ phase[e] = "yielded"
  /\ \/ AtLoopHead(e) /\ phase' = [phase EXCEPT ![e] = "raised"]
     \/ AtLoopHead(e) /\ phase' = [phase EXCEPT ![e] = "ended"]
     \/ phase' = [phase EXCEPT ![e] = "abandoned"]
  /\ UNCHANGED <<pending, inFlight, done, completed, tasks>>

LEMMA GeneratorStep ==
  ASSUME TypeOK, NEW e \in Executions, Advance(e) \/ Abandon(e)
  PROVE  /\ UNCHANGED <<breakers, cache, result>>
         /\ \/ \E S \in SUBSET Nodes : Starts(e, S)
            \/ Stops(e)
            \/ Wake(e) \/ Report(e)
<1>1. CASE Schedule(e)
  <2>1. PICK S \in SUBSET pending[e] :
          /\ FirstReady(e, S)
          /\ inFlight[e] \cup S # {}
          /\ pending' = [pending EXCEPT ![e] = @ \ S]
          /\ inFlight' = [inFlight EXCEPT ![e] = @ \cup S]
          /\ task' = [task EXCEPT ![e] = [n \in Nodes |-> IF n \in S THEN "created" ELSE @[n]]]
    BY <1>1 DEF Schedule
  <2>2. S \subseteq Nodes
    BY DEF TypeOK
  <2>3. \A u \in Executions, v \in Nodes :
          task'[u][v] = IF u = e /\ v \in S THEN "created" ELSE task[u][v]
    BY <2>1 DEF TypeOK
  <2>4. Starts(e, S)
    BY <1>1, <2>1, <2>3 DEF Schedule, Starts
  <2> QED BY <1>1, <2>2, <2>4 DEF Schedule
<1>2. CASE Raise(e) \/ End(e) \/ Abandon(e)
  BY <1>2 DEF Stops, Raise, End, Abandon, AtLoopHead, tasks
<1>3. CASE Wake(e) \/ Report(e)
  BY <1>3 DEF Wake, Report, Yield, tasks
<1> QED BY <1>1, <1>2, <1>3 DEF Advance

-----------------------------------------------------------------------------
(* Where the nodes are.                                                    *)

LEMMA AccountedInit == Init => Accounted
  BY DEF Init, Accounted

LEMMA NotYetIsNoResult == NotYet \notin Results
  BY ExecutorAssumption DEF Results, NotYet, Failed, NoData

(* Accounted speaks of one execution at a time.                            *)
AccountedFor(e) ==
  /\ pending[e] \cup inFlight[e] \cup completed[e] = Nodes
  /\ pending[e] \cap inFlight[e] = {}
  /\ pending[e] \cap completed[e] = {}
  /\ inFlight[e] \cap completed[e] = {}
  /\ done[e] \subseteq inFlight[e]
  /\ phase[e] # "yielded" /\ phase[e] # "abandoned" => done[e] = {}
  /\ \A n \in Nodes :
       /\ task[e][n] = "none" <=> n \in pending[e]
       /\ task[e][n] = "finished" <=> result[e][n] # NotYet
       /\ n \in completed[e] \cup done[e] => task[e][n] = "finished"

LEMMA AccountedIsAll == Accounted <=> \A e \in Executions : AccountedFor(e)
  BY DEF Accounted, AccountedFor

LEMMA GeneratorAccounted ==
  ASSUME TypeOK, Accounted, NEW e \in Executions, Advance(e) \/ Abandon(e)
  PROVE  Accounted'
<1>1. \A u \in Executions : AccountedFor(u)
  BY AccountedIsAll
<1>2. ASSUME NEW S \in SUBSET Nodes, Starts(e, S), NEW u \in Executions PROVE AccountedFor(u)'
  <2>1. CASE u = e
    <3>1. /\ pending'[u] = pending[u] \ S
          /\ inFlight'[u] = inFlight[u] \cup S
          /\ phase'[u] = "waiting"
      BY <1>2, <2>1 DEF Starts, TypeOK
    <3>2. S \subseteq pending[u] /\ done'[u] = {} /\ completed'[u] = completed[u] /\ result' = result
      BY <1>2, <2>1 DEF Starts, AtLoopHead
    <3>3. \A v \in Nodes : task'[u][v] = IF v \in S THEN "created" ELSE task[u][v]
      BY <1>2, <2>1 DEF Starts
    <3>4. \A v \in Nodes :
            /\ task'[u][v] = "none" <=> v \in pending'[u]
            /\ task'[u][v] = "finished" <=> result'[u][v] # NotYet
            /\ v \in completed'[u] \cup done'[u] => task'[u][v] = "finished"
      BY <1>1, <3>1, <3>2, <3>3 DEF AccountedFor
    <3> QED BY <1>1, <3>1, <3>2, <3>4 DEF AccountedFor
  <2>2. CASE u # e
    <3>1. /\ pending'[u] = pending[u] /\ inFlight'[u] = inFlight[u] /\ phase'[u] = phase[u]
          /\ done'[u] = done[u] /\ completed'[u] = completed[u] /\ result' = result
          /\ \A v \in Nodes : task'[u][v] = task[u][v]
      BY <1>2, <2>2 DEF Starts, TypeOK
    <3> QED BY <1>1, <3>1 DEF AccountedFor
  <2> QED BY <2>1, <2>2
<1>3. ASSUME Stops(e), NEW u \in Executions PROVE AccountedFor(u)'
  <2>1. \/ phase'[u] = phase[u]
        \/ phase'[u] = "abandoned"
        \/ u = e /\ done[u] = {}
    BY <1>3 DEF Stops, AtLoopHead, TypeOK
  <2>2. UNCHANGED <<pending, inFlight, done, completed, task, result>>
    BY <1>3 DEF Stops, tasks
  <2> QED BY <1>1, <2>1, <2>2 DEF AccountedFor
<1>4. ASSUME Wake(e) \/ Report(e), NEW u \in Executions PROVE AccountedFor(u)'
  <2>1. PICK from \in SUBSET Nodes, n \in Nodes :
          /\ n \in from
          /\ Yield(e, n, from \ {n})
          /\ \/ phase[e] = "waiting" /\ from = Finished(e)
             \/ phase[e] = "yielded" /\ from = done[e]
    BY <1>4, Yields
  <2>2. UNCHANGED <<pending, task, result>>
    BY <2>1 DEF Yield, tasks
  <2>3. CASE u = e
    <3>1. from \subseteq inFlight[u] /\ \A v \in from : task[u][v] = "finished"
      BY <1>1, <2>1, <2>3 DEF Finished, AccountedFor
    <3>2. /\ inFlight'[u] = inFlight[u] \ {n}
          /\ completed'[u] = completed[u] \cup {n}
          /\ done'[u] = from \ {n}
          /\ phase'[u] = "yielded"
      BY <2>1, <2>3 DEF Yield, TypeOK
    <3> QED BY <1>1, <2>1, <2>2, <3>1, <3>2 DEF AccountedFor
  <2>4. CASE u # e
    <3>1. /\ inFlight'[u] = inFlight[u] /\ completed'[u] = completed[u]
          /\ done'[u] = done[u] /\ phase'[u] = phase[u]
      BY <2>1, <2>4 DEF Yield, TypeOK
    <3> QED BY <1>1, <2>2, <3>1 DEF AccountedFor
  <2> QED BY <2>3, <2>4
<1>5. \A u \in Executions : AccountedFor(u)'
  BY <1>2, <1>3, <1>4, GeneratorStep
<1> QED BY <1>5, AccountedIsAll DEF Accounted, AccountedFor

LEMMA TaskAccounted ==
  ASSUME TypeOK, Accounted, NEW e \in Executions, NEW n \in Nodes,
         First(e, n) \/ Answer(e, n) \/ Sleep(e, n)
  PROVE  Accounted'
<1>1. UNCHANGED <<phase, pending, inFlight, done, completed>>
  BY TaskStep DEF generators
<1>2. task[e][n] \in {"created", "calling", "backoff"}
  BY TaskStep
<1>3. \/ /\ result' = result
         /\ \E t \in {"calling", "backoff"} : TaskBecomes(e, n, t)
      \/ \E r \in Results : TaskBecomes(e, n, "finished") /\ ResultBecomes(e, n, r)
  BY TaskStep DEF GoesOn, Returns
<1>4. ASSUME NEW u \in Executions, NEW v \in Nodes
      PROVE  /\ task'[u][v] = "none" <=> task[u][v] = "none"
             /\ task'[u][v] = "finished" <=> result'[u][v] # NotYet
             /\ task[u][v] = "finished" => task'[u][v] = "finished"
  <2>1. task[u][v] = "finished" <=> result[u][v] # NotYet
    BY DEF Accounted
  <2> QED BY <1>2, <1>3, <2>1, NotYetIsNoResult DEF TaskBecomes, ResultBecomes
<1> QED BY <1>1, <1>4 DEF Accounted

LEMMA AccountedStep == TypeOK /\ Accounted /\ [Next]_vars => Accounted'
<1> SUFFICES ASSUME TypeOK, Accounted, [Next]_vars PROVE Accounted'
  OBVIOUS
<1>1. CASE UNCHANGED <<generators, tasks>>
  BY <1>1 DEF Accounted, generators, tasks
<1> QED BY <1>1, GeneratorAccounted, TaskAccounted, OtherStep DEF Next

LEMMA AccountedInvariant == Spec => [](TypeInv /\ Accounted)
<1>1. Init => TypeInv /\ Accounted
  BY TypeInit, AccountedInit
<1>2. TypeInv /\ Accounted /\ [Next]_vars => (TypeInv /\ Accounted)'
  BY TypeStep, AccountedStep DEF TypeInv
<1> QED BY <1>1, <1>2, PTL DEF Spec

(* No node is lost, run twice or reported twice, for any plan and however  *)
(* many tasks finish at once; tasks agree with the collections.            *)
THEOREM AccountedHolds == Spec => []Accounted
  BY AccountedInvariant, PTL

-----------------------------------------------------------------------------
(* Scheduling.                                                             *)

LEMMA NoSlotInit == Init => NoSlotWasted
  BY DEF Init, NoSlotWasted

(* Schedule is what makes it true; while a generator waits only its tasks  *)
(* move, and they are in none of its collections.                          *)
LEMMA NoSlotStep == TypeOK /\ NoSlotWasted /\ [Next]_vars => NoSlotWasted'
<1> SUFFICES ASSUME TypeOK, NoSlotWasted, [Next]_vars, NEW u \in Executions, phase'[u] = "waiting"
             PROVE  /\ inFlight'[u] # {}
                    /\ Cardinality(inFlight'[u]) <= MaxConcurrency
                    /\ Ready(u)' = {} \/ Cardinality(inFlight'[u]) = MaxConcurrency
  BY DEF NoSlotWasted
<1>1. CASE /\ pending'[u] = pending[u] /\ inFlight'[u] = inFlight[u]
           /\ completed'[u] = completed[u] /\ phase'[u] = phase[u]
  BY <1>1 DEF NoSlotWasted, Ready
<1>2. CASE UNCHANGED generators
  BY <1>1, <1>2 DEF generators
<1>3. ASSUME NEW e \in Executions, Advance(e) \/ Abandon(e)
      PROVE  /\ inFlight'[u] # {}
             /\ Cardinality(inFlight'[u]) <= MaxConcurrency
             /\ Ready(u)' = {} \/ Cardinality(inFlight'[u]) = MaxConcurrency
  <2>1. ASSUME NEW S \in SUBSET Nodes, Starts(e, S), u = e
        PROVE  /\ inFlight'[u] # {}
               /\ Cardinality(inFlight'[u]) <= MaxConcurrency
               /\ Ready(u)' = {} \/ Cardinality(inFlight'[u]) = MaxConcurrency
    <3>1. inFlight'[u] = inFlight[u] \cup S /\ pending'[u] = pending[u] \ S /\ completed' = completed
      BY <2>1 DEF Starts, TypeOK
    <3>2. Cardinality(inFlight'[u]) <= MaxConcurrency /\ inFlight'[u] # {}
      BY <2>1, <3>1 DEF Starts, FirstReady
    <3>3. CASE S = Ready(u)
      <4>1. Ready(u)' = {}
        BY <3>1, <3>3 DEF Ready
      <4> QED BY <3>2, <4>1
    <3>4. CASE S # Ready(u)
      BY <2>1, <3>1, <3>2, <3>4 DEF Starts, FirstReady
    <3> QED BY <3>3, <3>4
  <2>2. ASSUME NEW S \in SUBSET Nodes, Starts(e, S), u # e
        PROVE  /\ pending'[u] = pending[u] /\ inFlight'[u] = inFlight[u]
               /\ completed'[u] = completed[u] /\ phase'[u] = phase[u]
    BY <2>2 DEF Starts, TypeOK
  <2>3. ASSUME Stops(e)
        PROVE  /\ pending'[u] = pending[u] /\ inFlight'[u] = inFlight[u]
               /\ completed'[u] = completed[u] /\ phase'[u] = phase[u]
    BY <2>3 DEF Stops, TypeOK
  <2>4. ASSUME Wake(e) \/ Report(e)
        PROVE  /\ pending'[u] = pending[u] /\ inFlight'[u] = inFlight[u]
               /\ completed'[u] = completed[u] /\ phase'[u] = phase[u]
    <3>1. PICK from \in SUBSET Nodes, n \in Nodes : Yield(e, n, from \ {n})
      BY <2>4, Yields
    <3>2. u # e
      BY <3>1 DEF Yield, TypeOK
    <3> QED BY <3>1, <3>2 DEF Yield, TypeOK
  <2> QED BY <1>1, <1>3, <2>1, <2>2, <2>3, <2>4, GeneratorStep
<1>4. CASE \E e \in Executions, n \in Nodes : First(e, n) \/ Answer(e, n) \/ Sleep(e, n)
  BY <1>2, <1>4, TaskStep
<1> QED BY <1>2, <1>3, <1>4, OtherStep DEF Next

(* A generator that waits has something in flight, keeps to the limit and  *)
(* leaves no ready node behind while a slot is free, whatever the plan.    *)
THEOREM NoSlotWastedHolds == Spec => []NoSlotWasted
<1>1. Init => TypeInv /\ NoSlotWasted
  BY TypeInit, NoSlotInit
<1>2. TypeInv /\ NoSlotWasted /\ [Next]_vars => (TypeInv /\ NoSlotWasted)'
  BY TypeStep, NoSlotStep DEF TypeInv
<1> QED BY <1>1, <1>2, PTL DEF Spec

(* With nothing ready and nothing in flight, the nodes left wait for each  *)
(* other.                                                                  *)
LEMMA StuckIsCircular ==
  ASSUME TypeOK, Accounted, NEW e \in Executions, pending[e] # {}, Ready(e) = {}, inFlight[e] = {}
  PROVE  Circular(pending[e])
<1>1. pending[e] \in SUBSET Nodes /\ pending[e] \cup completed[e] = Nodes
  BY DEF TypeOK, Accounted
<1>2. ASSUME NEW n \in pending[e] PROVE Deps[n] \cap pending[e] # {}
  <2>1. Deps[n] \subseteq Nodes /\ ~(Deps[n] \subseteq completed[e])
    BY <1>1, ExecutorAssumption DEF Ready
  <2> QED BY <1>1, <2>1
<1> QED BY <1>2 DEF Circular

(* Nodes that wait for each other wait for ever.                           *)
CirclesWait ==
  \A e \in Executions, S \in SUBSET Nodes : Circular(S) => S \subseteq pending[e]

LEMMA CirclesStep == TypeOK /\ Accounted /\ CirclesWait /\ [Next]_vars => CirclesWait'
<1> SUFFICES ASSUME TypeOK, Accounted, CirclesWait, [Next]_vars PROVE CirclesWait'
  OBVIOUS
<1>1. CASE UNCHANGED pending
  BY <1>1 DEF CirclesWait, Circular
<1>2. ASSUME NEW e \in Executions, Advance(e) \/ Abandon(e) PROVE CirclesWait'
  <2>1. ASSUME NEW S \in SUBSET Nodes, Starts(e, S) PROVE CirclesWait'
    <3>1. \A u \in Executions : pending'[u] = IF u = e THEN pending[u] \ S ELSE pending[u]
      BY <2>1 DEF Starts, TypeOK
    <3>2. ASSUME NEW C \in SUBSET Nodes, Circular(C) PROVE C \cap S = {}
      <4>1. C \subseteq pending[e] /\ pending[e] \cap completed[e] = {}
        BY <3>2 DEF CirclesWait, Accounted
      <4>2. \A n \in S : Deps[n] \subseteq completed[e]
        BY <2>1 DEF Starts, FirstReady, Ready
      <4>3. \A n \in C : Deps[n] \cap C # {}
        BY <3>2 DEF Circular
      <4> QED BY <4>1, <4>2, <4>3
    <3>3. ASSUME NEW u \in Executions, NEW C \in SUBSET Nodes, Circular(C) PROVE C \subseteq pending'[u]
      BY <3>1, <3>2, <3>3 DEF CirclesWait
    <3> QED BY <3>3 DEF CirclesWait, Circular
  <2>2. CASE Stops(e) \/ Wake(e) \/ Report(e)
    BY <1>1, <2>2 DEF Stops, Wake, Report, Yield
  <2> QED BY <1>2, <2>1, <2>2, GeneratorStep
<1>3. CASE \E e \in Executions, n \in Nodes : First(e, n) \/ Answer(e, n) \/ Sleep(e, n)
  BY <1>1, <1>3, TaskStep DEF generators
<1> QED BY <1>1, <1>2, <1>3, OtherStep DEF Next, generators

(* A generator that has raised or ended has nothing left to do.            *)
VerdictStands ==
  \A e \in Executions :
    /\ phase[e] = "raised" => Circular(pending[e])
    /\ phase[e] = "ended" => pending[e] = {}

LEMMA VerdictStep == TypeOK /\ Accounted /\ VerdictStands /\ [Next]_vars => VerdictStands'
<1> SUFFICES ASSUME TypeOK, Accounted, VerdictStands, [Next]_vars PROVE VerdictStands'
  OBVIOUS
<1>1. CASE UNCHANGED <<phase, pending>>
  BY <1>1 DEF VerdictStands, Circular
<1>2. ASSUME NEW e \in Executions, Advance(e) \/ Abandon(e) PROVE VerdictStands'
  <2>1. ASSUME NEW S \in SUBSET Nodes, Starts(e, S) PROVE VerdictStands'
    <3>1. \A u \in Executions :
            IF u = e THEN phase'[u] = "waiting" ELSE phase'[u] = phase[u] /\ pending'[u] = pending[u]
      BY <2>1 DEF Starts, TypeOK
    <3> QED BY <3>1 DEF VerdictStands, Circular
  <2>2. CASE Raise(e) \/ End(e) \/ Abandon(e)
    <3>1. pending' = pending /\ \A u \in Executions : u # e => phase'[u] = phase[u]
      BY <2>2 DEF Raise, End, Abandon, TypeOK
    <3>2. \/ phase'[e] = "raised" /\ Circular(pending[e])
          \/ phase'[e] = "ended" /\ pending[e] = {}
          \/ phase'[e] = "abandoned"
      BY <2>2, StuckIsCircular DEF Raise, End, Abandon, TypeOK
    <3> QED BY <3>1, <3>2 DEF VerdictStands, Circular
  <2>3. CASE Wake(e) \/ Report(e)
    <3>1. PICK from \in SUBSET Nodes, n \in Nodes : Yield(e, n, from \ {n})
      BY <2>3, Yields
    <3>2. pending' = pending /\ \A u \in Executions : phase'[u] = IF u = e THEN "yielded" ELSE phase[u]
      BY <3>1 DEF Yield, TypeOK
    <3> QED BY <3>2 DEF VerdictStands, Circular
  <2>4. CASE Schedule(e)
    <3>1. \/ \E S \in SUBSET Nodes : Starts(e, S)
          \/ phase'[e] = "waiting" /\ Stops(e)
          \/ Wake(e) \/ Report(e)
      BY <2>4, GeneratorStep DEF Schedule, TypeOK, Advance
    <3>2. ~(phase'[e] = "waiting" /\ Stops(e))
      BY DEF Stops, TypeOK
    <3> QED BY <2>1, <2>3, <3>1, <3>2
  <2> QED BY <1>2, <2>2, <2>3, <2>4 DEF Advance
<1>3. CASE \E e \in Executions, n \in Nodes : First(e, n) \/ Answer(e, n) \/ Sleep(e, n)
  BY <1>1, <1>3, TaskStep DEF generators
<1> QED BY <1>1, <1>2, <1>3, OtherStep DEF Next, generators

(* The executor calls a plan circular only if the nodes it has left wait   *)
(* for each other, whichever nodes failed, and never ends a circular plan  *)
(* normally.                                                               *)
THEOREM CircularVerdictHolds == Spec => []CircularVerdict
<1> DEFINE Inv == TypeInv /\ Accounted /\ CirclesWait /\ VerdictStands
<1>1. Init => Inv
  <2>1. Init => CirclesWait /\ VerdictStands
    BY DEF Init, CirclesWait, VerdictStands
  <2> QED BY <2>1, TypeInit, AccountedInit
<1>2. Inv /\ [Next]_vars => Inv'
  BY TypeStep, AccountedStep, CirclesStep, VerdictStep DEF TypeInv
<1>3. Inv => CircularVerdict
  BY DEF CirclesWait, VerdictStands, CircularVerdict, Circular
<1> QED BY <1>1, <1>2, <1>3, PTL DEF Spec

-----------------------------------------------------------------------------
(* The executor implements the abstract run of a plan.                     *)

LEMMA PlanInit == Init => Plan!Init
  BY DEF Init, Plan!Init

LEMMA PlanStart ==
  ASSUME TypeOK, Accounted, NEW e \in Executions, NEW S \in SUBSET Nodes, Starts(e, S)
  PROVE  [Plan!Next]_<<inFlight, completed>>
<1>1. CASE S = {}
  BY <1>1 DEF Starts, TypeOK
<1>2. CASE S # {}
  <2>1. S \subseteq pending[e] /\ \A n \in S : Deps[n] \subseteq completed[e]
    BY DEF Starts, FirstReady, Ready
  <2>2. S \cap (inFlight[e] \cup completed[e]) = {}
    BY <2>1 DEF Accounted
  <2>3. Cardinality(inFlight[e] \cup S) = Plan!Cardinality(inFlight[e] \cup S)
    BY Zenon DEF Cardinality, Plan!Cardinality
  <2>4. Plan!Start(e, S)
    BY <1>2, <2>1, <2>2, <2>3 DEF Starts, FirstReady, Plan!Start
  <2> QED BY <2>4 DEF Plan!Next
<1> QED BY <1>1, <1>2

LEMMA PlanStep == TypeOK /\ Accounted /\ [Next]_vars => [Plan!Next]_<<inFlight, completed>>
<1> SUFFICES ASSUME TypeOK, Accounted, [Next]_vars PROVE [Plan!Next]_<<inFlight, completed>>
  OBVIOUS
<1>1. CASE UNCHANGED generators
  BY <1>1 DEF generators
<1>2. ASSUME NEW e \in Executions, Advance(e) \/ Abandon(e)
      PROVE  [Plan!Next]_<<inFlight, completed>>
  <2>1. CASE Stops(e)
    BY <2>1 DEF Stops
  <2>2. CASE Wake(e) \/ Report(e)
    <3>1. PICK from \in SUBSET Nodes, n \in Nodes :
            /\ n \in from
            /\ Yield(e, n, from \ {n})
            /\ \/ phase[e] = "waiting" /\ from = Finished(e)
               \/ phase[e] = "yielded" /\ from = done[e]
      BY <2>2, Yields
    <3>2. n \in inFlight[e]
      BY <3>1 DEF Finished, Accounted
    <3>3. Plan!Finish(e, n)
      BY <3>1, <3>2 DEF Yield, Plan!Finish
    <3> QED BY <3>3 DEF Plan!Next
  <2> QED BY <1>2, <2>1, <2>2, PlanStart, GeneratorStep
<1>3. CASE \E e \in Executions, n \in Nodes : First(e, n) \/ Answer(e, n) \/ Sleep(e, n)
  BY <1>1, <1>3, TaskStep
<1> QED BY <1>1, <1>2, <1>3, OtherStep DEF Next

(* For any number of executions, any plan and any limit: each execution    *)
(* runs each node at most once, never more than the limit at a time, and   *)
(* none before the nodes it depends on are completed.                      *)
THEOREM ImplementsDagHolds == Spec => ImplementsDag
<1>1. Init => Plan!Init
  BY PlanInit
<1>2. TypeInv /\ Accounted /\ [Next]_vars => [Plan!Next]_Plan!rvars
  BY PlanStep DEF TypeInv, Plan!rvars
<1> QED BY <1>1, <1>2, AccountedInvariant, PTL DEF Spec, ImplementsDag, Plan!Spec

-----------------------------------------------------------------------------
(* Breakers.                                                               *)

ProbeOut == \A s \in Skills : breakers[s].state = "half_open" => Asking(s) # {}

(* A task's step takes no other task out of those that ask.                *)
LEMMA AskingKept ==
  ASSUME NEW e \in Executions, NEW n \in Nodes, NEW t, TaskBecomes(e, n, t),
         NEW s \in Skills, Asking(s) # {},
         t \in {"calling", "backoff"} \/ task[e][n] = "created" \/ Skill[n] # s
  PROVE  Asking(s)' # {}
<1>1. PICK p \in Executions \X Nodes : Skill[p[2]] = s /\ task[p[1]][p[2]] \in {"calling", "backoff"}
  BY DEF Asking
<1>2. task'[p[1]][p[2]] \in {"calling", "backoff"}
  BY <1>1 DEF TaskBecomes
<1> QED BY <1>1, <1>2 DEF Asking

LEMMA TaskProbe ==
  ASSUME TypeInv, ProbeOut, NEW e \in Executions, NEW n \in Nodes,
         First(e, n) \/ Answer(e, n) \/ Sleep(e, n)
  PROVE  ProbeOut'
<1> DEFINE q == Skill[n]
<1>1. q \in Skills /\ BreakersTyped(breakers) /\ TypeOK /\ breakers \in [Skills -> Breaker]
  BY SkillOf DEF TypeInv, TypeOK, BreakersTyped
<1>2. ASSUME UNCHANGED breakers, NEW t, TaskBecomes(e, n, t),
             t \in {"calling", "backoff"} \/ task[e][n] = "created"
      PROVE  ProbeOut'
  BY <1>2, AskingKept DEF ProbeOut
<1>3. CASE Refuse(e, n) \/ Hit(e, n)
  <2>1. TaskBecomes(e, n, "finished")
    BY <1>1, <1>3, TaskUpdate DEF Refuse, Hit, Return
  <2> QED BY <1>2, <1>3, <2>1 DEF Refuse, Hit
<1>4. CASE Retry(e, n) \/ Sleep(e, n)
  <2>1. \E t \in {"calling", "backoff"} : TaskBecomes(e, n, t)
    BY <1>1, <1>4, TaskUpdate DEF Retry, Sleep
  <2> QED BY <1>2, <1>4, <2>1 DEF Retry, Sleep
<1>5. CASE CircuitOpen(e, n) \/ Call(e, n)
  <2>1. /\ breakers' = [breakers EXCEPT ![q] = AfterRequest(breakers[q])]
        /\ breakers[q] \in Breaker /\ Sound(breakers[q])
    BY <1>1, <1>5 DEF CircuitOpen, Call, AskBreaker, BreakersTyped
  <2>2. \A s \in Skills : s # q => breakers'[s] = breakers[s]
    BY <1>1, <2>1
  <2>3. breakers'[q].state = "half_open" => breakers[q].state = "half_open" \/ Allows(breakers[q])
    BY <1>1, <2>1, RequestSound
  <2>4. PICK t : TaskBecomes(e, n, t) /\ task[e][n] = "created" /\ (Allows(breakers[q]) => t = "calling")
    BY <1>1, <1>5, TaskUpdate DEF CircuitOpen, Call, Return
  <2>5. ASSUME NEW s \in Skills, breakers'[s].state = "half_open" PROVE Asking(s)' # {}
    <3>1. CASE breakers[s].state = "half_open"
      BY <2>4, <3>1, AskingKept DEF ProbeOut
    <3>2. CASE breakers[s].state # "half_open"
      <4>1. s = q /\ t = "calling"
        BY <2>2, <2>3, <2>4, <2>5, <3>2
      <4>2. <<e, n>> \in Asking(s)'
        BY <2>4, <4>1 DEF Asking, TaskBecomes
      <4> QED BY <4>2
    <3> QED BY <3>1, <3>2
  <2> QED BY <2>5 DEF ProbeOut
<1>6. CASE Succeed(e, n) \/ Fail(e, n)
  <2>1. \/ breakers' = [breakers EXCEPT ![q] = RecordSuccess(@)]
        \/ breakers' = [breakers EXCEPT ![q] = RecordFailure(@)]
    BY <1>6 DEF Succeed, Fail
  <2>2. breakers'[q].state # "half_open"
    BY <1>1, <2>1, AnswerTyped
  <2>3. \A s \in Skills : s # q => breakers'[s] = breakers[s]
    BY <1>1, <2>1
  <2>4. TaskBecomes(e, n, "finished")
    BY <1>1, <1>6, TaskUpdate DEF Succeed, Fail, Return
  <2> QED BY <2>2, <2>3, <2>4, AskingKept DEF ProbeOut
<1> QED BY <1>3, <1>4, <1>5, <1>6 DEF First, Answer

LEMMA ProbeStep == TypeInv /\ Accounted /\ ProbeOut /\ [Next]_vars => ProbeOut'
<1> SUFFICES ASSUME TypeInv, TypeOK, Accounted, ProbeOut, [Next]_vars PROVE ProbeOut'
  BY DEF TypeInv
<1>1. ASSUME UNCHANGED <<breakers, task>> PROVE ProbeOut'
  BY <1>1 DEF ProbeOut, Asking
<1>2. ASSUME NEW e \in Executions, Advance(e) \/ Abandon(e) PROVE ProbeOut'
  <2>1. UNCHANGED breakers
    BY <1>2, GeneratorStep
  <2>2. ASSUME NEW S \in SUBSET Nodes, Starts(e, S) PROVE ProbeOut'
    <3>1. \A u \in Executions, v \in Nodes :
            task[u][v] \in {"calling", "backoff"} => task'[u][v] = task[u][v]
      BY <2>2 DEF Starts, Accounted
    <3>2. \A s \in Skills : Asking(s) \subseteq Asking(s)'
      BY <3>1 DEF Asking
    <3> QED BY <2>1, <3>2 DEF ProbeOut
  <2>3. CASE Stops(e)
    BY <1>1, <2>1, <2>3 DEF Stops, tasks
  <2>4. CASE Wake(e) \/ Report(e)
    BY <1>1, <2>1, <2>4 DEF Wake, Report, Yield, tasks
  <2> QED BY <1>2, <2>2, <2>3, <2>4, GeneratorStep
<1>3. ASSUME NEW s \in Skills, RecoveryTimeout(s) PROVE ProbeOut'
  <2>1. breakers \in [Skills -> Breaker] /\ Sound(breakers[s]) /\ UNCHANGED task
    BY <1>3 DEF TypeInv, TypeOK, RecoveryTimeout, tasks
  <2>2. breakers' = [breakers EXCEPT ![s] = Cooled(breakers[s])]
    BY <1>3 DEF RecoveryTimeout
  <2>3. \A u \in Skills : breakers'[u].state = breakers[u].state
    BY <2>1, <2>2, CooledSound
  <2> QED BY <2>1, <2>3 DEF ProbeOut, Asking
<1>4. CASE (\E k \in DOMAIN cache : Expire(k)) \/ AllOver \/ UNCHANGED vars
  BY <1>1, <1>4 DEF Expire, AllOver, vars, tasks
<1> QED BY <1>2, <1>3, <1>4, TaskProbe DEF Next

(* Every breaker is closed exactly while it counts fewer failures than its *)
(* threshold, and a half-open one has a request out that will answer, with *)
(* any number of executions, whatever order answers come in and however    *)
(* many generators were given up.                                          *)
THEOREM BreakersSoundHolds == Spec => []BreakersSound
<1> DEFINE Inv == TypeInv /\ Accounted /\ ProbeOut
<1>1. Init => Inv
  <2>1. Init => ProbeOut
    BY ClosedSound DEF Init, ProbeOut
  <2> QED BY <2>1, TypeInit, AccountedInit
<1>2. Inv /\ [Next]_vars => Inv'
  BY ProbeStep, TypeStep, AccountedStep DEF TypeInv
<1>3. Inv => BreakersSound
  BY DEF TypeInv, ProbeOut, BreakersSound, Sound
<1> QED BY <1>1, <1>2, <1>3, PTL DEF Spec

-----------------------------------------------------------------------------
(* The node cache.                                                         *)

(* What the task of a node read is what its dependencies returned for good.*)
DependenciesFirst ==
  \A e \in Executions, n \in Nodes : n \notin pending[e] => Deps[n] \subseteq completed[e]

(* The outputs that the dependencies of n have in execution e.             *)
Inputs(e, n) == [d \in Deps[n] |-> result[e][d]]

(* An entry holds what its execution computed from the outputs in its key. *)
EntryTrue(k, by) ==
  \E n \in Nodes :
    /\ k = CacheKey(n, Inputs(by, n))
    /\ result[by][n] = by
    /\ \A d \in Deps[n] : result[by][d] # NotYet

EntriesTrue == \A k \in DOMAIN cache : EntryTrue(k, cache[k])

(* CachedFitsInputs, for one node of one execution.                        *)
Fits(e, n) ==
  result[e][n] \in Executions =>
    /\ result[result[e][n]][n] = result[e][n]
    /\ \A d \in Deps[n] : result[result[e][n]][d] = result[e][d]

LEMMA DependenciesStep ==
  TypeOK /\ Accounted /\ DependenciesFirst /\ [Next]_vars => DependenciesFirst'
<1> SUFFICES ASSUME TypeOK, Accounted, DependenciesFirst, [Next]_vars PROVE DependenciesFirst'
  OBVIOUS
<1>1. CASE UNCHANGED <<pending, completed>>
  BY <1>1 DEF DependenciesFirst
<1>2. ASSUME NEW e \in Executions, Advance(e) \/ Abandon(e) PROVE DependenciesFirst'
  <2>1. ASSUME NEW S \in SUBSET Nodes, Starts(e, S) PROVE DependenciesFirst'
    <3>1. completed' = completed /\ \A n \in S : Deps[n] \subseteq completed[e]
      BY <2>1 DEF Starts, FirstReady, Ready
    <3>2. \A u \in Executions : pending'[u] = IF u = e THEN pending[u] \ S ELSE pending[u]
      BY <2>1 DEF Starts, TypeOK
    <3> QED BY <3>1, <3>2 DEF DependenciesFirst
  <2>2. CASE Stops(e)
    BY <1>1, <2>2 DEF Stops
  <2>3. CASE Wake(e) \/ Report(e)
    <3>1. PICK from \in SUBSET Nodes, n \in Nodes : Yield(e, n, from \ {n})
      BY <2>3, Yields
    <3>2. pending' = pending /\ \A u \in Executions : completed[u] \subseteq completed'[u]
      BY <3>1 DEF Yield, TypeOK
    <3> QED BY <3>2 DEF DependenciesFirst
  <2> QED BY <1>2, <2>1, <2>2, <2>3, GeneratorStep
<1>3. CASE \E e \in Executions, n \in Nodes : First(e, n) \/ Answer(e, n) \/ Sleep(e, n)
  BY <1>1, <1>3, TaskStep DEF generators
<1> QED BY <1>1, <1>2, <1>3, OtherStep DEF Next, generators

(* A result stays, and what depends on it was read after it came.          *)
LEMMA ResultKept ==
  ASSUME TypeOK, Accounted, NEW e \in Executions, NEW n \in Nodes,
         First(e, n) \/ Answer(e, n) \/ Sleep(e, n)
  PROVE  /\ result[e][n] = NotYet
         /\ \A u \in Executions, v \in Nodes : ~(u = e /\ v = n) => result'[u][v] = result[u][v]
<1>1. task[e][n] \in {"created", "calling", "backoff"}
  BY TaskStep
<1>2. result[e][n] = NotYet
  BY <1>1 DEF Accounted
<1>3. GoesOn(e, n) \/ Returns(e, n)
  BY TaskStep
<1> QED BY <1>2, <1>3 DEF GoesOn, Returns, ResultBecomes

LEMMA InputsKnown ==
  ASSUME Accounted, DependenciesFirst, NEW e \in Executions, NEW n \in Nodes, n \notin pending[e]
  PROVE  /\ \A d \in Deps[n] : d \in Nodes /\ result[e][d] # NotYet
         /\ Outputs(e, n) = Inputs(e, n)
<1>1. Deps[n] \subseteq completed[e] /\ Deps[n] \subseteq Nodes
  BY ExecutorAssumption DEF DependenciesFirst
<1>2. \A d \in Deps[n] : result[e][d] # NotYet
  BY <1>1 DEF Accounted
<1>3. Deps[n] \cap completed[e] = Deps[n]
  BY <1>1
<1> QED BY <1>1, <1>2, <1>3 DEF Outputs, Inputs

LEMMA EntryKept ==
  ASSUME TypeOK, Accounted, NEW e \in Executions, NEW n \in Nodes,
         First(e, n) \/ Answer(e, n) \/ Sleep(e, n),
         NEW k, NEW by \in Executions, EntryTrue(k, by)
  PROVE  EntryTrue(k, by)'
<1>1. PICK m \in Nodes :
        /\ k = CacheKey(m, Inputs(by, m))
        /\ result[by][m] = by
        /\ \A d \in Deps[m] : result[by][d] # NotYet
  BY DEF EntryTrue
<1>2. by # NotYet /\ Deps[m] \subseteq Nodes
  BY ExecutorAssumption
<1>3. result'[by][m] = by /\ \A d \in Deps[m] : result'[by][d] = result[by][d]
  BY <1>1, <1>2, ResultKept
<1>4. Inputs(by, m)' = Inputs(by, m)
  BY <1>3 DEF Inputs
<1> QED BY <1>1, <1>3, <1>4 DEF EntryTrue, CacheKey

LEMMA FitsKept ==
  ASSUME TypeOK, Accounted, DependenciesFirst, CachedFitsInputs,
         NEW e \in Executions, NEW n \in Nodes,
         First(e, n) \/ Answer(e, n) \/ Sleep(e, n),
         NEW u \in Executions, NEW v \in Nodes, ~(u = e /\ v = n)
  PROVE  Fits(u, v)'
<1> SUFFICES ASSUME result'[u][v] \in Executions
             PROVE  /\ result'[result'[u][v]][v] = result'[u][v]
                    /\ \A d \in Deps[v] : result'[result'[u][v]][d] = result'[u][d]
  BY DEF Fits
<1> DEFINE by == result[u][v]
<1>1. result'[u][v] = by /\ by \in Executions /\ by # NotYet
  BY ResultKept, ExecutorAssumption
<1>2. result[by][v] = by /\ \A d \in Deps[v] : result[by][d] = result[u][d]
  BY <1>1 DEF CachedFitsInputs
<1>3. v \notin pending[u]
  BY <1>1 DEF Accounted
<1>4. \A d \in Deps[v] : d \in Nodes /\ result[u][d] # NotYet
  BY <1>3, InputsKnown
<1>5. result'[by][v] = by
  BY <1>1, <1>2, ResultKept
<1>6. \A d \in Deps[v] : result'[by][d] = result[by][d] /\ result'[u][d] = result[u][d]
  BY <1>1, <1>2, <1>4, ResultKept
<1> HIDE DEF by
<1> QED BY <1>1, <1>2, <1>5, <1>6

(* The one new result, by the way it came.                                 *)
LEMMA FitsNew ==
  ASSUME TypeOK, Accounted, DependenciesFirst, EntriesTrue, CachedFitsInputs,
         NEW e \in Executions, NEW n \in Nodes,
         First(e, n) \/ Answer(e, n) \/ Sleep(e, n)
  PROVE  Fits(e, n)'
<1>1. result[e][n] = NotYet /\ NotYet \notin Executions /\ n \notin pending[e]
  BY ResultKept, TaskStep, ExecutorAssumption DEF Accounted
<1>2. \A d \in Deps[n] : d \in Nodes /\ result[e][d] # NotYet
  BY <1>1, InputsKnown
<1>3. \A d \in Deps[n] : result'[e][d] = result[e][d]
  BY <1>1, <1>2, ResultKept
<1>4. ASSUME NEW r \in Results, Return(e, n, r) PROVE result'[e][n] = r
  BY <1>4, ReturnUpdate DEF ResultBecomes
<1>5. CASE Refuse(e, n) \/ CircuitOpen(e, n) \/ Fail(e, n)
  <2>1. result'[e][n] = Failed /\ Failed \notin Executions
    BY <1>4, <1>5, ExecutorAssumption DEF Refuse, CircuitOpen, Fail, Results
  <2> QED BY <2>1 DEF Fits
<1>6. CASE Hit(e, n)
  <2> DEFINE k == Key(e, n)
             by == cache[k]
  <2>1. k \in DOMAIN cache /\ by \in Executions /\ Return(e, n, by)
    BY <1>6 DEF Hit, Cached, TypeOK
  <2>2. EntryTrue(k, by)
    BY <2>1 DEF EntriesTrue
  <2>3. PICK m \in Nodes :
          /\ k = CacheKey(m, Inputs(by, m))
          /\ result[by][m] = by
    BY <2>2 DEF EntryTrue
  <2>4. k = CacheKey(n, Inputs(e, n))
    BY <1>1, InputsKnown DEF Key
  <2>5. m = n /\ Inputs(by, n) = Inputs(e, n)
    BY <2>3, <2>4 DEF CacheKey
  <2>6. \A d \in Deps[n] : result[by][d] = result[e][d]
    BY <2>5 DEF Inputs
  <2>7. result'[e][n] = by
    BY <1>4, <2>1 DEF Results
  <2> HIDE DEF by
  <2>8. result[by][n] = by /\ by # e
    BY <1>1, <2>1, <2>3, <2>5
  <2>9. result'[by][n] = by /\ \A d \in Deps[n] : result'[by][d] = result[by][d]
    BY <1>2, <2>1, <2>8, ResultKept
  <2> QED BY <1>3, <2>6, <2>7, <2>9 DEF Fits
<1>7. CASE Succeed(e, n)
  <2>1. result'[e][n] = e \/ result'[e][n] = NoData
    BY <1>4, <1>7 DEF Succeed, Results
  <2>2. NoData \notin Executions
    BY ExecutorAssumption
  <2> QED BY <2>1, <2>2 DEF Fits
<1>8. CASE Call(e, n) \/ Retry(e, n) \/ Sleep(e, n)
  BY <1>1, <1>8 DEF Call, Retry, Sleep, Fits
<1> QED BY <1>5, <1>6, <1>7, <1>8 DEF First, Answer

LEMMA EntriesStep ==
  ASSUME TypeOK, Accounted, DependenciesFirst, EntriesTrue,
         NEW e \in Executions, NEW n \in Nodes,
         First(e, n) \/ Answer(e, n) \/ Sleep(e, n)
  PROVE  EntriesTrue'
<1>1. \A k \in DOMAIN cache : cache[k] \in Executions /\ EntryTrue(k, cache[k])
  BY DEF TypeOK, EntriesTrue
<1>2. \A k \in DOMAIN cache, by \in Executions : EntryTrue(k, by) => EntryTrue(k, by)'
  BY EntryKept
<1>3. CASE UNCHANGED cache
  BY <1>1, <1>2, <1>3 DEF EntriesTrue
<1>4. CASE Succeed(e, n) /\ cache' # cache
  <2> DEFINE new == Key(e, n)
  <2>1. /\ Return(e, n, e)
        /\ cache' = [k \in DOMAIN cache \cup {new} |-> IF k = new THEN e ELSE cache[k]]
    BY <1>4 DEF Succeed
  <2>2. result'[e][n] = e
    BY <2>1, ReturnUpdate DEF ResultBecomes, Results
  <2>3. n \notin pending[e] /\ result[e][n] = NotYet
    BY ResultKept, TaskStep DEF Accounted
  <2>4. \A d \in Deps[n] : d \in Nodes /\ result[e][d] # NotYet
    BY <2>3, InputsKnown
  <2>5. \A d \in Deps[n] : result'[e][d] = result[e][d]
    BY <2>3, <2>4, ResultKept
  <2>6. new = CacheKey(n, Inputs(e, n)) /\ Inputs(e, n)' = Inputs(e, n)
    BY <2>3, <2>5, InputsKnown DEF Key, Inputs
  <2> HIDE DEF new
  <2>7. /\ new = CacheKey(n, Inputs(e, n)')
        /\ \A d \in Deps[n] : result'[e][d] # NotYet
    BY <2>4, <2>5, <2>6
  <2>8. \A k : k = new => EntryTrue(k, e)'
    BY <2>2, <2>7 DEF EntryTrue, CacheKey
  <2>9. \A k \in DOMAIN cache' : k # new => k \in DOMAIN cache /\ cache'[k] = cache[k]
    BY <2>1
  <2>10. cache'[new] = e
    BY <2>1
  <2> QED BY <1>1, <1>2, <2>8, <2>9, <2>10 DEF EntriesTrue
<1>5. UNCHANGED cache \/ Succeed(e, n)
  BY DEF First, Answer, Refuse, Hit, CircuitOpen, Call, Retry, Fail, Sleep
<1> QED BY <1>3, <1>4, <1>5

(* What any node of any execution got through the cache was computed from  *)
(* the very outputs its dependencies have there: whichever executions      *)
(* computed, expired and read entries in whatever order.                   *)
THEOREM CachedFitsInputsHolds == Spec => []CachedFitsInputs
<1> DEFINE Inv == TypeInv /\ Accounted /\ DependenciesFirst /\ EntriesTrue /\ CachedFitsInputs
<1>1. Init => Inv
  <2>1. Init => DependenciesFirst /\ EntriesTrue
    BY DEF Init, DependenciesFirst, EntriesTrue
  <2>2. Init => CachedFitsInputs
    BY ExecutorAssumption DEF Init, CachedFitsInputs
  <2> QED BY <2>1, <2>2, TypeInit, AccountedInit
<1>2. Inv /\ [Next]_vars => EntriesTrue' /\ CachedFitsInputs'
  <2> SUFFICES ASSUME TypeOK, Accounted, DependenciesFirst, EntriesTrue, CachedFitsInputs, [Next]_vars
               PROVE  EntriesTrue' /\ CachedFitsInputs'
    BY DEF TypeInv
  <2>1. ASSUME UNCHANGED result, \A k \in DOMAIN cache' : k \in DOMAIN cache /\ cache'[k] = cache[k]
        PROVE  EntriesTrue' /\ CachedFitsInputs'
    <3>1. \A k \in DOMAIN cache' : EntryTrue(k, cache[k])'
      BY <2>1 DEF EntriesTrue, EntryTrue, Inputs, CacheKey
    <3> QED BY <2>1, <3>1 DEF EntriesTrue, CachedFitsInputs
  <2>2. ASSUME NEW e \in Executions, NEW n \in Nodes, First(e, n) \/ Answer(e, n) \/ Sleep(e, n)
        PROVE  EntriesTrue' /\ CachedFitsInputs'
    <3>1. \A u \in Executions, v \in Nodes : Fits(u, v)'
      BY <2>2, FitsKept, FitsNew
    <3> QED BY <2>2, <3>1, EntriesStep DEF CachedFitsInputs, Fits
  <2>3. ASSUME NEW e \in Executions, Advance(e) \/ Abandon(e)
        PROVE  EntriesTrue' /\ CachedFitsInputs'
    BY <2>1, <2>3, GeneratorStep
  <2>4. ASSUME NEW k \in DOMAIN cache, Expire(k) PROVE EntriesTrue' /\ CachedFitsInputs'
    BY <2>1, <2>4 DEF Expire, Restrict, tasks
  <2>5. CASE (\E s \in Skills : RecoveryTimeout(s)) \/ AllOver \/ UNCHANGED vars
    BY <2>1, <2>5 DEF RecoveryTimeout, AllOver, vars, tasks
  <2> QED BY <2>2, <2>3, <2>4, <2>5 DEF Next
<1>3. Inv /\ [Next]_vars => Inv'
  BY <1>2, TypeStep, AccountedStep, DependenciesStep DEF TypeInv
<1> QED BY <1>1, <1>3, PTL DEF Spec
=============================================================================
