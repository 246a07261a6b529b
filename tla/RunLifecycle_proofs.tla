------------------------- MODULE RunLifecycle_proofs -------------------------
(***************************************************************************)
(* What all of AgentRuntime comes to.  It implements RunLifecycle: each of *)
(* its steps is a step of the abstract lifecycle or changes nothing there, *)
(* with any number of runs, workers, events, faults and restarts.  And     *)
(* with TASK_WORKER_COUNT = 1, and no greater number, the answer cache,    *)
(* keyed by the prompt, and the row of a session, shared by its runs,      *)
(* belong to the run being served.                                         *)
(***************************************************************************)
EXTENDS AgentRuntime_proofs

-----------------------------------------------------------------------------
(* The line of requests.  A process that has not started has no queue, one *)
(* that runs has no pill in it, and a stop queues its pills behind every   *)
(* request: so the requests are always the first entries.                  *)
Requests == {j \in DOMAIN queue : queue[j] \in Runs}

LineInv ==
  /\ pool = {} => queue = <<>> /\ ~isRunning
  /\ isRunning => Requests = DOMAIN queue
  /\ \E n \in 0..Len(queue) : Requests = 1..n

LEMMA QueueType ==
  ASSUME TypeInv
  PROVE  /\ queue \in Seq(Runs \cup {"__stop__"}) /\ "__stop__" \notin Runs
         /\ Len(queue) \in Nat /\ DOMAIN queue = 1..Len(queue)
<1>1. queue \in Seq(Runs \cup {"__stop__"})  BY DEF TypeInv, DP!TypeInv, DP!TypeOK, DP!Stop
<1> QED  BY <1>1, LenProperties, RuntimeAssumption

(* A sequence is the function from its positions to its entries.           *)
LEMMA SeqAsFunction ==
  ASSUME NEW S, NEW q \in Seq(S)
  PROVE  q = [i \in DOMAIN q |-> q[i]]
<1>1. q \in [1..Len(q) -> S] /\ DOMAIN q = 1..Len(q)  BY LenProperties
<1> QED  BY <1>1

LEMMA TailAsFunction ==
  ASSUME NEW S, NEW q \in Seq(S), q # <<>>
  PROVE  Tail(q) = [i \in 1..(Len(q) - 1) |-> q[i + 1]]
<1>1. /\ Tail(q) \in Seq(S) /\ Len(Tail(q)) = Len(q) - 1
      /\ \A i \in 1..Len(Tail(q)) : Tail(q)[i] = q[i + 1]
  BY HeadTailProperties
<1>2. Tail(q) = [i \in DOMAIN Tail(q) |-> Tail(q)[i]] /\ DOMAIN Tail(q) = 1..Len(Tail(q))
  BY <1>1, SeqAsFunction, LenProperties
<1> QED  BY <1>1, <1>2

LEMMA LineWhole ==
  ASSUME TypeInv, Requests = DOMAIN queue
  PROVE  Line = queue
<1>1. queue \in Seq(Runs \cup {"__stop__"})  BY QueueType
<1>2. Line = [i \in DOMAIN queue |-> queue[i]]  BY DEF Line, Requests
<1> QED  BY <1>1, <1>2, SeqAsFunction

(* Submit: the request goes to the end of the line.                        *)
LEMMA LineAppended ==
  ASSUME TypeInv, TypeInv', Requests = DOMAIN queue, NEW r \in Runs, queue' = Append(queue, r)
  PROVE  Line' = Append(Line, r) /\ Requests' = DOMAIN queue'
<1>1. queue \in Seq(Runs \cup {"__stop__"}) /\ Len(queue) \in Nat /\ DOMAIN queue = 1..Len(queue)
  BY QueueType
<1>2. /\ DOMAIN queue' = 1..(Len(queue) + 1)
      /\ \A i \in 1..Len(queue) : queue'[i] = queue[i]
      /\ queue'[Len(queue) + 1] = r
  BY <1>1, AppendProperties
<1>3. \A i \in DOMAIN queue' : queue'[i] \in Runs
  BY <1>1, <1>2 DEF Requests
<1>4. Requests' = DOMAIN queue'  BY <1>3 DEF Requests
<1>5. queue' \in Seq(Runs \cup {"__stop__"})  BY <1>1, AppendProperties
<1>6. Line' = [i \in DOMAIN queue' |-> queue'[i]]  BY <1>4 DEF Line, Requests
<1>7. queue' = [i \in DOMAIN queue' |-> queue'[i]]  BY <1>5, SeqAsFunction
<1>8. Line' = queue'  BY <1>6, <1>7, Zenon
<1> QED  BY <1>4, <1>8, LineWhole

(* A get: of the first request, or of a pill when there is no request.     *)
LEMMA LineTaken ==
  ASSUME TypeInv, LineInv, queue # <<>>, queue' = Tail(queue)
  PROVE  /\ \E n \in 0..Len(queue') : Requests' = 1..n
         /\ Requests = DOMAIN queue => Requests' = DOMAIN queue'
         /\ Head(queue) \in Runs => Line # <<>> /\ Head(Line) = Head(queue) /\ Line' = Tail(Line)
         /\ Head(queue) \notin Runs => Line = <<>> /\ Line' = <<>>
<1>1. queue \in Seq(Runs \cup {"__stop__"}) /\ Len(queue) \in Nat \ {0} /\ DOMAIN queue = 1..Len(queue)
  BY QueueType, EmptySeq
<1>2. /\ Tail(queue) \in Seq(Runs \cup {"__stop__"}) /\ Len(Tail(queue)) = Len(queue) - 1
      /\ DOMAIN Tail(queue) = 1..(Len(queue) - 1)
      /\ \A i \in 1..(Len(queue) - 1) : Tail(queue)[i] = queue[i + 1]
      /\ Head(queue) = queue[1]
  BY <1>1
<1>3. PICK n \in 0..Len(queue) : Requests = 1..n  BY DEF LineInv
<1>4. Requests' = {i \in 1..(Len(queue) - 1) : i + 1 \in 1..n}
  BY <1>1, <1>2, <1>3 DEF Requests
<1>5. CASE n = 0
  <2>1. Requests' = 1..0 /\ 0 \in 0..Len(queue')  BY <1>1, <1>2, <1>4, <1>5
  <2>2. Head(queue) \notin Runs  BY <1>1, <1>2, <1>3, <1>5 DEF Requests
  <2>3. Requests = {} /\ Requests' = {}  BY <1>3, <1>5, <2>1
  <2>4. Line = <<>> /\ Line' = <<>>  BY <2>3 DEF Line, Requests
  <2>5. Requests # DOMAIN queue  BY <1>1, <2>3
  <2> QED  BY <2>1, <2>2, <2>4, <2>5
<1>6. CASE n # 0
  <2>1. n - 1 \in 0..Len(queue') /\ Requests' = 1..(n - 1)
    BY <1>1, <1>2, <1>3, <1>4, <1>6
  <2>2. Head(queue) \in Runs  BY <1>1, <1>2, <1>3, <1>6 DEF Requests
  <2>3. Requests = DOMAIN queue => Requests' = DOMAIN queue'
    <3> SUFFICES ASSUME Requests = DOMAIN queue PROVE Requests' = DOMAIN queue'  OBVIOUS
    <3>1. 1..n = 1..Len(queue)  BY <1>1, <1>3
    <3>2. n \in Nat  BY <1>1, <1>3
    <3>3. Len(queue) \in 1..Len(queue) /\ n \in 1..n  BY <1>1, <1>6, <3>2
    <3>4. Len(queue) \in 1..n /\ n \in 1..Len(queue)  BY <3>1, <3>3
    <3>5. n = Len(queue)
      <4>1. ASSUME NEW k \in Nat, n \in 1..k, k \in 1..n PROVE n = k  BY <3>2, <4>1
      <4> QED  BY <1>1, <3>4, <4>1
    <3> QED  BY <1>2, <2>1, <3>5
  <2>4. Line = [i \in 1..n |-> queue[i]] /\ Line' = [i \in 1..(n - 1) |-> Tail(queue)[i]]
    BY <1>3, <2>1 DEF Line, Requests
  <2>5. Line \in Seq(Runs \cup {"__stop__"}) /\ Len(Line) = n
    BY <1>1, <1>3, <2>4
  <2>6. Line # <<>> /\ Head(Line) = Head(queue)
    BY <1>1, <1>2, <1>3, <1>6, <2>4, <2>5
  <2>7. Tail(Line) = [i \in 1..(n - 1) |-> Line[i + 1]]
    BY <2>5, <2>6, TailAsFunction
  <2>8. \A i \in 1..(n - 1) : Line[i + 1] = Tail(queue)[i]
    BY <1>1, <1>2, <1>3, <2>4
  <2>9. Line' = Tail(Line)  BY <2>4, <2>7, <2>8
  <2> QED  BY <2>1, <2>2, <2>3, <2>6, <2>9
<1> QED  BY <1>5, <1>6

(* stop(): the pills are behind the line.                                  *)
LEMMA LineStopped ==
  ASSUME TypeInv, LineInv, DP!StopRequest
  PROVE  Line' = Line /\ \E n \in 0..Len(queue') : Requests' = 1..n
<1>1. queue \in Seq(Runs \cup {"__stop__"}) /\ Len(queue) \in Nat /\ DOMAIN queue = 1..Len(queue)
      /\ "__stop__" \notin Runs
  BY QueueType
<1>2. DP!Pills \in Seq({"__stop__"})
  BY DP!PillsType, DistAssumption DEF TypeInv, DP!TypeInv, DP!TypeOK, DP!Stop
<1>3. Len(DP!Pills) \in Nat /\ \A i \in 1..Len(DP!Pills) : DP!Pills[i] \notin Runs
  BY <1>1, <1>2
<1> DEFINE p == DP!Pills
<1>4. p \in Seq(Runs \cup {"__stop__"})  BY <1>2
<1> HIDE DEF p
<1>5. /\ Len(queue \o p) = Len(queue) + Len(p)
      /\ queue \o p \in Seq(Runs \cup {"__stop__"})
      /\ \A i \in 1..(Len(queue) + Len(p)) :
           (queue \o p)[i] = IF i <= Len(queue) THEN queue[i] ELSE p[i - Len(queue)]
  BY <1>1, <1>4, ConcatProperties
<1>6. queue' = queue \o p  BY DEF DP!StopRequest, p
<1>7. Len(queue') = Len(queue) + Len(p) /\ DOMAIN queue' = 1..(Len(queue) + Len(p))
  BY <1>5, <1>6
<1>8. Len(p) \in Nat /\ \A i \in 1..Len(p) : p[i] \notin Runs  BY <1>3 DEF p
<1>9. \A i \in DOMAIN queue : i \in DOMAIN queue' /\ queue'[i] = queue[i]
  BY <1>1, <1>5, <1>6, <1>7, <1>8
<1>10. \A i \in DOMAIN queue' : i \notin DOMAIN queue => queue'[i] \notin Runs
  <2> SUFFICES ASSUME NEW i \in DOMAIN queue', i \notin DOMAIN queue PROVE queue'[i] \notin Runs
    OBVIOUS
  <2>1. i \in 1..(Len(queue) + Len(p)) /\ ~(i <= Len(queue)) /\ i - Len(queue) \in 1..Len(p)
    BY <1>1, <1>7, <1>8
  <2> QED  BY <1>5, <1>6, <1>8, <2>1
<1>11. Requests' = Requests  BY <1>9, <1>10 DEF Requests
<1>12. Line = [i \in Requests |-> queue[i]] /\ Line' = [i \in Requests' |-> queue'[i]]
  BY DEF Line, Requests
<1>13. \A i \in Requests : queue'[i] = queue[i]  BY <1>9 DEF Requests
<1>14. Line' = Line  BY <1>11, <1>12, <1>13
<1>15. \E n \in 0..Len(queue') : Requests' = 1..n
  <2>1. PICK n \in 0..Len(queue) : Requests = 1..n  BY DEF LineInv
  <2>2. n \in 0..Len(queue')  BY <1>1, <1>7, <1>8
  <2> QED  BY <1>11, <2>1, <2>2
<1> QED  BY <1>14, <1>15

(* What the other actions leave alone.                                     *)
QueueStays == UNCHANGED <<queue, isRunning, pool>>

LEMMA HandlerQueue ==
  ASSUME NEW w, Progress(w) \/ Ends(w)
  PROVE  QueueStays
BY DEF Progress, Ends, D!Put, D!Return, QueueStays

LEMMA LineStays ==
  ASSUME LineInv, QueueStays
  PROVE  LineInv' /\ Line' = Line
<1>1. queue' = queue /\ isRunning' = isRunning /\ pool' = pool  BY DEF QueueStays
<1>2. Requests' = Requests  BY <1>1 DEF Requests
<1>3. Line' = Line  BY <1>1 DEF Line
<1> QED  BY <1>1, <1>2, <1>3 DEF LineInv

LEMMA LineEmpty ==
  ASSUME queue = <<>>
  PROVE  Line = <<>> /\ Requests = {} /\ Requests = DOMAIN queue /\ 0 \in 0..Len(queue) /\ Requests = 1..0
<1>1. DOMAIN queue = {} /\ Len(queue) = 0  OBVIOUS
<1>2. Requests = {} /\ 1..0 = {}  BY <1>1 DEF Requests
<1>3. Line = [i \in {} |-> queue[i]]  BY <1>2 DEF Line, Requests
<1> QED  BY <1>1, <1>2, <1>3

LEMMA InitLine == Init => LineInv /\ Line = <<>>
<1> SUFFICES ASSUME Init PROVE LineInv /\ Line = <<>>  OBVIOUS
<1>1. queue = <<>> /\ ~isRunning  BY DEF Init, D!Init
<1> QED  BY <1>1, LineEmpty DEF LineInv

LEMMA LineKept ==
  ASSUME TypeInv, TypeInv', LineInv, [Next]_vars
  PROVE  LineInv'
<1>0. ASSUME QueueStays PROVE LineInv'  BY <1>0, LineStays
<1>1. ASSUME NEW w \in Workers, Work(w) PROVE LineInv'
  <2>1. CASE D!Take(w) \/ D!TakePill(w)
    <3>1. queue # <<>> /\ queue' = Tail(queue) /\ UNCHANGED <<isRunning, pool>>
      BY <2>1 DEF D!Take, D!TakePill, D!CanGet
    <3>2. /\ \E n \in 0..Len(queue') : Requests' = 1..n
          /\ Requests = DOMAIN queue => Requests' = DOMAIN queue'
      BY <3>1, LineTaken
    <3> QED  BY <3>1, <3>2 DEF LineInv
  <2>2. CASE RunStep(w)  BY <1>0, <2>2, HandlerStep, HandlerQueue
  <2> QED  BY <1>1, <2>1, <2>2 DEF Work, Take, TakePill
<1>2. ASSUME NEW r \in Runs, ClientStep(r) PROVE LineInv'
  <2>1. CASE Submit(r)
    <3>1. isRunning /\ queue' = Append(queue, r) /\ UNCHANGED <<isRunning, pool>>
      BY <2>1 DEF Submit, D!Enqueue
    <3>2. Requests = DOMAIN queue /\ pool # {}  BY <3>1 DEF LineInv
    <3>3. Requests' = DOMAIN queue'  BY <3>1, <3>2, LineAppended
    <3>4. Len(queue') \in Nat /\ DOMAIN queue' = 1..Len(queue')  BY QueueType, LenProperties DEF TypeInv, DP!TypeInv, DP!TypeOK
    <3>5. \E n \in 0..Len(queue') : Requests' = 1..n
      <4>1. Len(queue') \in 0..Len(queue')  BY <3>4
      <4> QED  BY <3>3, <3>4, <4>1
    <3> QED  BY <3>1, <3>2, <3>3, <3>5 DEF LineInv
  <2> QED  BY <1>0, <1>2, <2>1 DEF ClientStep, CloseStream, Leave, dvars, QueueStays
<1>3. ASSUME NEW r \in Runs, ResumeStep(r) PROVE LineInv'
  BY <1>0, <1>3 DEF ResumeStep, ResumeTask, ResumeStale, ResumeFails, Resume, dvars, QueueStays
<1>4. CASE Boot
  <2>1. queue' = <<>> /\ pool' = Workers /\ pool' # {}
    BY <1>4, RuntimeAssumption DEF Boot, D!Start, LineInv
  <2>2. Requests' = DOMAIN queue' /\ 0 \in 0..Len(queue') /\ Requests' = 1..0
    BY <2>1 DEF Requests
  <2> QED  BY <2>1, <2>2 DEF LineInv
<1>5. CASE Shutdown
  <2>1. ~isRunning' /\ pool' = pool /\ isRunning  BY <1>5 DEF Shutdown, D!StopRequest
  <2>2. \E n \in 0..Len(queue') : Requests' = 1..n
    BY <1>5, BridgeStop, LineStopped DEF Shutdown
  <2> QED  BY <2>1, <2>2 DEF LineInv
<1>6. CASE Halt \/ Crash
  <2>1. queue' = <<>> /\ ~isRunning'
    BY <1>6 DEF Halt, Crash, ForgetMemory, D!ProcessExit
  <2>2. 0 \in 0..Len(queue') /\ Requests' = 1..0
    BY <2>1 DEF Requests
  <2> QED  BY <2>1, <2>2 DEF LineInv
<1>7. CASE UNCHANGED vars  BY <1>0, <1>7 DEF vars, dvars, QueueStays
<1> QED  BY <1>1, <1>2, <1>3, <1>4, <1>5, <1>6, <1>7 DEF Next

-----------------------------------------------------------------------------
(* Phases.                                                                 *)
LEMMA PhaseParts ==
  ASSUME NEW r
  PROVE  /\ pc[r] = "new" => PhaseOf(r) = "new"
         /\ pc[r] = "queued" => PhaseOf(r) = "pending"
         /\ pc[r] \in Serviced => PhaseOf(r) = IF task[r] = Waiting THEN "paused" ELSE "live"
         /\ pc[r] \in {"ended", "lost"} => PhaseOf(r) = Outcome(r)
         /\ Outcome(r) \in Lifecycle!Settled
<1>1. Outcome(r) \in Lifecycle!Settled  BY DEF Outcome, Lifecycle!Settled, Completed, Failed
<1> QED  BY <1>1 DEF PhaseOf, Serviced

LEMMA PhaseCases ==
  ASSUME TypeInv, NEW r \in Runs
  PROVE  /\ PhaseOf(r) = "new" <=> pc[r] = "new"
         /\ PhaseOf(r) = "pending" <=> pc[r] = "queued"
         /\ PhaseOf(r) \in Lifecycle!Active <=> pc[r] \in Serviced
         /\ PhaseOf(r) \in Lifecycle!Settled <=> pc[r] \in {"ended", "lost"}
<1>1. pc[r] \in {"new", "queued", "ended", "lost"} \cup Serviced
  BY DEF TypeInv, MemoryType, Places, Serviced
<1> QED  BY <1>1, PhaseParts DEF Serviced, Lifecycle!Active, Lifecycle!Settled

LEMMA PhaseKept ==
  ASSUME NEW r, pc'[r] = pc[r], task'[r] = task[r]
  PROVE  PhaseOf(r)' = PhaseOf(r)
BY DEF PhaseOf, Outcome

(* The steps of the abstract lifecycle, from what happens to each run.     *)
OthersKept(r) == \A q \in Runs \ {r} : PhaseOf(q)' = PhaseOf(q)

LEMMA AbsStutter ==
  ASSUME Line' = Line, \A r \in Runs : PhaseOf(r)' = PhaseOf(r)
  PROVE  UNCHANGED Lifecycle!lvars
BY DEF Lifecycle!lvars

LEMMA AbsRequest ==
  ASSUME NEW r \in Runs, Line' = Append(Line, r),
         PhaseOf(r) = "new", PhaseOf(r)' = "pending", OthersKept(r)
  PROVE  Lifecycle!Next
<1>1. Lifecycle!Request(r)  BY DEF Lifecycle!Request, OthersKept
<1> QED  BY <1>1 DEF Lifecycle!Next

LEMMA AbsPause ==
  ASSUME NEW r \in Runs, Line' = Line,
         PhaseOf(r) = "live", PhaseOf(r)' = "paused", OthersKept(r)
  PROVE  Lifecycle!Next
<1>1. Lifecycle!Pause(r)  BY DEF Lifecycle!Pause, OthersKept
<1> QED  BY <1>1 DEF Lifecycle!Next

LEMMA AbsContinue ==
  ASSUME NEW r \in Runs, Line' = Line,
         PhaseOf(r) = "paused", PhaseOf(r)' = "live", OthersKept(r)
  PROVE  Lifecycle!Next
<1>1. Lifecycle!Continue(r)  BY DEF Lifecycle!Continue, OthersKept
<1> QED  BY <1>1 DEF Lifecycle!Next

LEMMA AbsSettle ==
  ASSUME NEW r \in Runs, Line' = Line,
         PhaseOf(r) \in Lifecycle!Active, PhaseOf(r)' \in Lifecycle!Settled, OthersKept(r)
  PROVE  Lifecycle!Next
<1>1. Lifecycle!Settle(r)  BY DEF Lifecycle!Settle, OthersKept
<1> QED  BY <1>1 DEF Lifecycle!Next

LEMMA AbsPick ==
  ASSUME NEW h \in Runs, Line # <<>>, Head(Line) = h, Line' = Tail(Line),
         Cardinality({r \in Runs : PhaseOf(r) \in Lifecycle!Active}) < Cardinality(Workers),
         PhaseOf(h)' = "live", OthersKept(h)
  PROVE  Lifecycle!Next
<1>1. \A r \in Runs : PhaseOf(r)' = IF r = h THEN "live" ELSE PhaseOf(r)
  BY DEF OthersKept
<1>2. Lifecycle!Cardinality({r \in Runs : [q \in Runs |-> PhaseOf(q)][r] \in Lifecycle!Active})
        < Cardinality(Workers)
  <2>1. {r \in Runs : [q \in Runs |-> PhaseOf(q)][r] \in Lifecycle!Active}
          = {r \in Runs : PhaseOf(r) \in Lifecycle!Active}
    OBVIOUS
  <2> QED  BY <2>1 DEF Lifecycle!Cardinality, Cardinality, Lifecycle!IsFiniteSet, IsFiniteSet
<1>3. Lifecycle!Pick  BY <1>1, <1>2 DEF Lifecycle!Pick
<1> QED  BY <1>3 DEF Lifecycle!Next

LEMMA AbsDie ==
  ASSUME Line' = <<>>,
         \A r \in Runs :
           /\ PhaseOf(r)' \in Lifecycle!Settled \cup {"new"}
           /\ PhaseOf(r) \in Lifecycle!Settled \cup {"new"} => PhaseOf(r)' = PhaseOf(r)
           /\ PhaseOf(r) = "pending" => PhaseOf(r)' = "unrecorded"
           /\ PhaseOf(r) \in Lifecycle!Active => PhaseOf(r)' \in Lifecycle!Settled
  PROVE  Lifecycle!Next
<1>1. Lifecycle!Die  BY DEF Lifecycle!Die
<1> QED  BY <1>1 DEF Lifecycle!Next

(* An idle worker is one that no run occupies, and every active run        *)
(* occupies a worker of its own.                                           *)
LEMMA IdleWorkerLeft ==
  ASSUME TypeInv, PlaceInv, NEW w \in Workers, worker[w] \notin Runs
  PROVE  Cardinality({r \in Runs : PhaseOf(r) \in Lifecycle!Active}) < Cardinality(Workers)
<1> DEFINE A == {r \in Runs : PhaseOf(r) \in Lifecycle!Active}
           B == {v \in Workers : worker[v] \in Runs}
           f == [v \in B |-> worker[v]]
<1>1. \A r \in Runs : r \in A <=> \E v \in Workers : worker[v] = r
  BY PhaseCases DEF PlaceInv
<1>2. f \in Surjection(B, A)
  <2>1. \A v \in B : f[v] \in A  BY <1>1
  <2>2. \A r \in A : \E v \in B : f[v] = r  BY <1>1
  <2> QED  BY <2>1, <2>2 DEF Surjection
<1>3. /\ IsFiniteSet(Workers) /\ Cardinality(Workers) \in Nat
      /\ IsFiniteSet(Workers \ {w}) /\ Cardinality(Workers \ {w}) = Cardinality(Workers) - 1
  BY RuntimeAssumption, FS_CardinalityType, FS_RemoveElement
<1>4. B \subseteq Workers \ {w}  OBVIOUS
<1> HIDE DEF A, B, f
<1>5. IsFiniteSet(B) /\ Cardinality(B) <= Cardinality(Workers) - 1 /\ Cardinality(B) \in Nat
  BY <1>3, <1>4, FS_Subset, FS_CardinalityType
<1>6. Cardinality(A) <= Cardinality(B) /\ Cardinality(A) \in Nat
  BY <1>2, <1>5, FS_Surjection, FS_CardinalityType
<1>7. Cardinality(A) < Cardinality(Workers)  BY <1>3, <1>5, <1>6
<1> QED  BY <1>7 DEF A

-----------------------------------------------------------------------------
(* Every step of the backend is one of the lifecycle, or none.             *)
RefInv == TypeInv /\ PlaceInv /\ LiveInv /\ LineInv

AbsStep == Lifecycle!Next \/ UNCHANGED Lifecycle!lvars

LEMMA SubmitRefines ==
  ASSUME RefInv, RefInv', NEW r \in Runs, Submit(r)
  PROVE  AbsStep
<1>1. /\ TypeInv /\ TypeInv' /\ LineInv /\ pc \in [Runs -> Places]
      /\ isRunning /\ queue' = Append(queue, r) /\ pc[r] = "new"
      /\ pc' = [pc EXCEPT ![r] = "queued"] /\ task' = task
  BY DEF RefInv, TypeInv, MemoryType, Submit, D!Enqueue, Goto, store
<1>2. Requests = DOMAIN queue  BY <1>1 DEF LineInv
<1>3. Line' = Append(Line, r)  BY <1>1, <1>2, LineAppended
<1>4. PhaseOf(r) = "new"  BY <1>1, PhaseParts
<1>5. pc'[r] = "queued"  BY <1>1
<1>6. PhaseOf(r)' = "pending"  BY <1>5 DEF PhaseOf, Serviced
<1>7. \A q \in Runs \ {r} : pc'[q] = pc[q] /\ task'[q] = task[q]  BY <1>1
<1>8. OthersKept(r)  BY <1>7, PhaseKept DEF OthersKept
<1> QED  BY <1>3, <1>4, <1>6, <1>8, AbsRequest DEF AbsStep

LEMMA TakeRefines ==
  ASSUME RefInv, NEW w \in Workers, Take(w)
  PROVE  AbsStep
<1>0. PICK h \in Runs : h = Head(queue)  BY DEF Take, D!Take
<1>1. /\ TypeInv /\ PlaceInv /\ LiveInv /\ LineInv /\ pc \in [Runs -> Places]
      /\ worker[w] = "idle" /\ queue # <<>> /\ queue' = Tail(queue)
      /\ pc' = [pc EXCEPT ![h] = "taken"] /\ task' = task
  BY <1>0 DEF RefInv, TypeInv, MemoryType, Take, D!Take, D!CanGet, D!Idle, Goto, store
<1>2. Line # <<>> /\ Head(Line) = h /\ Line' = Tail(Line)  BY <1>0, <1>1, LineTaken
<1>3. h \in DP!QueuedTasks
  BY <1>0, <1>1, DP!GetQueued, DistAssumption DEF PlaceInv, TypeInv, DP!TypeInv
<1>4. pc[h] = "queued" /\ pc'[h] = "taken" /\ task'[h] = Absent
  BY <1>1, <1>3 DEF PlaceInv, LiveInv, LiveRow
<1>5. PhaseOf(h)' = "live"
  <2>1. PhaseOf(h)' = IF task'[h] = Waiting THEN "paused" ELSE "live"
    BY <1>4 DEF PhaseOf, Serviced
  <2> QED  BY <1>4, <2>1, StatesDiffer
<1>6. \A q \in Runs \ {h} : pc'[q] = pc[q] /\ task'[q] = task[q]  BY <1>1
<1>7. OthersKept(h)  BY <1>6, PhaseKept DEF OthersKept
<1>8. worker[w] \notin Runs  BY <1>1, RuntimeAssumption
<1>9. Cardinality({r \in Runs : PhaseOf(r) \in Lifecycle!Active}) < Cardinality(Workers)
  BY <1>1, <1>8, IdleWorkerLeft
<1> QED  BY <1>2, <1>5, <1>7, <1>9, AbsPick DEF AbsStep

LEMMA ProgressRefines ==
  ASSUME RefInv, NEW w \in Workers, worker[w] \in Runs, Progress(w)
  PROVE  AbsStep
<1>0. PICK r \in Runs : r = worker[w]  OBVIOUS
<1>1. PICK row \in RowType, place \in Live :
        Moves(r, row, place) /\ Write(r, row) /\ pc' = [pc EXCEPT ![r] = place]
  BY <1>0 DEF Progress
<1>2. TypeInv /\ LiveInv /\ LineInv /\ StoreType /\ pc \in [Runs -> Places]
  BY DEF RefInv, TypeInv, MemoryType
<1>3. Line' = Line  BY <1>2, HandlerQueue, LineStays
<1>4. /\ pc[r] \in Serviced /\ pc'[r] \in Serviced /\ task'[r] = row.task
      /\ \A q \in Runs \ {r} : pc'[q] = pc[q] /\ task'[q] = task[q]
  BY <1>1, <1>2, WriteRow DEF Moves, Live, Serviced
<1>5. OthersKept(r)  BY <1>4, PhaseKept DEF OthersKept
<1>6. /\ PhaseOf(r) = IF task[r] = Waiting THEN "paused" ELSE "live"
      /\ PhaseOf(r)' = IF task'[r] = Waiting THEN "paused" ELSE "live"
  BY <1>4 DEF PhaseOf, Serviced
<1>7. task[r] = Waiting => task'[r] = Waiting
  BY <1>1, <1>2, <1>4, StatesDiffer DEF Moves, LiveInv, LiveRow
<1>8. CASE PhaseOf(r)' = PhaseOf(r)
  <2>1. \A q \in Runs : PhaseOf(q)' = PhaseOf(q)  BY <1>5, <1>8 DEF OthersKept
  <2> QED  BY <1>3, <2>1, AbsStutter DEF AbsStep
<1>9. CASE PhaseOf(r)' # PhaseOf(r)
  <2>1. PhaseOf(r) = "live" /\ PhaseOf(r)' = "paused"  BY <1>6, <1>7, <1>9
  <2> QED  BY <1>3, <1>5, <2>1, AbsPause DEF AbsStep
<1> QED  BY <1>8, <1>9

LEMMA EndsRefines ==
  ASSUME RefInv, NEW w \in Workers, worker[w] \in Runs, Ends(w)
  PROVE  AbsStep
<1>0. PICK r \in Runs : r = worker[w]  OBVIOUS
<1>1. TypeInv /\ LineInv  BY DEF RefInv
<1>2. Line' = Line  BY <1>1, HandlerQueue, LineStays
<1>3. /\ pc[r] \in Serviced /\ pc'[r] = "ended"
      /\ \A q \in Runs \ {r} : pc'[q] = pc[q] /\ task'[q] = task[q]
  BY <1>0, <1>1, EndsRow
<1>4. OthersKept(r)  BY <1>3, PhaseKept DEF OthersKept
<1>5. PhaseOf(r) \in Lifecycle!Active  BY <1>1, <1>3, PhaseCases
<1>6. PhaseOf(r)' \in Lifecycle!Settled
  BY <1>3 DEF PhaseOf, Serviced, Outcome, Lifecycle!Settled
<1> QED  BY <1>2, <1>4, <1>5, <1>6, AbsSettle DEF AbsStep

LEMMA ResumeRefines ==
  ASSUME RefInv, NEW r \in Runs, ResumeStep(r)
  PROVE  AbsStep
<1>1. TypeInv /\ LiveInv /\ LineInv /\ StoreType  BY DEF RefInv, TypeInv
<1>2. QueueStays
  BY DEF ResumeStep, ResumeTask, ResumeStale, ResumeFails, Resume, dvars, QueueStays
<1>3. Line' = Line  BY <1>1, <1>2, LineStays
<1>4. PICK row \in RowType :
        /\ Write(r, row)
        /\ row.task = task[r] \/ (Running \in Allowed[task[r]] /\ row.task = Running)
  BY <1>1, ResumeRow
<1>5. /\ pc' = pc /\ task'[r] = row.task /\ task[r] \in TaskStates
      /\ \A q \in Runs \ {r} : task'[q] = task[q]
  BY <1>1, <1>4, ResumeRow, WriteRow DEF StoreType
<1>6. OthersKept(r)  BY <1>5, PhaseKept DEF OthersKept
<1>7. CASE PhaseOf(r)' = PhaseOf(r)
  <2>1. \A q \in Runs : PhaseOf(q)' = PhaseOf(q)  BY <1>6, <1>7 DEF OthersKept
  <2> QED  BY <1>3, <2>1, AbsStutter DEF AbsStep
<1>8. CASE PhaseOf(r)' # PhaseOf(r)
  <2>1. task'[r] # task[r]  BY <1>5, <1>8, PhaseKept
  <2>2. task'[r] = Running /\ task[r] \notin Settled  BY <1>4, <1>5, <2>1, StatesDiffer
  <2>3. Outcome(r)' = "unrecorded" /\ Outcome(r) = "unrecorded"
    BY <2>2 DEF Outcome, Settled, Completed, Failed, Running
  <2>4. pc[r] \in Serviced
    <3>1. pc[r] \in Serviced \/ PhaseOf(r)' = PhaseOf(r)
      BY <1>5, <2>3 DEF PhaseOf, Serviced
    <3> QED  BY <1>8, <3>1
  <2>5. /\ PhaseOf(r) = IF task[r] = Waiting THEN "paused" ELSE "live"
        /\ PhaseOf(r)' = IF task'[r] = Waiting THEN "paused" ELSE "live"
    BY <1>5, <2>4 DEF PhaseOf, Serviced
  <2>6. PhaseOf(r) = "paused" /\ PhaseOf(r)' = "live"
    <3>1. task'[r] # Waiting  BY <2>2 DEF Running, Waiting
    <3> QED  BY <1>8, <2>5, <3>1
  <2> QED  BY <1>3, <1>6, <2>6, AbsContinue DEF AbsStep
<1> QED  BY <1>7, <1>8

(* A crash tears only rows of runs that are being worked on or wait, and a *)
(* run that is over stays over, as it was recorded.                        *)
LEMMA TornOver ==
  ASSUME TypeInv, NEW r \in Runs, pc[r] \in {"ended", "lost"}, NEW row \in Torn(r)
  PROVE  row.task \in {task[r], Running}
<1>1. row \in ResumedCuts(Row(r))  BY DEF Torn
<1>2. Row(r) \in RowType /\ Row(r).task = task[r]
  BY RowTyped, RowFields DEF TypeInv
<1> QED  BY <1>1, <1>2, ResumedTyped

Tears ==
  task' = task \/ \E r \in Runs : \E row \in Torn(r) : Write(r, row)

LEMMA DeathRow ==
  ASSUME RefInv, Moved, NEW r \in Runs, pc' = [q \in Runs |-> Forgotten(q)], Tears
  PROVE  /\ PhaseOf(r)' \in Lifecycle!Settled \cup {"new"}
         /\ PhaseOf(r) \in Lifecycle!Settled \cup {"new"} => PhaseOf(r)' = PhaseOf(r)
         /\ PhaseOf(r) = "pending" => PhaseOf(r)' = "unrecorded"
         /\ PhaseOf(r) \in Lifecycle!Active => PhaseOf(r)' \in Lifecycle!Settled
<1>1. TypeInv /\ LiveInv /\ StoreType /\ pc \in [Runs -> Places] /\ task[r] \in TaskStates
  BY DEF RefInv, TypeInv, StoreType, MemoryType
<1>2. pc'[r] = Forgotten(r)  OBVIOUS
<1>3. SettledStays(r)  BY <1>1, LiveKept
<1>4. CASE pc[r] = "new"
  <2>1. pc'[r] = "new"  BY <1>2, <1>4 DEF Forgotten
  <2>2. PhaseOf(r) = "new" /\ PhaseOf(r)' = "new"  BY <1>4, <2>1 DEF PhaseOf, Serviced
  <2> QED  BY <2>2 DEF Lifecycle!Settled, Lifecycle!Active
<1>5. ASSUME pc'[r] = "lost" PROVE PhaseOf(r)' = Outcome(r)' /\ PhaseOf(r)' \in Lifecycle!Settled
  BY <1>5 DEF PhaseOf, Serviced, Outcome, Lifecycle!Settled
<1>6. CASE pc[r] \in Serviced
  <2>1. pc'[r] = "lost"  BY <1>2, <1>6 DEF Forgotten, Serviced
  <2>2. PhaseOf(r) \in Lifecycle!Active  BY <1>1, <1>6, PhaseCases
  <2> QED  BY <1>5, <2>1, <2>2 DEF Lifecycle!Settled, Lifecycle!Active
<1>7. CASE pc[r] = "queued"
  <2>1. pc'[r] = "lost" /\ PhaseOf(r) = "pending"  BY <1>2, <1>7, PhaseParts DEF Forgotten
  <2>2. task'[r] = Absent
    <3>1. task[r] = Absent  BY <1>1, <1>7 DEF LiveInv, LiveRow
    <3>2. ASSUME NEW q \in Runs, NEW row \in Torn(q), Write(q, row) PROVE task'[r] = task[r]
      <4>1. q # r  BY <1>7, <3>1, <3>2, TornOpen, StatesDiffer DEF Serviced
      <4> QED  BY <1>1, <3>2, <4>1, WriteRow
    <3> QED  BY <3>1, <3>2 DEF Tears
  <2>3. Outcome(r)' = "unrecorded"  BY <2>2 DEF Outcome, Absent, Completed, Failed
  <2> QED  BY <1>5, <2>1, <2>3 DEF Lifecycle!Settled, Lifecycle!Active
<1>8. CASE pc[r] \in {"ended", "lost"}
  <2>1. pc'[r] = pc[r]  BY <1>2, <1>8 DEF Forgotten
  <2>2. PhaseOf(r) = Outcome(r) /\ PhaseOf(r)' = Outcome(r)' /\ Outcome(r) \in Lifecycle!Settled
    BY <1>8, <2>1, PhaseParts DEF PhaseOf, Serviced
  <2>3. task'[r] \in Settled => task'[r] = task[r]
    <3>1. ASSUME NEW q \in Runs, NEW row \in Torn(q), Write(q, row)
          PROVE  task'[r] = task[r] \/ task'[r] = Running
      <4>1. CASE q = r  BY <1>1, <1>8, <3>1, <4>1, TornOver, WriteRow
      <4>2. CASE q # r  BY <1>1, <3>1, <4>2, WriteRow
      <4> QED  BY <4>1, <4>2
    <3>2. task'[r] = task[r] \/ task'[r] = Running  BY <3>1 DEF Tears
    <3> QED  BY <3>2, StatesDiffer
  <2>4. Outcome(r)' = Outcome(r)
    BY <1>3, <2>3 DEF SettledStays, Outcome, Settled
  <2> QED  BY <2>2, <2>4 DEF Lifecycle!Settled, Lifecycle!Active
<1> QED  BY <1>1, <1>4, <1>6, <1>7, <1>8 DEF Places, Serviced

LEMMA DeathRefines ==
  ASSUME RefInv, [Next]_vars, Halt \/ Crash
  PROVE  AbsStep
<1>1. queue' = <<>> /\ pc' = [r \in Runs |-> Forgotten(r)]
  BY DEF Halt, Crash, ForgetMemory, D!ProcessExit, Forgotten
<1>2. Line' = <<>>
  <2>1. {j \in DOMAIN queue' : queue'[j] \in Runs} = {}  BY <1>1
  <2>2. Line' = [i \in {} |-> queue'[i]]  BY <2>1 DEF Line
  <2> QED  BY <2>2
<1>3. Moved  BY NextMoved DEF RefInv
<1>4. Tears
  <2>1. CASE Halt  BY <2>1 DEF Halt, store, Tears
  <2>2. CASE Crash  BY <2>2 DEF Crash, store, Tears
  <2> QED  BY <2>1, <2>2
<1>5. \A r \in Runs :
        /\ PhaseOf(r)' \in Lifecycle!Settled \cup {"new"}
        /\ PhaseOf(r) \in Lifecycle!Settled \cup {"new"} => PhaseOf(r)' = PhaseOf(r)
        /\ PhaseOf(r) = "pending" => PhaseOf(r)' = "unrecorded"
        /\ PhaseOf(r) \in Lifecycle!Active => PhaseOf(r)' \in Lifecycle!Settled
  BY <1>1, <1>3, <1>4, DeathRow
<1> QED  BY <1>2, <1>5, AbsDie DEF AbsStep

LEMMA StutterRefines ==
  ASSUME Line' = Line, pc' = pc, task' = task
  PROVE  AbsStep
BY PhaseKept, AbsStutter DEF AbsStep

LEMMA StepRefines ==
  ASSUME RefInv, RefInv', [Next]_vars
  PROVE  AbsStep
<1>1. ASSUME NEW w \in Workers, Work(w) PROVE AbsStep
  <2>1. CASE Take(w)  BY <2>1, TakeRefines
  <2>2. CASE TakePill(w)
    <3>1. /\ queue # <<>> /\ Head(queue) = "__stop__" /\ queue' = Tail(queue)
          /\ pc' = pc /\ task' = task
      BY <2>2 DEF TakePill, D!TakePill, D!CanGet, D!Stop, memory, store
    <3>2. Line' = Line  BY <3>1, LineTaken, QueueType DEF RefInv
    <3> QED  BY <3>1, <3>2, StutterRefines
  <2>3. CASE RunStep(w)
    BY <2>3, HandlerStep, ProgressRefines, EndsRefines DEF RefInv
  <2> QED  BY <1>1, <2>1, <2>2, <2>3 DEF Work
<1>2. ASSUME NEW r \in Runs, ClientStep(r) PROVE AbsStep
  <2>1. CASE Submit(r)  BY <2>1, SubmitRefines
  <2>2. CASE CloseStream(r) \/ Leave(r)
    <3>1. QueueStays /\ pc' = pc /\ task' = task
      BY <2>2 DEF CloseStream, Leave, dvars, memory, store, QueueStays
    <3> QED  BY <3>1, LineStays, StutterRefines DEF RefInv
  <2> QED  BY <1>2, <2>1, <2>2 DEF ClientStep
<1>3. ASSUME NEW r \in Runs, ResumeStep(r) PROVE AbsStep  BY <1>3, ResumeRefines
<1>4. CASE Boot
  <2>1. queue' = queue /\ pc' = pc /\ task' = task  BY <1>4 DEF Boot, D!Start, memory, store
  <2>2. Line' = Line  BY <2>1 DEF Line
  <2> QED  BY <2>1, <2>2, StutterRefines
<1>5. CASE Shutdown
  <2>1. Line' = Line  BY <1>5, BridgeStop, LineStopped DEF Shutdown, RefInv
  <2>2. pc' = pc /\ task' = task  BY <1>5 DEF Shutdown, memory, store
  <2> QED  BY <2>1, <2>2, StutterRefines
<1>6. CASE Halt \/ Crash  BY <1>6, DeathRefines
<1>7. CASE UNCHANGED vars
  <2>1. QueueStays /\ pc' = pc /\ task' = task
    BY <1>7 DEF vars, dvars, memory, store, QueueStays
  <2> QED  BY <2>1, LineStays, StutterRefines DEF RefInv
<1> QED  BY <1>1, <1>2, <1>3, <1>4, <1>5, <1>6, <1>7 DEF Next

LEMMA RefInvInit == Init => RefInv
<1>1. Init => LiveInv  BY DEF Init, LiveInv, LiveRow, Live
<1> QED  BY <1>1, InitType, InitPlace, InitLine DEF RefInv

LEMMA RefInvNext == RefInv /\ [Next]_vars => RefInv'
<1> SUFFICES ASSUME RefInv, [Next]_vars PROVE RefInv'  OBVIOUS
<1>1. TypeInv /\ PlaceInv /\ LiveInv /\ LineInv  BY DEF RefInv
<1>2. TypeInv' /\ PlaceInv'  BY <1>1, NextType, NextPlace, PlaceKept
<1>3. LiveInv'  BY <1>1, NextMoved, LiveKept
<1>4. LineInv'  BY <1>1, <1>2, LineKept
<1> QED  BY <1>2, <1>3, <1>4 DEF RefInv

LEMMA InitRefines == Init => Lifecycle!Init
<1> SUFFICES ASSUME Init PROVE Lifecycle!Init  OBVIOUS
<1>1. Line = <<>>  BY InitLine
<1>2. \A r \in Runs : PhaseOf(r) = "new"  BY PhaseParts DEF Init
<1> QED  BY <1>1, <1>2 DEF Lifecycle!Init

(* The backend implements the lifecycle: requests are picked first come    *)
(* first served, no more of them at once than there are workers, each      *)
(* settles once, and only the death of the process drops one.  It holds    *)
(* with any number of runs, workers, faults, resumes and restarts.         *)
THEOREM ImplementsLifecycleHolds == Spec => ImplementsLifecycle
<1>1. Init => RefInv /\ Lifecycle!Init  BY RefInvInit, InitRefines
<1>2. RefInv /\ [Next]_vars => RefInv'  BY RefInvNext
<1>3. RefInv /\ RefInv' /\ [Next]_vars => [Lifecycle!Next]_(Lifecycle!lvars)
  BY StepRefines DEF AbsStep
<1> QED  BY <1>1, <1>2, <1>3, PTL DEF Spec, ImplementsLifecycle, Lifecycle!Spec

-----------------------------------------------------------------------------
(* One worker.                                                             *)
OneWorker == Cardinality(Workers) = 1

LEMMA OneWorkerAlone ==
  ASSUME OneWorker, NEW v \in Workers, NEW w \in Workers
  PROVE  v = w
<1>1. \E x : Workers = {x}  BY RuntimeAssumption, FS_Singleton DEF OneWorker
<1> QED  BY <1>1

(* So at most one run is being served.                                     *)
LEMMA ServedAlone ==
  ASSUME OneWorker, PlaceInv, NEW q \in Runs, NEW r \in Runs,
         pc[q] \in Serviced, pc[r] \in Serviced
  PROVE  q = r
BY OneWorkerAlone DEF PlaceInv

-----------------------------------------------------------------------------
(* The answer in the cache under the prompt of a run that has stored one   *)
(* is its own, until it replies.                                           *)
AnswerInv ==
  \A r \in Runs :
    /\ pc[r] = "answered" => answers[PromptOf[r]] = r
    /\ pc[r] = "asked" => Engine = "mock"
    /\ replied[r] \in {NoRun, r}

(* The steps, as answers, replied and pc see them.                         *)
AnswerMoved(r) ==
  \/ /\ UNCHANGED replied
     /\ UNCHANGED answers \/ (Engine = "orchestrator" /\ StoreAnswer(r) /\ pc'[r] \in {"answered", "ended"})
     /\ \/ pc'[r] = pc[r]
        \/ pc'[r] \in {"started", "ended"}
        \/ pc'[r] = "asked" /\ Engine = "mock"
        \/ pc'[r] = "answered" /\ StoreAnswer(r)
  \/ /\ UNCHANGED answers /\ Reply(r)
     /\ pc[r] \in {"asked", "answered"} /\ pc'[r] = "ended"

LEMMA HandlerAnswer ==
  ASSUME TypeInv, NEW w \in Workers, RunStep(w)
  PROVE  \E r \in Runs : /\ worker[w] = r /\ pc[r] \in Serviced
                         /\ \A q \in Runs \ {r} : pc'[q] = pc[q]
                         /\ AnswerMoved(r)
<1>1. PICK r \in Runs : r = worker[w]  BY HandlerStep
<1>2. pc \in [Runs -> Places]  BY DEF TypeInv, MemoryType
<1>3. ASSUME NEW row, NEW put, NEW cost, FailureBranch(w, row, put, cost)
      PROVE  pc' = [pc EXCEPT ![r] = "ended"]
  BY <1>1, <1>3 DEF FailureBranch, Goto
<1>4. pc[r] \in Serviced /\ \A q \in Runs \ {r} : pc'[q] = pc[q]
  <2>1. CASE Progress(w)  BY <1>1, <2>1, ProgressRow
  <2>2. CASE Ends(w)  BY <1>1, <2>2, EndsRow
  <2> QED  BY <1>1, <2>1, <2>2, HandlerStep
<1>5. AnswerMoved(r)
  <2>1. CASE Begin(w) \/ SetUpFails(w)
    BY <1>1, <1>2, <2>1, ServingRun DEF Begin, SetUpFails, Goto, AnswerMoved
  <2>2. CASE Event(w)  BY <1>1, <2>2 DEF Event, AnswerMoved
  <2>3. CASE Ask(w)  BY <1>1, <1>2, <2>3 DEF Ask, Goto, AnswerMoved
  <2>4. CASE Answer(w)  BY <1>1, <1>2, <2>4 DEF Answer, Goto, AnswerMoved
  <2>5. CASE AnswerFails(w)  BY <1>1, <1>2, <1>3, <2>5 DEF AnswerFails, AnswerMoved
  <2>6. CASE Finish(w)
    BY <1>1, <1>2, <2>6, ServingRun DEF Finish, Goto, AnswerMoved
  <2>7. CASE Abort(w)  BY <1>1, <1>2, <1>3, <2>7 DEF Abort, AnswerMoved
  <2>8. CASE FinishFails(w)
    BY <1>1, <1>2, <1>3, <2>8, ServingRun DEF FinishFails, AnswerMoved
  <2> QED  BY <2>1, <2>2, <2>3, <2>4, <2>5, <2>6, <2>7, <2>8 DEF RunStep
<1> QED  BY <1>1, <1>4, <1>5

LEMMA AnswerKept ==
  ASSUME OneWorker, TypeInv, PlaceInv, AnswerInv, [Next]_vars
  PROVE  AnswerInv'
<1>1. /\ pc \in [Runs -> Places]
      /\ answers \in [Prompts -> Runs \cup {NoRun}] /\ replied \in [Runs -> Runs \cup {NoRun}]
      /\ PromptOf \in [Runs -> Prompts] /\ Engine \in {"mock", "orchestrator"}
  BY RuntimeAssumption DEF TypeInv, MemoryType
<1>2. ASSUME UNCHANGED <<answers, replied>>,
             \A q \in Runs : pc'[q] = pc[q] \/ pc'[q] \in {"queued", "taken"}
      PROVE  AnswerInv'
  BY <1>2 DEF AnswerInv
<1>3. ASSUME NEW w \in Workers, RunStep(w) PROVE AnswerInv'
  <2>1. PICK r \in Runs : /\ worker[w] = r /\ pc[r] \in Serviced
                          /\ \A q \in Runs \ {r} : pc'[q] = pc[q]
                          /\ AnswerMoved(r)
    BY <1>3, HandlerAnswer
  <2>2. \A q \in Runs \ {r} : pc'[q] # "answered"
    BY <2>1, ServedAlone DEF Serviced
  <2>3. CASE UNCHANGED answers /\ Reply(r) /\ pc[r] \in {"asked", "answered"} /\ pc'[r] = "ended"
    <3>1. replied' = [replied EXCEPT ![r] = r]  BY <1>1, <2>3 DEF Reply, AnswerInv
    <3> QED  BY <1>1, <2>1, <2>2, <2>3, <3>1 DEF AnswerInv
  <2>4. CASE UNCHANGED replied
    <3>1. pc'[r] = "answered" => answers'[PromptOf[r]] = r
      BY <1>1, <2>1, <2>4 DEF AnswerMoved, AnswerInv, StoreAnswer
    <3>2. pc'[r] = "asked" => Engine = "mock"
      BY <2>1, <2>4 DEF AnswerMoved, AnswerInv
    <3> QED  BY <2>1, <2>2, <2>4, <3>1, <3>2 DEF AnswerInv
  <2> QED  BY <2>1, <2>3, <2>4 DEF AnswerMoved
<1>4. ASSUME NEW w \in Workers, Work(w) PROVE AnswerInv'
  <2>1. CASE Take(w)  BY <1>1, <1>2, <2>1 DEF Take, Goto
  <2>2. CASE TakePill(w)  BY <1>2, <2>2 DEF TakePill, memory
  <2> QED  BY <1>3, <1>4, <2>1, <2>2 DEF Work
<1>5. ASSUME NEW r \in Runs, ClientStep(r) PROVE AnswerInv'
  <2>1. CASE Submit(r)  BY <1>1, <1>2, <2>1 DEF Submit, Goto
  <2> QED  BY <1>2, <1>5, <2>1 DEF ClientStep, CloseStream, Leave, memory
<1>6. ASSUME NEW r \in Runs, ResumeStep(r) PROVE AnswerInv'
  BY <1>2, <1>6 DEF ResumeStep, ResumeTask, ResumeStale, ResumeFails, Resume, memory
<1>7. CASE Boot \/ Shutdown  BY <1>2, <1>7 DEF Boot, Shutdown, memory
<1>8. CASE Halt \/ Crash
  <2>1. /\ replied' = replied
        /\ \A q \in Runs : pc'[q] \notin {"asked", "answered"}
    BY <1>1, <1>8 DEF Halt, Crash, ForgetMemory
  <2> QED  BY <2>1 DEF AnswerInv
<1>9. CASE UNCHANGED vars  BY <1>2, <1>9 DEF vars, memory
<1> QED  BY <1>4, <1>5, <1>6, <1>7, <1>8, <1>9 DEF Next

(* With one worker the done frame of a run carries the answer that run     *)
(* produced, not that of another run with the same prompt: for any number  *)
(* of runs, prompts, faults and restarts, and for both engines.            *)
THEOREM OwnAnswerHolds == ASSUME OneWorker PROVE Spec => []OwnAnswer
<1>1. Init => AnswerInv  BY DEF Init, AnswerInv
<1>2. OneWorker  OBVIOUS
<1>3. ASSUME TypeInv, PlaceInv, AnswerInv, [Next]_vars
      PROVE  TypeInv' /\ PlaceInv' /\ AnswerInv'
  BY <1>2, <1>3, NextType, NextPlace, PlaceKept, AnswerKept
<1>4. AnswerInv => OwnAnswer  BY DEF AnswerInv, OwnAnswer
<1> QED  BY <1>1, <1>3, <1>4, InitType, InitPlace, PTL DEF Spec

-----------------------------------------------------------------------------
(* The row of a session.  The run being served is the one taken last of    *)
(* its session; a clean run's session follows it until another is taken.   *)
RowSays(r) ==
  \/ session[SessionOf[r]] = "done" /\ task[r] = Completed
  \/ session[SessionOf[r]] = "failed" /\ task[r] = Failed

SessionRow(r) ==
  /\ pc[r] \in Serviced => latest[SessionOf[r]] = r
  /\ Clean(r) /\ pc[r] \in Live => session[SessionOf[r]] = "running"
  /\ Clean(r) /\ pc[r] = "ended" /\ latest[SessionOf[r]] = r => RowSays(r)

SessionInv == \A r \in Runs : SessionRow(r)

LEMMA WriteSession ==
  ASSUME StoreType, NEW r \in Runs, NEW row, Write(r, row)
  PROVE  /\ session'[SessionOf[r]] = row.session
         /\ \A s \in Sessions : s # SessionOf[r] => session'[s] = session[s]
BY RuntimeAssumption DEF StoreType, Write

(* The session after a slice of a handler: running from the set-up to the  *)
(* last slice, which says how the run ended, unless a fault was charged.   *)
SessionMoved(r) ==
  LET now == session'[SessionOf[r]] IN
  \/ pc[r] = "taken" /\ pc'[r] \in Live /\ now = "running" /\ UNCHANGED faults
  \/ pc[r] \in Live /\ pc'[r] \in Live /\ now = session[SessionOf[r]] /\ UNCHANGED faults
  \/ /\ pc'[r] = "ended" /\ UNCHANGED faults
     /\ \/ now = "done" /\ task'[r] = Completed
        \/ now = "failed" /\ task'[r] = Failed
  \/ faults'[r] # 0

LEMMA FailureSession ==
  ASSUME TypeInv, NEW w, NEW r \in Runs, r = worker[w], NEW row \in RowType, NEW put, NEW cost \in Nat,
         FailureBranch(w, row, put, cost)
  PROVE  SessionMoved(r)
<1>1. StoreType /\ MemoryType /\ pc'[r] = "ended"
  BY DEF TypeInv, MemoryType, FailureBranch, Goto
<1>2. CASE Write(r, FailedRow(row)) /\ Charge(r, cost)
  <2>1. FailedRow(row).task = Failed /\ FailedRow(row).session = "failed" /\ FailedRow(row) \in RowType
    BY FailedTyped DEF FailedRow, At, RowType
  <2>2. task'[r] = Failed /\ session'[SessionOf[r]] = "failed"
    BY <1>1, <1>2, <2>1, WriteRow, WriteSession
  <2>3. faults'[r] = faults[r] + cost /\ faults[r] \in Nat  BY <1>1, <1>2, ChargeRow
  <2>4. cost = 0 => faults' = faults  BY <1>1, <1>2 DEF Charge, MemoryType
  <2>5. cost # 0 => faults'[r] # 0  BY <2>3
  <2> QED  BY <1>1, <2>2, <2>4, <2>5 DEF SessionMoved
<1>3. CASE Charge(r, cost + 1)
  <2>1. faults'[r] = faults[r] + (cost + 1) /\ faults[r] \in Nat
    <3>1. cost + 1 \in Nat  OBVIOUS
    <3> QED  BY <1>1, <1>3, <3>1, ChargeRow
  <2>2. faults'[r] # 0  BY <2>1
  <2> QED  BY <2>2 DEF SessionMoved
<1> QED  BY <1>2, <1>3 DEF FailureBranch

LEMMA HandlerSession ==
  ASSUME TypeInv, NEW w \in Workers, RunStep(w), NEW r \in Runs, r = worker[w]
  PROVE  SessionMoved(r)
<1>1. /\ StoreType /\ MemoryType /\ pc \in [Runs -> Places]
      /\ Row(r) \in RowType /\ Row(r).session = session[SessionOf[r]]
      /\ SetUp(Row(r)) \in RowType
  BY RowTyped, RowFields, SetUpTyped DEF TypeInv, MemoryType
<1>2. CASE Begin(w)
  <2>1. Logged(SetUp(Row(r))).session = "running"
    <3>1. SetUp(Row(r)).session = "running"
      BY <1>1 DEF SetUp, Upserted, At, RowType
    <3> QED  BY <1>1, <3>1, LoggedTyped
  <2>2. pc[r] = "taken" /\ pc'[r] = "started" /\ faults' = faults /\ Write(r, Logged(SetUp(Row(r))))
    BY <1>1, <1>2, ServingRun DEF Begin, Goto
  <2> QED  BY <1>1, <2>1, <2>2, WriteSession DEF SessionMoved, Live
<1>3. CASE SetUpFails(w)
  <2>1. Charge(r, 1)  BY <1>3 DEF SetUpFails
  <2>2. faults'[r] # 0  BY <1>1, <2>1, ChargeRow
  <2> QED  BY <2>2 DEF SessionMoved
<1>4. CASE Event(w) \/ Answer(w)
  <2>1. Logged(Row(r)).session = session[SessionOf[r]]  BY <1>1, LoggedTyped
  <2>2. Write(r, Logged(Row(r))) /\ faults' = faults  BY <1>4 DEF Event, Answer
  <2>3. pc[r] \in Live  BY <1>4, ServingRun DEF Event, Answer, Live
  <2>4. pc'[r] \in Live  BY <1>1, <1>4, <2>3 DEF Event, Answer, Goto, Live
  <2> QED  BY <1>1, <2>1, <2>2, <2>3, <2>4, WriteSession DEF SessionMoved
<1>5. CASE Ask(w)
  <2>1. Asked(Row(r)).session = session[SessionOf[r]]
    BY <1>1 DEF Asked, At, Logged, RowType
  <2>2. Write(r, Asked(Row(r))) /\ faults' = faults  BY <1>5 DEF Ask
  <2>3. pc[r] \in Live /\ pc'[r] \in Live  BY <1>1, <1>5, ServingRun DEF Ask, Goto, Live
  <2> QED  BY <1>1, <2>1, <2>2, <2>3, WriteSession DEF SessionMoved
<1>6. CASE AnswerFails(w)  BY <1>1, <1>6, FailureSession DEF AnswerFails
<1>7. CASE Finish(w)
  <2>1. Succeeded(Row(r)).session = "done" /\ Succeeded(Row(r)).task = Completed
    BY <1>1, SucceededTyped DEF Succeeded, At, RowType
  <2>2. Write(r, Succeeded(Row(r))) /\ faults' = faults /\ pc'[r] = "ended"
    BY <1>1, <1>7 DEF Finish, Goto
  <2> QED  BY <1>1, <2>1, <2>2, WriteRow, WriteSession DEF SessionMoved
<1>8. CASE Abort(w)
  <2>1. \A cut \in AskedCuts(Row(r)) : cut \in RowType  BY <1>1, AskedTyped
  <2> QED  BY <1>1, <1>8, <2>1, FailureSession DEF Abort
<1>9. CASE FinishFails(w)
  <2>1. \A cut \in SucceededCuts(Row(r)) : cut \in RowType  BY <1>1, SucceededTyped
  <2> QED  BY <1>9, <2>1, FailureSession DEF FinishFails
<1> QED  BY <1>2, <1>3, <1>4, <1>5, <1>6, <1>7, <1>8, <1>9 DEF RunStep

LEMMA ResumeSession ==
  ASSUME TypeInv, NEW r \in Runs, ResumeStep(r)
  PROVE  session' = session
<1>1. StoreType /\ Row(r) \in RowType /\ Row(r).session = session[SessionOf[r]]
  BY RowTyped, RowFields DEF TypeInv
<1>2. Resolved(Row(r)) \in RowType /\ Resolved(Row(r)).session = session[SessionOf[r]]
  BY <1>1, ResumedTyped DEF Resolved, RowType
<1>3. Running \in TaskStates  BY StatesTyped
<1>4. /\ At(Resolved(Row(r)), Running) \in RowType
      /\ At(Resolved(Row(r)), Running).session = session[SessionOf[r]]
  BY <1>2, <1>3, AtTyped
<1>5. Resumed(Row(r)).session = session[SessionOf[r]]  BY <1>4, LoggedTyped DEF Resumed
<1>6. \E row : Write(r, row) /\ row.session = session[SessionOf[r]]
  BY <1>1, <1>2, <1>4, <1>5
     DEF ResumeStep, ResumeTask, ResumeStale, ResumeFails, ResumedCuts
<1> QED  BY <1>1, <1>6, RuntimeAssumption DEF Write, StoreType

(* Nothing is written, and runs wait or are lost.                          *)
LEMMA QuietSession ==
  ASSUME SessionInv, UNCHANGED <<task, session, faults, latest>>,
         \A r \in Runs : pc'[r] = pc[r] \/ pc'[r] \in {"queued", "lost"}
  PROVE  SessionInv'
BY DEF SessionInv, SessionRow, RowSays, Clean, Serviced, Live

LEMMA HandlerLatest ==
  ASSUME NEW w \in Workers, RunStep(w)
  PROVE  latest' = latest
BY DEF RunStep, Begin, SetUpFails, Event, Ask, Answer, AnswerFails, Finish, Abort,
       FinishFails, FailureBranch

LEMMA HandlerRows ==
  ASSUME TypeInv, NEW w \in Workers, RunStep(w)
  PROVE  \E r \in Runs : /\ r = worker[w] /\ pc[r] \in Serviced /\ pc'[r] \in Live \cup {"ended"}
                         /\ \E row \in RowType : Write(r, row)
                         /\ \A q \in Runs \ {r} : pc'[q] = pc[q] /\ faults'[q] = faults[q]
<1>1. PICK r \in Runs : r = worker[w]  BY HandlerStep
<1>2. CASE Progress(w)
  <2>1. /\ pc[r] \in Serviced /\ pc'[r] \in Live /\ faults' = faults
        /\ \A q \in Runs \ {r} : pc'[q] = pc[q]
    BY <1>1, <1>2, ProgressRow
  <2>2. \E row \in RowType : Write(r, row)  BY <1>1, <1>2 DEF Progress
  <2> QED  BY <1>1, <2>1, <2>2
<1>3. CASE Ends(w)
  <2>1. /\ pc[r] \in Serviced /\ pc'[r] = "ended"
        /\ \A q \in Runs \ {r} : pc'[q] = pc[q] /\ faults'[q] = faults[q]
    BY <1>1, <1>3, EndsRow
  <2>2. \E row \in RowType : Write(r, row)  BY <1>1, <1>3 DEF Ends
  <2> QED  BY <1>1, <2>1, <2>2
<1> QED  BY <1>2, <1>3, HandlerStep

(* The only worker was idle, so no run is served, and the run it takes is  *)
(* from now on the one taken last of its session.                          *)
LEMMA TakeSessionKept ==
  ASSUME OneWorker, TypeInv, PlaceInv, SessionInv, NEW w \in Workers, Take(w)
  PROVE  SessionInv'
<1>1. PICK r \in Runs : r = Head(queue)  BY DEF Take, D!Take
<1>2. worker[w] = "idle" /\ "idle" \notin Runs
  BY RuntimeAssumption DEF Take, D!Take, D!CanGet, D!Idle
<1>3. \A q \in Runs : pc[q] \notin Serviced  BY <1>2, OneWorkerAlone DEF PlaceInv
<1>4. /\ pc' = [pc EXCEPT ![r] = "taken"] /\ latest' = [latest EXCEPT ![SessionOf[r]] = r]
      /\ UNCHANGED <<task, session, faults>>
  BY <1>1 DEF Take, Goto, store
<1>5. /\ pc \in [Runs -> Places] /\ latest \in [Sessions -> Runs \cup {NoRun}]
      /\ SessionOf \in [Runs -> Sessions]
  BY RuntimeAssumption DEF TypeInv, MemoryType
<1> SUFFICES ASSUME NEW q \in Runs PROVE SessionRow(q)'
  BY DEF SessionInv
<1>6. CASE q = r  BY <1>4, <1>5, <1>6 DEF SessionRow, Live
<1>7. CASE q # r
  <2>1. pc'[q] = pc[q] /\ pc[q] \notin Serviced  BY <1>3, <1>4, <1>5, <1>7
  <2>2. latest'[SessionOf[q]] = q => latest[SessionOf[q]] = q
    BY <1>4, <1>5, <1>7
  <2> QED  BY <1>4, <2>1, <2>2 DEF SessionInv, SessionRow, RowSays, Clean, Serviced, Live
<1> QED  BY <1>6, <1>7

LEMMA HandlerSessionKept ==
  ASSUME OneWorker, TypeInv, PlaceInv, SessionInv, NEW w \in Workers, RunStep(w)
  PROVE  SessionInv'
<1>1. PICK r \in Runs :
        /\ r = worker[w] /\ pc[r] \in Serviced /\ pc'[r] \in Live \cup {"ended"}
        /\ \E row \in RowType : Write(r, row)
        /\ \A q \in Runs \ {r} : pc'[q] = pc[q] /\ faults'[q] = faults[q]
  BY HandlerRows
<1>2. PICK row \in RowType : Write(r, row)  BY <1>1
<1>3. SessionMoved(r) /\ StoreType /\ MemoryType /\ latest' = latest
  BY <1>1, HandlerSession, HandlerLatest DEF TypeInv
<1>4. latest[SessionOf[r]] = r  BY <1>1 DEF SessionInv, SessionRow
<1> SUFFICES ASSUME NEW q \in Runs PROVE SessionRow(q)'
  BY DEF SessionInv
<1>5. CASE q = r
  <2>1. latest'[SessionOf[r]] = r  BY <1>3, <1>4
  <2>2. CASE pc[r] = "taken" /\ pc'[r] \in Live /\ session'[SessionOf[r]] = "running"
    BY <1>5, <2>1, <2>2 DEF SessionRow, Live
  <2>3. CASE /\ pc[r] \in Live /\ pc'[r] \in Live /\ UNCHANGED faults
             /\ session'[SessionOf[r]] = session[SessionOf[r]]
    BY <1>5, <2>1, <2>3 DEF SessionInv, SessionRow, Clean, Live
  <2>4. CASE /\ pc'[r] = "ended"
             /\ \/ session'[SessionOf[r]] = "done" /\ task'[r] = Completed
                \/ session'[SessionOf[r]] = "failed" /\ task'[r] = Failed
    BY <1>5, <2>1, <2>4 DEF SessionRow, RowSays, Live
  <2>5. CASE faults'[r] # 0  BY <1>5, <2>1, <2>5 DEF SessionRow, Clean
  <2> QED  BY <1>3, <2>2, <2>3, <2>4, <2>5 DEF SessionMoved
<1>6. CASE q # r
  <2>1. /\ pc'[q] = pc[q] /\ faults'[q] = faults[q] /\ task'[q] = task[q]
        /\ pc[q] \notin Serviced
    BY <1>1, <1>2, <1>3, <1>6, ServedAlone, WriteRow
  <2>2. latest[SessionOf[q]] = q => session'[SessionOf[q]] = session[SessionOf[q]]
    BY <1>2, <1>3, <1>4, <1>6, WriteSession, RuntimeAssumption
  <2> QED  BY <1>3, <2>1, <2>2 DEF SessionInv, SessionRow, RowSays, Clean, Serviced, Live
<1> QED  BY <1>5, <1>6

LEMMA ResumeSessionKept ==
  ASSUME TypeInv, LiveInv, SessionInv, Moved, NEW r \in Runs, ResumeStep(r)
  PROVE  SessionInv'
<1>1. /\ session' = session /\ pc' = pc /\ latest' = latest
      /\ StoreType /\ MemoryType
  BY ResumeSession, ResumeRow
     DEF TypeInv, ResumeStep, ResumeTask, ResumeStale, ResumeFails, Resume
<1>2. \A q \in Runs : task[q] \in {Completed, Failed} => task'[q] = task[q]
  BY LiveKept DEF SettledStays, Settled
<1>3. \A q \in Runs : faults'[q] = 0 => faults[q] = 0
  <2>1. faults' = faults \/ Charge(r, 1)  BY ResumeRow
  <2> QED  BY <1>1, <2>1, ChargeRow
<1> QED  BY <1>1, <1>2, <1>3 DEF SessionInv, SessionRow, RowSays, Clean

(* What a resume torn by a crash leaves: the session's row untouched.      *)
LEMMA TornSession ==
  ASSUME TypeInv, NEW r \in Runs, pc[r] \notin Serviced, NEW row \in Torn(r)
  PROVE  row.session = session[SessionOf[r]]
<1>1. Row(r) \in RowType /\ Row(r).session = session[SessionOf[r]]
  BY RowTyped, RowFields DEF TypeInv
<1>2. Resolved(Row(r)) \in RowType /\ Resolved(Row(r)).session = session[SessionOf[r]]
  BY <1>1, ResumedTyped DEF Resolved, RowType
<1>3. At(Resolved(Row(r)), Running).session = session[SessionOf[r]]
  BY <1>2, StatesTyped, AtTyped
<1>4. row \in ResumedCuts(Row(r))  BY DEF Torn, Serviced
<1> QED  BY <1>1, <1>2, <1>3, <1>4 DEF ResumedCuts

LEMMA TornSessionKept ==
  ASSUME TypeInv, SessionInv, TornStep, latest' = latest
  PROVE  SessionInv'
<1>1. PICK r \in Runs : \E row \in Torn(r) : Write(r, row) /\ Charge(r, 1)
  BY DEF TornStep
<1>2. PICK row \in Torn(r) : Write(r, row) /\ Charge(r, 1)  BY <1>1
<1>3. StoreType /\ MemoryType  BY DEF TypeInv
<1>4. faults'[r] # 0 /\ \A q \in Runs \ {r} : faults'[q] = faults[q]
  BY <1>2, <1>3, ChargeRow
<1>5. \A q \in Runs : pc'[q] \notin Serviced /\ (pc'[q] = "ended" => pc[q] = "ended")
  BY DEF TornStep, Forgotten, Serviced
<1> SUFFICES ASSUME NEW q \in Runs, Clean(q)', pc'[q] = "ended", latest'[SessionOf[q]] = q
    PROVE RowSays(q)'
  BY <1>5 DEF SessionInv, SessionRow, Serviced, Live
<1>6. q # r  BY <1>4 DEF Clean
<1>7. RowSays(q)  BY <1>4, <1>5, <1>6 DEF SessionInv, SessionRow, Clean
<1>8. task'[q] = task[q]  BY <1>2, <1>3, <1>6, WriteRow
<1>9. session'[SessionOf[q]] = session[SessionOf[q]]
  <2>1. CASE SessionOf[q] = SessionOf[r]
    <3>1. pc[r] \notin Serviced  BY <1>6, <2>1 DEF SessionInv, SessionRow
    <3> QED  BY <1>2, <1>3, <2>1, <3>1, TornSession, WriteSession
  <2>2. CASE SessionOf[q] # SessionOf[r]
    BY <1>2, <1>3, <2>2, WriteSession, RuntimeAssumption
  <2> QED  BY <2>1, <2>2
<1> QED  BY <1>7, <1>8, <1>9 DEF RowSays

LEMMA SessionKept ==
  ASSUME OneWorker, TypeInv, PlaceInv, LiveInv, SessionInv, [Next]_vars
  PROVE  SessionInv'
<1>1. ASSUME NEW w \in Workers, Work(w) PROVE SessionInv'
  <2>1. CASE TakePill(w)  BY <2>1, QuietSession DEF TakePill, memory, store
  <2> QED  BY <1>1, <2>1, TakeSessionKept, HandlerSessionKept DEF Work
<1>2. ASSUME NEW r \in Runs, ClientStep(r) PROVE SessionInv'
  <2>1. \A q \in Runs : pc'[q] = pc[q] \/ pc'[q] = "queued"
    BY <1>2 DEF ClientStep, Submit, CloseStream, Leave, Goto, memory, TypeInv, MemoryType
  <2> QED  BY <1>2, <2>1, QuietSession DEF ClientStep, Submit, CloseStream, Leave, store
<1>3. ASSUME NEW r \in Runs, ResumeStep(r) PROVE SessionInv'
  BY <1>3, ResumeSessionKept, NextMoved
<1>4. CASE Boot \/ Shutdown
  BY <1>4, QuietSession DEF Boot, Shutdown, memory, store
<1>5. CASE Halt \/ Crash
  <2>1. pc' = [q \in Runs |-> Forgotten(q)] /\ out' = out /\ latest' = latest
    BY <1>5 DEF Halt, Crash, ForgetMemory, D!ProcessExit, Forgotten
  <2>2. CASE UNCHANGED <<store, faults>>
    BY <2>1, <2>2, QuietSession DEF store, Forgotten
  <2>3. CASE \E r \in Runs : \E row \in Torn(r) : Write(r, row) /\ Charge(r, 1)
    BY <2>1, <2>3, TornSessionKept DEF TornStep
  <2> QED  BY <1>5, <2>2, <2>3 DEF Halt, Crash
<1>6. CASE UNCHANGED vars
  BY <1>6, QuietSession DEF vars, memory, store
<1> QED  BY <1>1, <1>2, <1>3, <1>4, <1>5, <1>6 DEF Next

(* With one worker a session is RUNNING while a run of it is under way,    *)
(* and when the run of it taken last has ended it is DONE or FAILED as     *)
(* that run's task is COMPLETED or not: for each run none of whose store   *)
(* calls raised, whatever happened to the other runs of the session.       *)
THEOREM SessionFollowsRunHolds == ASSUME OneWorker PROVE Spec => []SessionFollowsRun
<1> DEFINE Inv == TypeInv /\ PlaceInv /\ LiveInv /\ SessionInv
<1>1. Init => Inv
  <2> SUFFICES ASSUME Init PROVE LiveInv /\ SessionInv  BY InitType, InitPlace
  <2>1. LiveInv  BY DEF Init, LiveInv, LiveRow, Live
  <2>2. SessionInv  BY DEF Init, SessionInv, SessionRow, Serviced, Live
  <2> QED  BY <2>1, <2>2
<1>2. ASSUME Inv, [Next]_vars PROVE Inv'
  <2>1. Moved /\ TypeInv' /\ PlaceInv'  BY <1>2, NextMoved, NextType, NextPlace, PlaceKept
  <2>2. LiveInv'  BY <1>2, <2>1, LiveKept
  <2>3. SessionInv'  BY <1>2, SessionKept
  <2> QED  BY <2>1, <2>2, <2>3
<1>3. Inv => SessionFollowsRun
  BY DEF SessionFollowsRun, SessionInv, SessionRow, RowSays, Live, Completed, Failed
<1> QED  BY <1>1, <1>2, <1>3, PTL DEF Spec
=============================================================================
