------------------------- MODULE AgentRuntime_proofs -------------------------
(***************************************************************************)
(* Proofs about the backend, for every set of runs, workers, sessions and  *)
(* prompts, both engines, and any number of events, faults and restarts.   *)
(* What concerns the distributor is taken from TaskDistributor_proofs.     *)
(***************************************************************************)
EXTENDS AgentRuntime, FiniteSetTheorems, SequenceTheorems, TLAPS

DP == INSTANCE TaskDistributor_proofs WITH Tasks <- Runs, Handled <- Runs

LEMMA DistAssumption == DP!DistributorAssumption
BY RuntimeAssumption
   DEF DP!DistributorAssumption, DP!Stop, DP!Idle, DP!Exited, DP!IsFiniteSet, IsFiniteSet

-----------------------------------------------------------------------------
(* What each action does to the distributor.                               *)

(* A step of the backend, as the distributor sees it.                      *)
DistStep ==
  \/ \E r \in Runs : pc[r] = "new" /\ pc' = [pc EXCEPT ![r] = "queued"] /\ DP!Enqueue(r)
  \/ DP!Start
  \/ DP!StopRequest
  \/ DP!ProcessExit
  \/ \E w \in Workers : DP!TakePill(w)
  \/ \E w \in Workers : DP!Take(w)
  \/ \E w \in Workers : \E put \in Seq(DP!Frames) : DP!Put(w, put)
  \/ \E w \in Workers : \E put \in Seq(DP!Frames) : \E raised \in BOOLEAN : DP!Return(w, put, raised)
  \/ UNCHANGED dvars

LEMMA BridgeQueue ==
  /\ \A r \in Runs : D!Enqueue(r) <=> DP!Enqueue(r)
  /\ D!Start <=> DP!Start
  /\ D!ProcessExit <=> DP!ProcessExit
BY DEF D!Enqueue, DP!Enqueue, D!Start, DP!Start, D!ProcessExit, DP!ProcessExit,
       D!Idle, DP!Idle, D!Exited, DP!Exited, D!ZeroMetrics, DP!ZeroMetrics,
       D!Counters, DP!Counters

LEMMA BridgeStop == D!StopRequest <=> DP!StopRequest
BY DEF D!StopRequest, DP!StopRequest, D!Pills, DP!Pills, D!Stop, DP!Stop,
       D!Cardinality, DP!Cardinality, D!IsFiniteSet, DP!IsFiniteSet

LEMMA BridgeGet ==
  ASSUME NEW w
  PROVE  /\ D!TakePill(w) <=> DP!TakePill(w)
         /\ D!Take(w) <=> DP!Take(w)
         /\ D!Busy(w) <=> DP!Busy(w)
BY DEF D!TakePill, DP!TakePill, D!Take, DP!Take, D!CanGet, DP!CanGet, D!Idle, DP!Idle,
       D!Exited, DP!Exited, D!Stop, DP!Stop, D!Busy, DP!Busy

LEMMA BridgeHandler ==
  ASSUME NEW w, NEW put, NEW raised
  PROVE  /\ D!Put(w, put) <=> DP!Put(w, put)
         /\ D!Return(w, put, raised) <=> DP!Return(w, put, raised)
BY DEF D!Put, DP!Put, D!Return, DP!Return, D!Busy, DP!Busy, D!Idle, DP!Idle

LEMMA FrameSeqs ==
  /\ <<>> \in Seq(DP!Frames) /\ <<"message">> \in Seq(DP!Frames)
  /\ <<"END">> \in Seq(DP!Frames) /\ <<"done">> \in Seq(DP!Frames)
  /\ <<"done", "END">> \in Seq(DP!Frames) /\ <<"error", "END">> \in Seq(DP!Frames)
BY DEF DP!Frames

(* The last slice of a run that takes the service's except branch.         *)
LEMMA FailureDist ==
  ASSUME NEW w \in Workers, NEW row, NEW put \in Seq(DP!Frames), NEW cost,
         FailureBranch(w, row, put, cost)
  PROVE  DistStep
<1>1. put \o <<"error", "END">> \in Seq(DP!Frames) /\ put \o <<"END">> \in Seq(DP!Frames)
  BY FrameSeqs, ConcatProperties
<1>2. \E p \in Seq(DP!Frames) : \E raised \in BOOLEAN : D!Return(w, p, raised)
  BY <1>1 DEF FailureBranch
<1> QED  BY <1>2, BridgeHandler DEF DistStep

LEMMA RunDist ==
  ASSUME NEW w \in Workers, RunStep(w)
  PROVE  DistStep
<1>1. ASSUME NEW put \in Seq(DP!Frames), D!Put(w, put) PROVE DistStep
  BY <1>1, BridgeHandler DEF DistStep
<1>2. ASSUME NEW put \in Seq(DP!Frames), NEW raised \in BOOLEAN, D!Return(w, put, raised)
      PROVE  DistStep
  BY <1>2, BridgeHandler DEF DistStep
<1>3. CASE Begin(w)  BY <1>1, <1>3, FrameSeqs DEF Begin
<1>4. CASE SetUpFails(w)  BY <1>2, <1>4, FrameSeqs DEF SetUpFails
<1>5. CASE Event(w)  BY <1>1, <1>5, FrameSeqs DEF Event
<1>6. CASE Ask(w)  BY <1>1, <1>6, FrameSeqs DEF Ask
<1>7. CASE Answer(w)  BY <1>1, <1>7, FrameSeqs DEF Answer
<1>8. CASE AnswerFails(w)  BY <1>8, FrameSeqs, FailureDist DEF AnswerFails
<1>9. CASE Finish(w)  BY <1>2, <1>9, FrameSeqs DEF Finish
<1>10. CASE Abort(w)  BY <1>10, FrameSeqs, FailureDist DEF Abort
<1>11. CASE FinishFails(w)  BY <1>11, FrameSeqs, FailureDist DEF FinishFails
<1> QED  BY <1>3, <1>4, <1>5, <1>6, <1>7, <1>8, <1>9, <1>10, <1>11 DEF RunStep

LEMMA NextDist == [Next]_vars => DistStep
<1> SUFFICES ASSUME [Next]_vars PROVE DistStep  OBVIOUS
<1>1. ASSUME NEW w \in Workers, Work(w) PROVE DistStep
  <2>1. CASE Take(w)  BY <2>1, BridgeGet DEF Take, DistStep
  <2>2. CASE TakePill(w)  BY <2>2, BridgeGet DEF TakePill, DistStep
  <2> QED  BY <1>1, <2>1, <2>2, RunDist DEF Work
<1>2. ASSUME NEW r \in Runs, ClientStep(r) PROVE DistStep
  <2>1. CASE Submit(r)  BY <2>1, BridgeQueue DEF Submit, Goto, DistStep
  <2> QED  BY <1>2, <2>1 DEF ClientStep, CloseStream, Leave, DistStep
<1>3. ASSUME NEW r \in Runs, ResumeStep(r) PROVE DistStep
  BY <1>3 DEF ResumeStep, ResumeTask, ResumeStale, ResumeFails, Resume, DistStep
<1>4. CASE Boot  BY <1>4, BridgeQueue DEF Boot, DistStep
<1>5. CASE Shutdown  BY <1>5, BridgeStop DEF Shutdown, DistStep
<1>6. CASE Halt  BY <1>6, BridgeQueue DEF Halt, ForgetMemory, DistStep
<1>7. CASE Crash  BY <1>7, BridgeQueue DEF Crash, ForgetMemory, DistStep
<1>8. CASE UNCHANGED vars  BY <1>8 DEF vars, DistStep
<1> QED  BY <1>1, <1>2, <1>3, <1>4, <1>5, <1>6, <1>7, <1>8 DEF Next

LEMMA DistType == DP!TypeInv /\ DistStep => DP!TypeInv'
<1> SUFFICES ASSUME DP!TypeInv, DistStep PROVE DP!TypeInv'  OBVIOUS
<1>1. CASE UNCHANGED dvars
  BY <1>1, DP!StutterType, DistAssumption DEF dvars, DP!dvars
<1> QED  BY <1>1, DistAssumption, DP!EnqueueType, DP!StartType, DP!StopRequestType,
            DP!ProcessExitType, DP!TakePillType, DP!TakeType, DP!PutType, DP!ReturnType
         DEF DistStep

-----------------------------------------------------------------------------
(* What each action does to the store: nothing, or one run's rows.         *)
SessionStates == {"absent", "running", "done", "failed"}
HitlStates == {"none", "waiting", "resumed"}
RowType == [task : TaskStates, session : SessionStates, hitl : HitlStates, events : Nat]

StoreType ==
  /\ task \in [Runs -> TaskStates]
  /\ session \in [Sessions -> SessionStates]
  /\ hitl \in [Runs -> HitlStates]
  /\ asked \in Seq(Runs)
  /\ events \in [Runs -> Nat]

LEMMA RowTyped ==
  ASSUME StoreType, NEW r \in Runs
  PROVE  Row(r) \in RowType
BY RuntimeAssumption DEF StoreType, Row, RowType

LEMMA WriteTyped ==
  ASSUME StoreType, NEW r \in Runs, NEW row \in RowType, Write(r, row)
  PROVE  StoreType'
BY RuntimeAssumption, AppendProperties DEF StoreType, Write, RowType

(* The operators on rows.                                                  *)
LEMMA AtTyped ==
  ASSUME NEW row \in RowType, NEW s \in TaskStates
  PROVE  /\ At(row, s) \in RowType
         /\ At(row, s).task = s /\ At(row, s).session = row.session
         /\ At(row, s).hitl = row.hitl /\ At(row, s).events = row.events
BY DEF At, RowType

LEMMA LoggedTyped ==
  ASSUME NEW row \in RowType
  PROVE  /\ Logged(row) \in RowType
         /\ Logged(row).task = row.task /\ Logged(row).hitl = row.hitl
         /\ Logged(row).session = row.session /\ Logged(row).events = row.events + 1
BY DEF Logged, RowType

LEMMA StatesTyped ==
  {Absent, Created, Queue, Running, Waiting, Completed, Failed} \subseteq TaskStates
BY DEF TaskStates

LEMMA SetUpTyped ==
  ASSUME NEW row \in RowType
  PROVE  /\ SetUp(row) \in RowType /\ SetUp(row).task = Running
         /\ SetUp(row).hitl = row.hitl /\ SetUp(row).events = row.events
         /\ \A cut \in SetUpCuts(row) :
              /\ cut \in RowType /\ cut.hitl = row.hitl /\ cut.events = row.events
              /\ cut.task \in {row.task, Created, Queue}
<1> DEFINE up == Upserted(row)
<1>1. /\ up \in RowType /\ up.task = row.task
      /\ up.hitl = row.hitl /\ up.events = row.events
  BY DEF Upserted, RowType, SessionStates
<1>2. \A s \in {Created, Queue, Running} :
        /\ At(up, s) \in RowType /\ At(up, s).task = s
        /\ At(up, s).hitl = row.hitl /\ At(up, s).events = row.events
  BY <1>1, StatesTyped, AtTyped
<1>3. SetUp(row) = At(up, Running)  BY DEF SetUp
<1>4. SetUpCuts(row) = {row, up, At(up, Created), At(up, Queue)}  BY DEF SetUpCuts
<1> HIDE DEF up
<1> QED  BY <1>1, <1>2, <1>3, <1>4

LEMMA AskedTyped ==
  ASSUME NEW row \in RowType
  PROVE  /\ Asked(row) \in RowType /\ Asked(row).task = Waiting
         /\ Asked(row).hitl = "waiting" /\ Asked(row).events = row.events + 1
         /\ \A cut \in AskedCuts(row) :
              /\ cut \in RowType /\ cut.hitl = row.hitl /\ cut.events >= row.events
              /\ cut.task \in {row.task, Waiting}
<1> DEFINE log == Logged(row)
           wait == At(log, Waiting)
<1>1. log \in RowType /\ log.task = row.task /\ log.hitl = row.hitl /\ log.events = row.events + 1
  BY LoggedTyped
<1>2. wait \in RowType /\ wait.task = Waiting /\ wait.hitl = row.hitl /\ wait.events = row.events + 1
  BY <1>1, StatesTyped, AtTyped
<1>3. row.events \in Nat  BY DEF RowType
<1>4. Asked(row) = [wait EXCEPT !.hitl = "waiting"]  BY DEF Asked
<1>5. AskedCuts(row) = {row, log, wait}  BY DEF AskedCuts
<1> HIDE DEF log, wait
<1>6. Asked(row) \in RowType /\ Asked(row).task = Waiting
        /\ Asked(row).hitl = "waiting" /\ Asked(row).events = row.events + 1
  BY <1>2, <1>4 DEF RowType, HitlStates
<1> QED  BY <1>1, <1>2, <1>3, <1>5, <1>6

LEMMA SucceededTyped ==
  ASSUME NEW row \in RowType
  PROVE  /\ Succeeded(row) \in RowType /\ Succeeded(row).task = Completed
         /\ Succeeded(row).hitl = row.hitl /\ Succeeded(row).events = row.events
         /\ \A cut \in SucceededCuts(row) :
              /\ cut \in RowType /\ cut.hitl = row.hitl /\ cut.events = row.events
              /\ cut.task \in {row.task, Completed}
                   \cup (IF row.task = Waiting THEN {Running} ELSE {})
<1> DEFINE mid == IF row.task = Waiting THEN Running ELSE row.task
           end == At(row, Completed)
<1>1. end \in RowType /\ end.task = Completed /\ end.hitl = row.hitl /\ end.events = row.events
  BY StatesTyped, AtTyped
<1>2. row.task \in TaskStates  BY DEF RowType
<1>3. mid \in TaskStates
  BY <1>2, StatesTyped
<1>4. At(row, mid) \in RowType /\ At(row, mid).task = mid
        /\ At(row, mid).hitl = row.hitl /\ At(row, mid).events = row.events
  BY <1>3, AtTyped
<1>5. Succeeded(row) = [end EXCEPT !.session = "done"]  BY DEF Succeeded
<1>6. SucceededCuts(row) = {row, At(row, mid), end}  BY DEF SucceededCuts
<1>7. mid \in {row.task} \cup (IF row.task = Waiting THEN {Running} ELSE {})
  OBVIOUS
<1> HIDE DEF mid, end
<1>8. Succeeded(row) \in RowType /\ Succeeded(row).task = Completed
        /\ Succeeded(row).hitl = row.hitl /\ Succeeded(row).events = row.events
  BY <1>1, <1>5 DEF RowType, SessionStates
<1> QED  BY <1>1, <1>4, <1>6, <1>7, <1>8

LEMMA FailedTyped ==
  ASSUME NEW row \in RowType
  PROVE  /\ FailedRow(row) \in RowType /\ FailedRow(row).task = Failed
         /\ FailedRow(row).hitl = row.hitl /\ FailedRow(row).events = row.events
         /\ \A cut \in FailedCuts(row) :
              /\ cut \in RowType /\ cut.hitl = row.hitl /\ cut.events = row.events
              /\ cut.task \in {row.task, Failed}
<1> DEFINE end == At(row, Failed)
<1>1. end \in RowType /\ end.task = Failed /\ end.hitl = row.hitl /\ end.events = row.events
  BY StatesTyped, AtTyped
<1>2. FailedRow(row) = [end EXCEPT !.session = "failed"]  BY DEF FailedRow
<1>3. FailedCuts(row) = {row, end}  BY DEF FailedCuts
<1> HIDE DEF end
<1>4. FailedRow(row) \in RowType /\ FailedRow(row).task = Failed
        /\ FailedRow(row).hitl = row.hitl /\ FailedRow(row).events = row.events
  BY <1>1, <1>2 DEF RowType, SessionStates
<1> QED  BY <1>1, <1>3, <1>4

LEMMA ResumedTyped ==
  ASSUME NEW row \in RowType
  PROVE  /\ Resolved(row) \in RowType /\ Resolved(row).task = row.task
         /\ Resolved(row).hitl = "resumed" /\ Resolved(row).events = row.events
         /\ Resumed(row) \in RowType /\ Resumed(row).task = Running
         /\ Resumed(row).events = row.events + 1 /\ Resumed(row).hitl = "resumed"
         /\ \A cut \in ResumedCuts(row) :
              /\ cut \in RowType /\ cut.events = row.events
              /\ cut.hitl \in {row.hitl, "resumed"}
              /\ cut.task \in {row.task, Running}
<1> DEFINE res == Resolved(row)
           run == At(res, Running)
<1>1. res \in RowType /\ res.task = row.task /\ res.hitl = "resumed" /\ res.events = row.events
  BY DEF Resolved, RowType, HitlStates
<1>2. run \in RowType /\ run.task = Running /\ run.hitl = "resumed" /\ run.events = row.events
  BY <1>1, StatesTyped, AtTyped
<1>3. Resumed(row) = Logged(run)  BY DEF Resumed
<1>4. ResumedCuts(row) = {row, res, run}  BY DEF ResumedCuts
<1> HIDE DEF run
<1>5. Resumed(row) \in RowType /\ Resumed(row).task = Running
        /\ Resumed(row).hitl = "resumed" /\ Resumed(row).events = row.events + 1
  BY <1>2, <1>3, LoggedTyped
<1> QED  BY <1>1, <1>2, <1>4, <1>5

(* A step of the backend, as the store sees it: nothing, or the rows of    *)
(* one run.                                                                *)
StoreStep ==
  \/ UNCHANGED store
  \/ \E r \in Runs : \E row \in RowType : Write(r, row)

LEMMA FailureStore ==
  ASSUME NEW w \in Workers, worker[w] \in Runs, NEW row \in RowType, NEW put, NEW cost,
         FailureBranch(w, row, put, cost)
  PROVE  StoreStep
BY FailedTyped DEF FailureBranch, StoreStep

LEMMA TornTyped ==
  ASSUME StoreType, NEW r \in Runs
  PROVE  Torn(r) \subseteq RowType
<1>1. Row(r) \in RowType  BY RowTyped
<1>2. SetUp(Row(r)) \in RowType /\ Logged(Row(r)) \in RowType
  BY <1>1, SetUpTyped, LoggedTyped
<1> QED  BY <1>1, <1>2, SetUpTyped, AskedTyped, SucceededTyped, FailedTyped, ResumedTyped DEF Torn

LEMMA ServingRun ==
  ASSUME NEW w, NEW place, Serving(w, place)
  PROVE  worker[w] \in Runs /\ pc[worker[w]] \in place
BY DEF Serving, D!Busy

LEMMA RunStore ==
  ASSUME StoreType, NEW w \in Workers, RunStep(w)
  PROVE  StoreStep
<1> DEFINE r == worker[w]
<1>1. r \in Runs
  BY ServingRun DEF RunStep, Begin, SetUpFails, Event, Ask, Answer, AnswerFails, Finish,
                    Abort, FinishFails
<1>2. Row(r) \in RowType  BY <1>1, RowTyped
<1>3. SetUp(Row(r)) \in RowType /\ Logged(SetUp(Row(r))) \in RowType /\ Logged(Row(r)) \in RowType
  BY <1>2, SetUpTyped, LoggedTyped
<1>4. ASSUME NEW row \in RowType, Write(r, row) PROVE StoreStep
  BY <1>1, <1>4 DEF StoreStep
<1>5. CASE Begin(w)  BY <1>3, <1>4, <1>5 DEF Begin
<1>6. CASE SetUpFails(w)  BY <1>2, <1>4, <1>6, SetUpTyped DEF SetUpFails
<1>7. CASE Event(w)  BY <1>3, <1>4, <1>7 DEF Event
<1>8. CASE Ask(w)  BY <1>2, <1>4, <1>8, AskedTyped DEF Ask
<1>9. CASE Answer(w)  BY <1>3, <1>4, <1>9 DEF Answer
<1>10. CASE AnswerFails(w)  BY <1>1, <1>2, <1>10, FailureStore DEF AnswerFails
<1>11. CASE Finish(w)  BY <1>2, <1>4, <1>11, SucceededTyped DEF Finish
<1>12. CASE Abort(w)  BY <1>1, <1>2, <1>3, <1>12, AskedTyped, FailureStore DEF Abort
<1>13. CASE FinishFails(w)  BY <1>1, <1>2, <1>13, SucceededTyped, FailureStore DEF FinishFails
<1> QED  BY <1>5, <1>6, <1>7, <1>8, <1>9, <1>10, <1>11, <1>12, <1>13 DEF RunStep

LEMMA NextStore == StoreType /\ [Next]_vars => StoreStep
<1> SUFFICES ASSUME StoreType, [Next]_vars PROVE StoreStep  OBVIOUS
<1>1. ASSUME NEW w \in Workers, Work(w) PROVE StoreStep
  BY <1>1, RunStore DEF Work, Take, TakePill, StoreStep
<1>2. ASSUME NEW r \in Runs, ClientStep(r) PROVE StoreStep
  BY <1>2 DEF ClientStep, Submit, CloseStream, Leave, StoreStep
<1>3. ASSUME NEW r \in Runs, ResumeStep(r) PROVE StoreStep
  BY <1>3, RowTyped, ResumedTyped DEF ResumeStep, ResumeTask, ResumeStale, ResumeFails, StoreStep
<1>4. CASE Boot \/ Shutdown \/ Halt  BY <1>4 DEF Boot, Shutdown, Halt, StoreStep
<1>5. CASE Crash  BY <1>5, TornTyped DEF Crash, StoreStep
<1>6. CASE UNCHANGED vars  BY <1>6 DEF vars, StoreStep
<1> QED  BY <1>1, <1>2, <1>3, <1>4, <1>5, <1>6 DEF Next

LEMMA StoreTyped == StoreType /\ StoreStep => StoreType'
<1> SUFFICES ASSUME StoreType, StoreStep PROVE StoreType'  OBVIOUS
<1>1. CASE UNCHANGED store  BY <1>1 DEF store, StoreType
<1> QED  BY <1>1, WriteTyped DEF StoreStep

-----------------------------------------------------------------------------
(* Type correctness.                                                       *)
MemoryType ==
  /\ boots \in 0..MaxBoots
  /\ pc \in [Runs -> Places]
  /\ steps \in [Runs -> 0..MaxEvents]
  /\ answers \in [Prompts -> Runs \cup {NoRun}]
  /\ replied \in [Runs -> Runs \cup {NoRun}]
  /\ faults \in [Runs -> 0..MaxFaults]
  /\ latest \in [Sessions -> Runs \cup {NoRun}]
  /\ client \in [Runs -> {"none", "open", "closed", "broken"}]

TypeInv == DP!TypeInv /\ StoreType /\ MemoryType

LEMMA TypeParts == TypeInv => TypeOK
BY DEF TypeInv, DP!TypeInv, DP!TypeOK, D!TypeOK, DP!Stop, D!Stop, DP!Idle, D!Idle,
       DP!Exited, D!Exited, DP!Counters, D!Counters, DP!Frames, D!Frames,
       StoreType, SessionStates, HitlStates, MemoryType, TypeOK

LEMMA InitType == Init => TypeInv
<1> SUFFICES ASSUME Init PROVE TypeInv  OBVIOUS
<1>1. DP!Init
  BY DEF Init, D!Init, DP!Init, D!Exited, DP!Exited, D!ZeroMetrics, DP!ZeroMetrics,
         D!Counters, DP!Counters
<1>2. DP!TypeInv  BY <1>1, DP!InitTypeInv, DistAssumption
<1>3. StoreType
  <2>1. asked \in Seq(Runs)  BY DEF Init
  <2> QED  BY <2>1, StatesTyped DEF Init, StoreType, SessionStates, HitlStates
<1>4. MemoryType
  BY RuntimeAssumption DEF Init, MemoryType, Places
<1> QED  BY <1>2, <1>3, <1>4 DEF TypeInv

LEMMA ChargeTyped ==
  ASSUME MemoryType, NEW r \in Runs, NEW n \in Nat, Charge(r, n)
  PROVE  faults' \in [Runs -> 0..MaxFaults]
BY RuntimeAssumption DEF MemoryType, Charge

LEMMA GotoTyped ==
  ASSUME MemoryType, NEW r, NEW place \in Places, Goto(r, place)
  PROVE  pc' \in [Runs -> Places]
BY DEF MemoryType, Goto

LEMMA AnswersTyped ==
  ASSUME MemoryType, NEW r \in Runs
  PROVE  /\ StoreAnswer(r) => answers' \in [Prompts -> Runs \cup {NoRun}]
         /\ Reply(r) => replied' \in [Runs -> Runs \cup {NoRun}]
BY RuntimeAssumption DEF MemoryType, StoreAnswer, Reply

LEMMA FailureMemory ==
  ASSUME MemoryType, NEW w \in Workers, worker[w] \in Runs, NEW row, NEW put, NEW cost \in Nat,
         FailureBranch(w, row, put, cost),
         answers' \in [Prompts -> Runs \cup {NoRun}],
         replied' \in [Runs -> Runs \cup {NoRun}]
  PROVE  MemoryType'
<1>1. pc' \in [Runs -> Places]  BY GotoTyped DEF FailureBranch, Places
<1>2. faults' \in [Runs -> 0..MaxFaults]
  <2>1. Charge(worker[w], cost) \/ Charge(worker[w], cost + 1)
    BY DEF FailureBranch
  <2>2. cost + 1 \in Nat  OBVIOUS
  <2> QED  BY <2>1, <2>2, ChargeTyped
<1> QED  BY <1>1, <1>2 DEF FailureBranch, MemoryType

LEMMA RunMemory ==
  ASSUME MemoryType, NEW w \in Workers, RunStep(w)
  PROVE  MemoryType'
<1> DEFINE r == worker[w]
<1>1. r \in Runs
  BY ServingRun DEF RunStep, Begin, SetUpFails, Event, Ask, Answer, AnswerFails, Finish,
                    Abort, FinishFails
<1>2. /\ StoreAnswer(r) => answers' \in [Prompts -> Runs \cup {NoRun}]
      /\ Reply(r) => replied' \in [Runs -> Runs \cup {NoRun}]
  BY <1>1, AnswersTyped
<1>3. /\ UNCHANGED answers => answers' \in [Prompts -> Runs \cup {NoRun}]
      /\ UNCHANGED replied => replied' \in [Runs -> Runs \cup {NoRun}]
  BY DEF MemoryType
<1>4. {"started", "asked", "answered", "ended"} \subseteq Places  BY DEF Places
<1>5. CASE Begin(w)  BY <1>4, <1>5, GotoTyped DEF Begin, MemoryType
<1>6. CASE SetUpFails(w)
  BY <1>1, <1>4, <1>6, GotoTyped, ChargeTyped DEF SetUpFails, MemoryType
<1>7. CASE Event(w)
  <2>1. steps' \in [Runs -> 0..MaxEvents]
    BY <1>1, <1>7, RuntimeAssumption DEF Event, MemoryType
  <2> QED  BY <1>7, <2>1 DEF Event, MemoryType
<1>8. CASE Ask(w)  BY <1>4, <1>8, GotoTyped DEF Ask, MemoryType
<1>9. CASE Answer(w)  BY <1>2, <1>4, <1>9, GotoTyped DEF Answer, MemoryType
<1>10. CASE AnswerFails(w)  BY <1>1, <1>2, <1>3, <1>10, FailureMemory DEF AnswerFails
<1>11. CASE Finish(w)  BY <1>2, <1>4, <1>11, GotoTyped DEF Finish, MemoryType
<1>12. CASE Abort(w)  BY <1>1, <1>3, <1>12, FailureMemory DEF Abort
<1>13. CASE FinishFails(w)  BY <1>1, <1>2, <1>3, <1>13, FailureMemory DEF FinishFails
<1> QED  BY <1>5, <1>6, <1>7, <1>8, <1>9, <1>10, <1>11, <1>12, <1>13 DEF RunStep

LEMMA ForgetTyped ==
  ASSUME MemoryType, ForgetMemory
  PROVE  /\ answers' \in [Prompts -> Runs \cup {NoRun}]
         /\ pc' \in [Runs -> Places]
         /\ UNCHANGED <<boots, latest, steps, replied>>
BY DEF MemoryType, ForgetMemory, Places

LEMMA NextMemory == MemoryType /\ [Next]_vars => MemoryType'
<1> SUFFICES ASSUME MemoryType, [Next]_vars PROVE MemoryType'  OBVIOUS
<1>1. ASSUME NEW w \in Workers, Work(w) PROVE MemoryType'
  <2>1. CASE Take(w)
    <3>1. "taken" \in Places  BY DEF Places
    <3>2. Head(queue) \in Runs  BY <2>1 DEF Take, D!Take
    <3>3. latest' \in [Sessions -> Runs \cup {NoRun}]
      BY <2>1, <3>2 DEF Take, MemoryType
    <3> QED  BY <2>1, <3>1, <3>3, GotoTyped DEF Take, MemoryType
  <2>2. CASE TakePill(w)  BY <2>2 DEF TakePill, memory, MemoryType
  <2> QED  BY <1>1, <2>1, <2>2, RunMemory DEF Work
<1>2. ASSUME NEW r \in Runs, ClientStep(r) PROVE MemoryType'
  <2>1. CASE Submit(r)
    <3>1. "queued" \in Places  BY DEF Places
    <3> QED  BY <2>1, <3>1, GotoTyped DEF Submit, MemoryType
  <2>2. CASE CloseStream(r)  BY <2>2 DEF CloseStream, memory, MemoryType
  <2>3. CASE Leave(r)  BY <2>3 DEF Leave, memory, MemoryType
  <2> QED  BY <1>2, <2>1, <2>2, <2>3 DEF ClientStep
<1>3. ASSUME NEW r \in Runs, ResumeStep(r) PROVE MemoryType'
  <2>1. faults' \in [Runs -> 0..MaxFaults]
    BY <1>3, ChargeTyped DEF ResumeStep, ResumeTask, ResumeStale, ResumeFails, MemoryType
  <2> QED
    BY <1>3, <2>1 DEF ResumeStep, ResumeTask, ResumeStale, ResumeFails, Resume, memory, MemoryType
<1>4. CASE Boot
  BY <1>4, RuntimeAssumption DEF Boot, memory, MemoryType
<1>5. CASE Shutdown  BY <1>5 DEF Shutdown, BreakStreams, memory, MemoryType
<1>6. CASE Halt  BY <1>6, ForgetTyped DEF Halt, MemoryType
<1>7. CASE Crash
  <2>1. faults' \in [Runs -> 0..MaxFaults]
    BY <1>7, ChargeTyped DEF Crash, MemoryType
  <2>2. client' \in [Runs -> {"none", "open", "closed", "broken"}]
    BY <1>7 DEF Crash, BreakStreams, MemoryType
  <2> QED  BY <1>7, <2>1, <2>2, ForgetTyped DEF Crash, MemoryType
<1>8. CASE UNCHANGED vars  BY <1>8 DEF vars, memory, MemoryType
<1> QED  BY <1>1, <1>2, <1>3, <1>4, <1>5, <1>6, <1>7, <1>8 DEF Next

LEMMA NextType == TypeInv /\ [Next]_vars => TypeInv'
<1> SUFFICES ASSUME TypeInv, [Next]_vars PROVE TypeInv'  OBVIOUS
<1>1. DP!TypeInv'  BY NextDist, DistType DEF TypeInv
<1>2. StoreType'  BY NextStore, StoreTyped DEF TypeInv
<1>3. MemoryType'  BY NextMemory DEF TypeInv
<1> QED  BY <1>1, <1>2, <1>3 DEF TypeInv

(* The inductive form of TypeOK.                                           *)
THEOREM TypeInvariant == Spec => []TypeInv
<1>1. Init => TypeInv  BY InitType
<1>2. TypeInv /\ [Next]_vars => TypeInv'  BY NextType
<1> QED  BY <1>1, <1>2, PTL DEF Spec

(* The backend keeps the types of its variables, whatever store calls      *)
(* raise, clients do and processes die.                                    *)
THEOREM TypeCorrect == Spec => []TypeOK
<1>1. TypeInv => TypeOK  BY TypeParts
<1> QED  BY <1>1, TypeInvariant, PTL

-----------------------------------------------------------------------------
(* The nine actions of a handler come down to two kinds: a slice that      *)
(* persists and streams a message, and a last slice.                       *)
Live == {"started", "asked", "answered"}

Moves(r, row, place) ==
  \/ pc[r] = "taken" /\ place = "started" /\ row.task = Running /\ row.hitl = hitl[r]
  \/ pc[r] \in Live /\ place \in Live /\ row.task = task[r] /\ row.hitl = hitl[r]
  \/ pc[r] = "started" /\ place = "asked" /\ row.task = Waiting /\ row.hitl = "waiting"

Progress(w) ==
  LET r == worker[w] IN
  \E row \in RowType : \E place \in Live :
    /\ Moves(r, row, place)
    /\ Write(r, row) /\ row.events = events[r] + 1
    /\ D!Put(w, <<"message">>)
    /\ pc' = [pc EXCEPT ![r] = place]
    /\ UNCHANGED <<faults, client>>

LastFrames == {<<"END">>, <<"done", "END">>, <<"error", "END">>, <<"done", "error", "END">>}

(* Without a fault the frames say what the task becomes; with one, a task  *)
(* that becomes COMPLETED has a done frame and no error before the         *)
(* sentinel.                                                               *)
Agrees(r, row, put, raised) ==
  \/ /\ faults' = faults /\ ~raised
     /\ \/ put = <<"done", "END">> /\ row.task = Completed
        \/ put = <<"error", "END">> /\ row.task = Failed
  \/ /\ \E n \in Nat \ {0} : Charge(r, n)
     /\ row.task = Completed => task[r] = Completed \/ put = <<"done", "END">>

Ends(w) ==
  LET r == worker[w] IN
  \E row \in RowType : \E put \in LastFrames : \E raised \in BOOLEAN :
    /\ pc[r] \in Serviced
    /\ Write(r, row) /\ row.events >= events[r]
    /\ D!Return(w, put, raised)
    /\ pc' = [pc EXCEPT ![r] = "ended"]
    /\ UNCHANGED client
    /\ Agrees(r, row, put, raised)

LEMMA RowFields ==
  ASSUME NEW r
  PROVE  /\ Row(r).task = task[r] /\ Row(r).hitl = hitl[r]
         /\ Row(r).events = events[r] /\ Row(r).session = session[SessionOf[r]]
BY DEF Row

LEMMA PutShapes ==
  /\ <<>> \o <<"error", "END">> = <<"error", "END">>
  /\ <<>> \o <<"END">> = <<"END">>
  /\ <<"done">> \o <<"error", "END">> = <<"done", "error", "END">>
  /\ <<"done">> \o <<"END">> = <<"done", "END">>
<1> DEFINE S == {"done", "error", "END"}
<1>1. /\ <<"done">> \in Seq(S) /\ <<"END">> \in Seq(S) /\ <<"error", "END">> \in Seq(S)
      /\ <<"done", "error", "END">> \in Seq(S) /\ <<"done", "END">> \in Seq(S)
  OBVIOUS
<1>2. <<>> \o <<"error", "END">> = <<"error", "END">> /\ <<>> \o <<"END">> = <<"END">>
  BY <1>1, ConcatEmptySeq
<1>3. <<"done">> \o <<"error", "END">> = <<"done", "error", "END">>
  <2> DEFINE c == <<"done">> \o <<"error", "END">>
             d == <<"done", "error", "END">>
  <2>1. c \in Seq(S) /\ Len(c) = 3 /\ c[1] = "done" /\ c[2] = "error" /\ c[3] = "END"
    BY <1>1, ConcatProperties
  <2>2. d \in Seq(S) /\ Len(d) = 3 /\ d[1] = "done" /\ d[2] = "error" /\ d[3] = "END"
    BY <1>1
  <2>3. c = d
    <3> HIDE DEF c, d
    <3>1. \A i \in 1..Len(c) : c[i] = d[i]  BY <2>1, <2>2
    <3> QED  BY <2>1, <2>2, <3>1, SeqEqual
  <2> QED  BY <2>3
<1>4. <<"done">> \o <<"END">> = <<"done", "END">>
  <2> DEFINE c == <<"done">> \o <<"END">>
             d == <<"done", "END">>
  <2>1. c \in Seq(S) /\ Len(c) = 2 /\ c[1] = "done" /\ c[2] = "END"
    BY <1>1, ConcatProperties
  <2>2. d \in Seq(S) /\ Len(d) = 2 /\ d[1] = "done" /\ d[2] = "END"
    BY <1>1
  <2>3. c = d
    <3> HIDE DEF c, d
    <3>1. \A i \in 1..Len(c) : c[i] = d[i]  BY <2>1, <2>2
    <3> QED  BY <2>1, <2>2, <3>1, SeqEqual
  <2> QED  BY <2>3
<1> QED  BY <1>2, <1>3, <1>4

(* How to conclude Ends.                                                   *)
LEMMA EndsIntro ==
  ASSUME NEW w, NEW row \in RowType, NEW put \in LastFrames, NEW raised \in BOOLEAN,
         pc[worker[w]] \in Serviced, Write(worker[w], row), row.events >= events[worker[w]],
         D!Return(w, put, raised), pc' = [pc EXCEPT ![worker[w]] = "ended"],
         UNCHANGED client, Agrees(worker[w], row, put, raised)
  PROVE  Ends(w)
BY DEF Ends

LEMMA FailureEnds ==
  ASSUME TypeInv, NEW w \in Workers, worker[w] \in Runs, pc[worker[w]] \in Serviced,
         NEW row \in RowType, row.events >= events[worker[w]],
         NEW put \in {<<>>, <<"done">>}, NEW cost \in {0, 1},
         FailureBranch(w, row, put, cost),
         row.task = Completed => task[worker[w]] = Completed \/ put = <<"done">>,
         cost = 0 => put = <<>>
  PROVE  Ends(w)
<1> DEFINE r == worker[w]
<1>1. pc' = [pc EXCEPT ![r] = "ended"] /\ UNCHANGED client
  BY DEF FailureBranch, Goto
<1>2. CASE /\ Write(r, FailedRow(row)) /\ Charge(r, cost)
           /\ D!Return(w, put \o <<"error", "END">>, FALSE)
  <2>1. FailedRow(row) \in RowType /\ FailedRow(row).task = Failed
          /\ FailedRow(row).events = row.events
    BY FailedTyped
  <2>2. put \o <<"error", "END">> \in LastFrames
    BY PutShapes DEF LastFrames
  <2>3. Agrees(r, FailedRow(row), put \o <<"error", "END">>, FALSE)
    <3>1. CASE cost = 0
      <4>1. faults' = faults
        BY <1>2, <3>1 DEF Charge, TypeInv, MemoryType
      <4>2. put \o <<"error", "END">> = <<"error", "END">>
        BY <3>1, PutShapes
      <4> QED  BY <2>1, <4>1, <4>2 DEF Agrees
    <3>2. CASE cost = 1
      BY <1>2, <2>1, <3>2 DEF Agrees, Failed, Completed
    <3> QED  BY <3>1, <3>2
  <2> QED  BY <1>1, <1>2, <2>1, <2>2, <2>3 DEF Ends
<1>3. ASSUME NEW cut \in FailedCuts(row), Write(r, cut), Charge(r, cost + 1),
             D!Return(w, put \o <<"END">>, TRUE)
      PROVE  Ends(w)
  <2>1. cut \in RowType /\ cut.events = row.events /\ cut.task \in {row.task, Failed}
    BY FailedTyped
  <2>2. put \o <<"END">> \in LastFrames /\ (put = <<"done">> => put \o <<"END">> = <<"done", "END">>)
    BY PutShapes DEF LastFrames
  <2>3. cost + 1 \in Nat \ {0}  OBVIOUS
  <2>4. Agrees(r, cut, put \o <<"END">>, TRUE)
    BY <1>3, <2>1, <2>2, <2>3 DEF Agrees, Failed, Completed
  <2> QED  BY <1>1, <1>3, <2>1, <2>2, <2>4 DEF Ends
<1> QED  BY <1>2, <1>3 DEF FailureBranch

LEMMA HandlerStep ==
  ASSUME TypeInv, NEW w \in Workers, RunStep(w)
  PROVE  /\ worker[w] \in Runs
         /\ Progress(w) \/ Ends(w)
<1> DEFINE r == worker[w]
<1>1. r \in Runs
  BY ServingRun DEF RunStep, Begin, SetUpFails, Event, Ask, Answer, AnswerFails, Finish,
                    Abort, FinishFails
<1>2. /\ Row(r) \in RowType /\ Row(r).task = task[r] /\ Row(r).hitl = hitl[r]
      /\ Row(r).events = events[r] /\ events[r] \in Nat
  BY <1>1, RowTyped, RowFields DEF TypeInv, StoreType
<1>3. pc \in [Runs -> Places]  BY DEF TypeInv, MemoryType
<1>4. SetUp(Row(r)) \in RowType /\ SetUp(Row(r)).task = Running
        /\ SetUp(Row(r)).hitl = hitl[r] /\ SetUp(Row(r)).events = events[r]
  BY <1>2, SetUpTyped
<1>5. CASE Begin(w)
  <2> DEFINE row == Logged(SetUp(Row(r)))
  <2>1. row \in RowType /\ row.task = Running /\ row.hitl = hitl[r] /\ row.events = events[r] + 1
    BY <1>4, LoggedTyped
  <2>2. pc[r] = "taken" /\ Write(r, row) /\ D!Put(w, <<"message">>)
          /\ pc' = [pc EXCEPT ![r] = "started"] /\ UNCHANGED <<faults, client>>
    BY <1>5, ServingRun DEF Begin, Goto
  <2> HIDE DEF row
  <2> QED  BY <1>1, <2>1, <2>2 DEF Progress, Moves, Live
<1>6. CASE SetUpFails(w)
  <2>1. PICK cut \in SetUpCuts(Row(r)) : Write(r, cut)
    BY <1>6 DEF SetUpFails
  <2>2. cut \in RowType /\ cut.events = events[r] /\ cut.task \in {task[r], Created, Queue}
    BY <1>2, SetUpTyped
  <2>3. pc[r] \in Serviced /\ Charge(r, 1) /\ D!Return(w, <<"END">>, TRUE)
          /\ pc' = [pc EXCEPT ![r] = "ended"] /\ UNCHANGED client
    BY <1>6, ServingRun DEF SetUpFails, Serviced, Goto
  <2>4. Agrees(r, cut, <<"END">>, TRUE)
    BY <2>2, <2>3 DEF Agrees, Created, Queue, Completed
  <2>5. <<"END">> \in LastFrames  BY DEF LastFrames
  <2>6. cut.events >= events[r]  BY <1>2, <2>2
  <2>7. Ends(w)  BY <2>1, <2>2, <2>3, <2>4, <2>5, <2>6, EndsIntro
  <2> QED  BY <1>1, <2>7
<1>7. ASSUME pc[r] \in Live, NEW place \in Live, Write(r, Logged(Row(r))),
             D!Put(w, <<"message">>), pc' = [pc EXCEPT ![r] = place], UNCHANGED <<faults, client>>
      PROVE  Progress(w)
  <2>1. Logged(Row(r)) \in RowType /\ Logged(Row(r)).task = task[r]
          /\ Logged(Row(r)).hitl = hitl[r] /\ Logged(Row(r)).events = events[r] + 1
    BY <1>2, LoggedTyped
  <2> QED  BY <1>7, <2>1 DEF Progress, Moves
<1>8. CASE Event(w)
  <2>1. pc[r] \in Live /\ pc' = [pc EXCEPT ![r] = pc[r]]
    BY <1>1, <1>3, <1>8, ServingRun DEF Event, Live
  <2> QED  BY <1>1, <1>7, <1>8, <2>1 DEF Event
<1>9. CASE Ask(w)
  <2>1. Asked(Row(r)) \in RowType /\ Asked(Row(r)).task = Waiting
          /\ Asked(Row(r)).hitl = "waiting" /\ Asked(Row(r)).events = events[r] + 1
    BY <1>2, AskedTyped
  <2>2. pc[r] = "started" /\ Write(r, Asked(Row(r))) /\ D!Put(w, <<"message">>)
          /\ pc' = [pc EXCEPT ![r] = "asked"] /\ UNCHANGED <<faults, client>>
    BY <1>9, ServingRun DEF Ask, Goto
  <2> QED  BY <1>1, <2>1, <2>2 DEF Progress, Moves, Live
<1>10. CASE Answer(w)
  <2>1. pc[r] \in Live /\ pc' = [pc EXCEPT ![r] = "answered"] /\ "answered" \in Live
    BY <1>10, ServingRun DEF Answer, Live, Goto
  <2> QED  BY <1>1, <1>7, <1>10, <2>1 DEF Answer
<1>11. CASE AnswerFails(w)
  <2>1. pc[r] \in Serviced  BY <1>11, ServingRun DEF AnswerFails, Serviced
  <2> QED  BY <1>1, <1>2, <1>11, <2>1, FailureEnds DEF AnswerFails
<1>12. CASE Finish(w)
  <2>1. Succeeded(Row(r)) \in RowType /\ Succeeded(Row(r)).task = Completed
          /\ Succeeded(Row(r)).events = events[r]
    BY <1>2, SucceededTyped
  <2>2. pc[r] \in Serviced /\ Write(r, Succeeded(Row(r))) /\ D!Return(w, <<"done", "END">>, FALSE)
          /\ pc' = [pc EXCEPT ![r] = "ended"] /\ UNCHANGED client /\ faults' = faults
    BY <1>12, ServingRun DEF Finish, Serviced, Goto
  <2>3. Agrees(r, Succeeded(Row(r)), <<"done", "END">>, FALSE)
    BY <2>1, <2>2 DEF Agrees
  <2>4. <<"done", "END">> \in LastFrames  BY DEF LastFrames
  <2>5. Succeeded(Row(r)).events >= events[r]  BY <1>2, <2>1
  <2>6. Ends(w)  BY <2>1, <2>2, <2>3, <2>4, <2>5, EndsIntro
  <2> QED  BY <1>1, <2>6
<1>13. CASE Abort(w)
  <2>1. CASE Serving(w, {"taken"}) /\ FailureBranch(w, SetUp(Row(r)), <<>>, 1)
    <3>1. pc[r] \in Serviced  BY <2>1, ServingRun DEF Serviced
    <3> QED  BY <1>1, <1>2, <1>4, <2>1, <3>1, FailureEnds DEF Running, Completed
  <2>2. ASSUME Serving(w, {"started"}), NEW cut \in AskedCuts(Row(r)), FailureBranch(w, cut, <<>>, 1)
        PROVE  Ends(w)
    <3>1. pc[r] \in Serviced  BY <2>2, ServingRun DEF Serviced
    <3>2. cut \in RowType /\ cut.events >= events[r] /\ cut.task \in {task[r], Waiting}
      BY <1>2, AskedTyped
    <3> QED  BY <1>1, <2>2, <3>1, <3>2, FailureEnds DEF Waiting, Completed
  <2>3. ASSUME Serving(w, {"asked", "answered"}) \/ Serving(w, {"started", "answered"}),
               NEW cost \in {0, 1}, FailureBranch(w, Row(r), <<>>, cost)
        PROVE  Ends(w)
    <3>1. pc[r] \in Serviced  BY <2>3, ServingRun DEF Serviced
    <3> QED  BY <1>1, <1>2, <2>3, <3>1, FailureEnds
  <2> QED  BY <1>1, <1>13, <2>1, <2>2, <2>3 DEF Abort
<1>14. CASE FinishFails(w)
  <2>1. PICK cut \in SucceededCuts(Row(r)) : FailureBranch(w, cut, <<"done">>, 1)
    BY <1>14 DEF FinishFails
  <2>2. cut \in RowType /\ cut.events = events[r]  BY <1>2, SucceededTyped
  <2>3. pc[r] \in Serviced  BY <1>14, ServingRun DEF FinishFails, Serviced
  <2> QED  BY <1>1, <1>2, <2>1, <2>2, <2>3, FailureEnds
<1> QED  BY <1>1, <1>5, <1>6, <1>8, <1>9, <1>10, <1>11, <1>12, <1>13, <1>14 DEF RunStep

-----------------------------------------------------------------------------
(* Where a run is: the queue, the workers and the handlers agree.          *)
PlaceInv ==
  /\ DP!OnePlace
  /\ \A r \in Runs : pc[r] = "queued" <=> r \in DP!QueuedTasks
  /\ \A r \in Runs : pc[r] \in Serviced <=> \E w \in Workers : worker[w] = r

Forgotten(r) ==
  IF pc[r] \in {"queued", "taken", "started", "asked", "answered"} THEN "lost" ELSE pc[r]

(* A step of the backend, as the distributor and pc see it.                *)
PlaceStep ==
  \/ \E r \in Runs : DP!Enqueue(r) /\ pc[r] = "new" /\ pc' = [pc EXCEPT ![r] = "queued"]
  \/ DP!Start /\ UNCHANGED pc
  \/ DP!StopRequest /\ UNCHANGED pc
  \/ DP!ProcessExit /\ pc' = [r \in Runs |-> Forgotten(r)]
  \/ \E w \in Workers : DP!TakePill(w) /\ UNCHANGED pc
  \/ \E w \in Workers : DP!Take(w) /\ pc' = [pc EXCEPT ![Head(queue)] = "taken"]
  \/ \E w \in Workers : \E put : \E place \in Live :
       /\ DP!Put(w, put) /\ pc[worker[w]] \in Serviced
       /\ pc' = [pc EXCEPT ![worker[w]] = place]
  \/ \E w \in Workers : \E put : \E raised \in BOOLEAN :
       DP!Return(w, put, raised) /\ pc' = [pc EXCEPT ![worker[w]] = "ended"]
  \/ UNCHANGED dvars /\ UNCHANGED pc

LEMMA NextPlace == TypeInv /\ [Next]_vars => PlaceStep
<1> SUFFICES ASSUME TypeInv, [Next]_vars PROVE PlaceStep  OBVIOUS
<1>1. ASSUME NEW w \in Workers, Work(w) PROVE PlaceStep
  <2>1. CASE Take(w)  BY <2>1, BridgeGet DEF Take, Goto, PlaceStep
  <2>2. CASE TakePill(w)  BY <2>2, BridgeGet DEF TakePill, memory, PlaceStep
  <2>3. CASE Progress(w)
    <3>1. PICK place \in Live : \E row \in RowType : Moves(worker[w], row, place)
                                /\ D!Put(w, <<"message">>)
                                /\ pc' = [pc EXCEPT ![worker[w]] = place]
      BY <2>3 DEF Progress
    <3>2. pc[worker[w]] \in Serviced  BY <3>1 DEF Moves, Live, Serviced
    <3>3. DP!Put(w, <<"message">>)  BY <3>1, BridgeHandler
    <3> QED  BY <3>1, <3>2, <3>3 DEF PlaceStep
  <2>4. CASE Ends(w)
    <3>1. PICK put \in LastFrames, raised \in BOOLEAN :
                 D!Return(w, put, raised) /\ pc' = [pc EXCEPT ![worker[w]] = "ended"]
      BY <2>4 DEF Ends
    <3>2. DP!Return(w, put, raised)  BY <3>1, BridgeHandler
    <3> QED  BY <3>1, <3>2 DEF PlaceStep
  <2> QED  BY <1>1, <2>1, <2>2, <2>3, <2>4, HandlerStep DEF Work
<1>2. ASSUME NEW r \in Runs, ClientStep(r) PROVE PlaceStep
  <2>1. CASE Submit(r)  BY <2>1, BridgeQueue DEF Submit, Goto, PlaceStep
  <2> QED  BY <1>2, <2>1 DEF ClientStep, CloseStream, Leave, memory, PlaceStep
<1>3. ASSUME NEW r \in Runs, ResumeStep(r) PROVE PlaceStep
  BY <1>3 DEF ResumeStep, ResumeTask, ResumeStale, ResumeFails, Resume, memory, PlaceStep
<1>4. CASE Boot  BY <1>4, BridgeQueue DEF Boot, memory, PlaceStep
<1>5. CASE Shutdown  BY <1>5, BridgeStop DEF Shutdown, memory, PlaceStep
<1>6. CASE Halt  BY <1>6, BridgeQueue DEF Halt, ForgetMemory, Forgotten, PlaceStep
<1>7. CASE Crash  BY <1>7, BridgeQueue DEF Crash, ForgetMemory, Forgotten, PlaceStep
<1>8. CASE UNCHANGED vars  BY <1>8 DEF vars, memory, PlaceStep
<1> QED  BY <1>1, <1>2, <1>3, <1>4, <1>5, <1>6, <1>7, <1>8 DEF Next

LEMMA PlaceKept ==
  ASSUME TypeInv, PlaceInv, PlaceStep
  PROVE  PlaceInv'
<1> DEFINE Agree(r) == /\ pc[r] = "queued" <=> r \in DP!QueuedTasks
                       /\ pc[r] \in Serviced <=> \E w \in Workers : worker[w] = r
<1>1. /\ DP!TypeInv /\ DP!TypeOK /\ DP!OnePlace
      /\ pc \in [Runs -> Places] /\ worker \in [Workers -> Runs \cup {"idle", "exited"}]
      /\ \A r \in Runs : Agree(r)
      /\ {"__stop__", "idle", "exited", "none"} \cap Runs = {}
  BY RuntimeAssumption
     DEF TypeInv, MemoryType, PlaceInv, DP!TypeInv, DP!TypeOK, DP!Idle, DP!Exited
<1>2. SUFFICES DP!OnePlace' /\ \A r \in Runs : Agree(r)'
  BY DEF PlaceInv
<1>3. ASSUME NEW r \in Runs, DP!Enqueue(r), pc[r] = "new", pc' = [pc EXCEPT ![r] = "queued"]
      PROVE  DP!OnePlace' /\ \A q \in Runs : Agree(q)'
  <2>1. r \notin DP!Queued /\ \A w \in Workers : worker[w] # r
    BY <1>1, <1>3 DEF Serviced, DP!QueuedTasks
  <2>2. DP!OnePlace'  BY <1>1, <1>3, <2>1, DP!EnqueueOnePlace, DistAssumption
  <2>3. DP!QueuedTasks' = DP!QueuedTasks \cup {r}
    BY <1>1, <1>3, DP!EnqueueQueued, DistAssumption
  <2>4. worker' = worker  BY <1>3 DEF DP!Enqueue
  <2> QED  BY <1>1, <1>3, <2>1, <2>2, <2>3, <2>4 DEF Serviced
<1>4. CASE DP!Start /\ UNCHANGED pc
  <2>1. DP!OnePlace'  BY <1>1, <1>4, DP!StartOnePlace, DistAssumption
  <2>2. DP!QueuedTasks' = DP!QueuedTasks
    BY <1>4 DEF DP!Start, DP!QueuedTasks, DP!Queued
  <2>3. \A w \in Workers : worker[w] \notin Runs /\ worker'[w] \notin Runs
    BY <1>1, <1>4 DEF DP!Start, DP!TypeInv, DP!Exited, DP!Idle
  <2> QED  BY <1>1, <1>4, <2>1, <2>2, <2>3
<1>5. CASE DP!StopRequest /\ UNCHANGED pc
  <2>1. DP!OnePlace'  BY <1>1, <1>5, DP!StopRequestOnePlace, DistAssumption
  <2>2. DP!QueuedTasks' = DP!QueuedTasks
    BY <1>1, <1>5, DP!StopRequestQueued, DistAssumption
  <2>3. worker' = worker  BY <1>5 DEF DP!StopRequest
  <2> QED  BY <1>1, <1>5, <2>1, <2>2, <2>3
<1>6. CASE DP!ProcessExit /\ pc' = [r \in Runs |-> Forgotten(r)]
  <2>1. DP!OnePlace'  BY <1>6, DP!ProcessExitOnePlace, DistAssumption
  <2>2. DP!QueuedTasks' = {}
    BY <1>6 DEF DP!ProcessExit, DP!QueuedTasks, DP!Queued
  <2>3. \A w \in Workers : worker'[w] \notin Runs
    BY <1>1, <1>6 DEF DP!ProcessExit, DP!Exited
  <2> QED  BY <1>1, <1>6, <2>1, <2>2, <2>3 DEF Forgotten, Serviced
<1>7. ASSUME NEW w \in Workers, DP!TakePill(w), UNCHANGED pc
      PROVE  DP!OnePlace' /\ \A q \in Runs : Agree(q)'
  <2>1. DP!OnePlace'  BY <1>1, <1>7, DP!TakePillOnePlace, DistAssumption
  <2>2. DP!QueuedTasks' = DP!QueuedTasks \ {Head(queue)}
    BY <1>1, <1>7, DP!GetQueued, DistAssumption DEF DP!TakePill, DP!CanGet
  <2>3. Head(queue) \notin Runs /\ worker[w] \notin Runs /\ worker' = [worker EXCEPT ![w] = "exited"]
    BY <1>1, <1>7 DEF DP!TakePill, DP!CanGet, DP!Stop, DP!Idle, DP!Exited
  <2>4. \A v \in Workers, q \in Runs : worker'[v] = q <=> worker[v] = q
    BY <1>1, <2>3
  <2>5. DP!QueuedTasks' = DP!QueuedTasks  BY <2>2, <2>3 DEF DP!QueuedTasks
  <2> QED  BY <1>1, <1>7, <2>1, <2>4, <2>5
<1>8. ASSUME NEW w \in Workers, DP!Take(w), pc' = [pc EXCEPT ![Head(queue)] = "taken"]
      PROVE  DP!OnePlace' /\ \A q \in Runs : Agree(q)'
  <2> DEFINE t == Head(queue)
  <2>1. DP!OnePlace'  BY <1>1, <1>8, DP!TakeOnePlace, DistAssumption
  <2>2. t \in Runs /\ worker[w] \notin Runs /\ worker' = [worker EXCEPT ![w] = t]
    BY <1>1, <1>8 DEF DP!Take, DP!CanGet, DP!Idle
  <2>3. DP!QueuedTasks' = DP!QueuedTasks \ {t}
    BY <1>1, <1>8, DP!GetQueued, DistAssumption DEF DP!Take, DP!CanGet
  <2>4. pc' = [pc EXCEPT ![t] = "taken"]  BY <1>8
  <2> HIDE DEF t
  <2>5. \A v \in Workers, q \in Runs \ {t} : worker'[v] = q <=> worker[v] = q
    BY <1>1, <2>2
  <2>6. worker'[w] = t  BY <1>1, <2>2
  <2>7. ASSUME NEW q \in Runs PROVE Agree(q)'
    <3>1. CASE q = t  BY <1>1, <2>2, <2>3, <2>4, <2>6, <3>1 DEF Serviced
    <3>2. CASE q # t  BY <1>1, <2>3, <2>4, <2>5, <3>2 DEF Serviced
    <3> QED  BY <3>1, <3>2
  <2> QED  BY <2>1, <2>7
<1>9. ASSUME NEW w \in Workers, NEW put, NEW place \in Live, DP!Put(w, put),
             pc[worker[w]] \in Serviced, pc' = [pc EXCEPT ![worker[w]] = place]
      PROVE  DP!OnePlace' /\ \A q \in Runs : Agree(q)'
  <2>1. DP!OnePlace'  BY <1>1, <1>9, DP!PutOnePlace, DistAssumption
  <2>2. worker' = worker /\ DP!QueuedTasks' = DP!QueuedTasks /\ worker[w] \in Runs
    BY <1>9 DEF DP!Put, DP!Busy, DP!QueuedTasks, DP!Queued
  <2> QED  BY <1>1, <1>9, <2>1, <2>2 DEF Live, Serviced
<1>10. ASSUME NEW w \in Workers, NEW put, NEW raised \in BOOLEAN, DP!Return(w, put, raised),
              pc' = [pc EXCEPT ![worker[w]] = "ended"]
       PROVE  DP!OnePlace' /\ \A q \in Runs : Agree(q)'
  <2> DEFINE r == worker[w]
  <2>1. DP!OnePlace'  BY <1>1, <1>10, DP!ReturnOnePlace, DistAssumption
  <2>2. r \in Runs /\ DP!QueuedTasks' = DP!QueuedTasks /\ worker' = [worker EXCEPT ![w] = "idle"]
    BY <1>10 DEF DP!Return, DP!Busy, DP!QueuedTasks, DP!Queued, DP!Idle
  <2>3. \A v \in Workers : worker[v] = r => v = w
    BY <1>1, <2>2 DEF DP!OnePlace, DP!Busy
  <2>4. \A v \in Workers : worker'[v] # r  BY <1>1, <2>2, <2>3
  <2>5. \A v \in Workers, q \in Runs \ {r} : worker'[v] = q <=> worker[v] = q
    BY <1>1, <2>2
  <2>6. ASSUME NEW q \in Runs PROVE Agree(q)'
    <3>1. CASE q = r
      BY <1>1, <1>10, <2>2, <2>4, <3>1 DEF Serviced
    <3>2. CASE q # r  BY <1>1, <1>10, <2>2, <2>5, <3>2 DEF Serviced
    <3> QED  BY <3>1, <3>2
  <2> QED  BY <2>1, <2>6
<1>11. CASE UNCHANGED dvars /\ UNCHANGED pc
  <2>1. DP!OnePlace'  BY <1>1, <1>11, DP!StutterOnePlace, DistAssumption DEF dvars, DP!dvars
  <2>2. worker' = worker /\ DP!QueuedTasks' = DP!QueuedTasks
    BY <1>11 DEF dvars, DP!QueuedTasks, DP!Queued
  <2> QED  BY <1>1, <1>11, <2>1, <2>2
<1> QED  BY <1>3, <1>4, <1>5, <1>6, <1>7, <1>8, <1>9, <1>10, <1>11 DEF PlaceStep

LEMMA InitPlace == Init => PlaceInv
<1> SUFFICES ASSUME Init PROVE PlaceInv  OBVIOUS
<1>1. queue = <<>> /\ \A w \in Workers : worker[w] \notin Runs
  BY RuntimeAssumption DEF Init, D!Init, D!Exited
<1>2. DP!OnePlace  BY <1>1 DEF DP!OnePlace, DP!Busy
<1>3. DP!QueuedTasks = {}  BY <1>1 DEF DP!QueuedTasks, DP!Queued
<1> QED  BY <1>1, <1>2, <1>3 DEF PlaceInv, Init, Serviced

(* A request is queued once and served by one worker at a time, and the    *)
(* queue, the workers and the handlers agree on where it is: through every *)
(* restart, with any number of workers.                                    *)
THEOREM OneServerHolds == Spec => []OneServer
<1>1. Init => TypeInv /\ PlaceInv  BY InitType, InitPlace
<1>2. TypeInv /\ PlaceInv /\ [Next]_vars => (TypeInv /\ PlaceInv)'
  BY NextType, NextPlace, PlaceKept
<1>3. PlaceInv => OneServer
  <2> SUFFICES ASSUME PlaceInv PROVE OneServer  OBVIOUS
  <2>1. D!OnePlace
    BY DEF PlaceInv, D!OnePlace, DP!OnePlace, D!Busy, DP!Busy, D!Queued, DP!Queued,
           D!Stop, DP!Stop
  <2>2. \A r \in Runs : r \in D!Queued <=> r \in DP!QueuedTasks
    BY DEF D!Queued, DP!Queued, DP!QueuedTasks
  <2> QED  BY <2>1, <2>2 DEF PlaceInv, OneServer
<1> QED  BY <1>1, <1>2, <1>3, PTL DEF Spec

-----------------------------------------------------------------------------
(* What a step does to the store: nothing, a handler's slice, a resume or  *)
(* what a crash tore.                                                      *)
PlaceMoved(r) ==
  \/ pc'[r] = pc[r]
  \/ pc[r] = "new" /\ pc'[r] = "queued"
  \/ pc[r] = "queued" /\ pc'[r] = "taken"
  \/ pc'[r] = "lost"

Quiet == UNCHANGED <<store, faults, out>> /\ \A r \in Runs : PlaceMoved(r)

TornStep ==
  /\ \E r \in Runs : \E row \in Torn(r) : Write(r, row) /\ Charge(r, 1)
  /\ pc' = [r \in Runs |-> Forgotten(r)]
  /\ UNCHANGED out

Moved ==
  \/ Quiet
  \/ \E w \in Workers : worker[w] \in Runs /\ (Progress(w) \/ Ends(w))
  \/ \E r \in Runs : ResumeStep(r)
  \/ TornStep

LEMMA NextMoved == TypeInv /\ PlaceInv /\ [Next]_vars => Moved
<1> SUFFICES ASSUME TypeInv, PlaceInv, [Next]_vars PROVE Moved  OBVIOUS
<1>1. pc \in [Runs -> Places]  BY DEF TypeInv, MemoryType
<1>2. ASSUME NEW w \in Workers, Work(w) PROVE Moved
  <2>1. CASE Take(w)
    <3>1. DP!CanGet(w) /\ queue' = Tail(queue) /\ Head(queue) \in Runs
      BY <2>1, BridgeGet DEF Take, DP!Take
    <3>2. Head(queue) \in DP!QueuedTasks
      BY <3>1, DP!GetQueued, DistAssumption DEF PlaceInv, TypeInv, DP!TypeInv, DP!CanGet
    <3>3. pc[Head(queue)] = "queued"  BY <3>1, <3>2 DEF PlaceInv
    <3> QED  BY <1>1, <2>1, <3>1, <3>3 DEF Take, D!Take, Goto, Moved, Quiet, PlaceMoved
  <2>2. CASE TakePill(w)  BY <2>2 DEF TakePill, D!TakePill, memory, Moved, Quiet, PlaceMoved
  <2> QED  BY <1>2, <2>1, <2>2, HandlerStep DEF Work, Moved
<1>3. ASSUME NEW r \in Runs, ClientStep(r) PROVE Moved
  <2>1. CASE Submit(r)  BY <1>1, <2>1 DEF Submit, D!Enqueue, Goto, Moved, Quiet, PlaceMoved
  <2> QED  BY <1>3, <2>1 DEF ClientStep, CloseStream, Leave, dvars, memory, Moved, Quiet, PlaceMoved
<1>4. ASSUME NEW r \in Runs, ResumeStep(r) PROVE Moved  BY <1>4 DEF Moved
<1>5. CASE Boot  BY <1>5 DEF Boot, D!Start, memory, Moved, Quiet, PlaceMoved
<1>6. CASE Shutdown  BY <1>6 DEF Shutdown, D!StopRequest, memory, Moved, Quiet, PlaceMoved
<1>7. CASE Halt  BY <1>7 DEF Halt, ForgetMemory, D!ProcessExit, Moved, Quiet, PlaceMoved
<1>8. CASE Crash
  <2>1. pc' = [r \in Runs |-> Forgotten(r)] /\ out' = out
    BY <1>8 DEF Crash, ForgetMemory, D!ProcessExit, Forgotten
  <2>2. CASE UNCHANGED <<store, faults>>
    BY <2>1, <2>2 DEF Forgotten, Moved, Quiet, PlaceMoved
  <2>3. CASE \E r \in Runs : \E row \in Torn(r) \ {Row(r)} : Write(r, row) /\ Charge(r, 1)
    BY <2>1, <2>3 DEF Moved, TornStep
  <2> QED  BY <1>8, <2>2, <2>3 DEF Crash
<1>9. CASE UNCHANGED vars  BY <1>9 DEF vars, dvars, memory, Moved, Quiet, PlaceMoved
<1> QED  BY <1>2, <1>3, <1>4, <1>5, <1>6, <1>7, <1>8, <1>9 DEF Next

LEMMA WriteRow ==
  ASSUME StoreType, NEW r \in Runs, NEW row, Write(r, row)
  PROVE  /\ task'[r] = row.task /\ hitl'[r] = row.hitl /\ events'[r] = row.events
         /\ \A q \in Runs \ {r} : task'[q] = task[q] /\ hitl'[q] = hitl[q] /\ events'[q] = events[q]
BY DEF StoreType, Write

LEMMA ChargeRow ==
  ASSUME MemoryType, NEW r \in Runs, NEW n \in Nat, Charge(r, n)
  PROVE  /\ faults'[r] = faults[r] + n /\ faults[r] \in Nat
         /\ \A q \in Runs \ {r} : faults'[q] = faults[q]
BY RuntimeAssumption DEF MemoryType, Charge

(* A resume: the row is resolved, and the task is left as it is, unless it *)
(* waited and now runs; only a fault leaves a waiting task resolved.       *)
LEMMA ResumeRow ==
  ASSUME TypeInv, NEW r \in Runs, ResumeStep(r)
  PROVE  /\ pc' = pc /\ out' = out
         /\ \E row \in RowType :
              /\ Write(r, row) /\ row.events >= events[r]
              /\ row.task = task[r] \/ (Running \in Allowed[task[r]] /\ row.task = Running)
              /\ \/ faults' = faults /\ row.task # Waiting
                 \/ Charge(r, 1)
<1>1. /\ Row(r) \in RowType /\ Row(r).task = task[r] /\ Row(r).events = events[r]
      /\ task[r] \in TaskStates /\ events[r] \in Nat
  BY RowTyped, RowFields DEF TypeInv, StoreType
<1>2. pc' = pc /\ out' = out
  BY DEF ResumeStep, ResumeTask, ResumeStale, ResumeFails, Resume, memory, dvars
<1>3. CASE ResumeTask(r)
  <2> DEFINE row == Resumed(Row(r))
  <2>1. row \in RowType /\ row.task = Running /\ row.events = events[r] + 1
    BY <1>1, ResumedTyped
  <2>2. Write(r, row) /\ faults' = faults /\ Running \in Allowed[task[r]]
    BY <1>3 DEF ResumeTask
  <2> HIDE DEF row
  <2>3. row.events >= events[r] /\ row.task # Waiting
    BY <1>1, <2>1 DEF Running, Waiting
  <2> QED  BY <1>2, <2>1, <2>2, <2>3
<1>4. CASE ResumeStale(r)
  <2> DEFINE row == Resolved(Row(r))
  <2>1. row \in RowType /\ row.task = task[r] /\ row.events = events[r]
    BY <1>1, ResumedTyped
  <2>2. Write(r, row) /\ faults' = faults /\ Running \notin Allowed[task[r]]
    BY <1>4 DEF ResumeStale
  <2> HIDE DEF row
  <2>3. task[r] # Waiting
    BY <2>2 DEF Allowed, TaskStates, Waiting, Created, Queue, Running, Completed, Failed, Absent
  <2>4. row.events >= events[r]  BY <1>1, <2>1
  <2> QED  BY <1>2, <2>1, <2>2, <2>3, <2>4
<1>5. CASE ResumeFails(r)
  <2>1. PICK row \in ResumedCuts(Row(r)) : Write(r, row)  BY <1>5 DEF ResumeFails
  <2>2. row \in RowType /\ row.task \in {task[r], Running} /\ row.events = events[r]
    BY <1>1, ResumedTyped
  <2>3. row.events >= events[r]  BY <1>1, <2>2
  <2> QED  BY <1>2, <1>5, <2>1, <2>2, <2>3 DEF ResumeFails
<1> QED  BY <1>3, <1>4, <1>5 DEF ResumeStep

-----------------------------------------------------------------------------
(* A task that waits for its user can be found by the resume path, unless  *)
(* a store call of its run did not happen.                                 *)
THEOREM WaitingIsResumableHolds == Spec => []WaitingIsResumable
<1> DEFINE Found(r) == task[r] = Waiting /\ faults[r] = 0 => hitl[r] = "waiting"
<1>1. WaitingIsResumable <=> \A r \in Runs : Found(r)
  BY DEF WaitingIsResumable, Clean
<1>2. Init => WaitingIsResumable
  BY <1>1 DEF Init, Absent, Waiting
<1>3. ASSUME TypeInv, PlaceInv, WaitingIsResumable, [Next]_vars PROVE WaitingIsResumable'
  <2> SUFFICES ASSUME NEW q \in Runs PROVE Found(q)'
    BY DEF WaitingIsResumable, Clean
  <2>1. Moved /\ StoreType /\ MemoryType /\ Found(q)
    BY <1>1, <1>3, NextMoved DEF TypeInv
  <2>2. CASE Quiet  BY <2>1, <2>2 DEF Quiet, store
  <2>3. ASSUME NEW w \in Workers, worker[w] \in Runs, Progress(w) PROVE Found(q)'
    <3> DEFINE r == worker[w]
    <3>1. PICK row \in RowType, place \in Live :
                 Moves(r, row, place) /\ Write(r, row) /\ faults' = faults
      BY <2>3 DEF Progress
    <3>2. CASE q = r
      BY <2>1, <2>3, <3>1, <3>2, WriteRow DEF Moves, Running, Waiting
    <3>3. CASE q # r  BY <2>1, <2>3, <3>1, <3>3, WriteRow
    <3> QED  BY <3>2, <3>3
  <2>4. ASSUME NEW w \in Workers, worker[w] \in Runs, Ends(w) PROVE Found(q)'
    <3> DEFINE r == worker[w]
    <3>1. PICK row \in RowType, put \in LastFrames, raised \in BOOLEAN :
                 Write(r, row) /\ Agrees(r, row, put, raised)
      BY <2>4 DEF Ends
    <3>2. CASE faults' = faults /\ row.task \in {Completed, Failed}
      BY <2>1, <2>4, <3>1, <3>2, WriteRow DEF Completed, Failed, Waiting
    <3>3. ASSUME NEW n \in Nat \ {0}, Charge(r, n) PROVE Found(q)'
      <4>1. /\ faults'[r] = faults[r] + n /\ faults[r] \in Nat
            /\ \A p \in Runs \ {r} : faults'[p] = faults[p]
        BY <2>1, <2>4, <3>3, ChargeRow
      <4> QED  BY <2>1, <2>4, <3>1, <3>3, <4>1, WriteRow
    <3> QED  BY <3>1, <3>2, <3>3 DEF Agrees
  <2>5. ASSUME NEW r \in Runs, ResumeStep(r) PROVE Found(q)'
    <3>1. PICK row \in RowType : /\ Write(r, row)
                                 /\ \/ faults' = faults /\ row.task # Waiting
                                    \/ Charge(r, 1)
      BY <1>3, <2>5, ResumeRow
    <3>2. CASE faults' = faults /\ row.task # Waiting
      BY <2>1, <3>1, <3>2, WriteRow
    <3>3. CASE Charge(r, 1)
      <4>1. /\ faults'[r] = faults[r] + 1 /\ faults[r] \in Nat
            /\ \A p \in Runs \ {r} : faults'[p] = faults[p]
        BY <2>1, <3>3, ChargeRow
      <4> QED  BY <2>1, <3>1, <4>1, WriteRow
    <3> QED  BY <3>1, <3>2, <3>3
  <2>6. CASE TornStep
    <3>1. PICK r \in Runs : \E row : Write(r, row) /\ Charge(r, 1)
      BY <2>6 DEF TornStep
    <3>2. /\ faults'[r] = faults[r] + 1 /\ faults[r] \in Nat
          /\ \A p \in Runs \ {r} : faults'[p] = faults[p]
      BY <2>1, <3>1, ChargeRow
    <3> QED  BY <2>1, <3>1, <3>2, WriteRow
  <2> QED  BY <2>1, <2>2, <2>3, <2>4, <2>5, <2>6 DEF Moved
<1> QED  BY <1>2, <1>3, InitType, NextType, InitPlace, NextPlace, PlaceKept, PTL DEF Spec

-----------------------------------------------------------------------------
(* A task has no row before its run is set up, and is RUNNING or WAITING   *)
(* while its handler is inside the engine.                                 *)
LiveRow(r) ==
  /\ pc[r] \in {"new", "queued", "taken"} => task[r] = Absent
  /\ pc[r] \in Live => task[r] \in {Running, Waiting}

LiveInv == \A r \in Runs : LiveRow(r)

SettledStays(r) == task[r] \in Settled => task'[r] = task[r]

LEMMA StatesDiffer ==
  /\ {Absent, Running, Waiting} \cap Settled = {}
  /\ Absent # Waiting /\ Absent # Running
  /\ \A s \in TaskStates : Running \in Allowed[s] => s \notin Settled /\ s # Absent
BY DEF Absent, Running, Waiting, Settled, Completed, Failed, Allowed, TaskStates, Created, Queue

LEMMA TornOpen ==
  ASSUME NEW r, NEW row \in Torn(r)
  PROVE  pc[r] \in Serviced \/ task[r] = Waiting
BY DEF Torn, Serviced

(* The moves between the states keep LiveInv and never leave a settled     *)
(* one: an argument about pc, for the handlers, and about the transition   *)
(* table, for the resumes.                                                 *)
LEMMA LiveKept ==
  ASSUME TypeInv, LiveInv, Moved
  PROVE  LiveInv' /\ \A r \in Runs : SettledStays(r)
<1> SUFFICES ASSUME NEW q \in Runs PROVE LiveRow(q)' /\ SettledStays(q)
  BY DEF LiveInv
<1>1. StoreType /\ LiveRow(q) /\ pc \in [Runs -> Places] /\ task[q] \in TaskStates
  BY DEF TypeInv, StoreType, MemoryType, LiveInv
<1>2. ASSUME NEW r \in Runs, pc[r] \in Serviced PROVE task[r] \notin Settled
  BY <1>2, StatesDiffer DEF LiveInv, LiveRow, Serviced, Live
<1>3. CASE Quiet
  <2>1. task' = task /\ PlaceMoved(q)  BY <1>3 DEF Quiet, store
  <2> QED  BY <1>1, <2>1 DEF PlaceMoved, LiveRow, Live, SettledStays
<1>4. ASSUME NEW w \in Workers, worker[w] \in Runs, Progress(w)
      PROVE  LiveRow(q)' /\ SettledStays(q)
  <2> DEFINE r == worker[w]
  <2>1. PICK row \in RowType, place \in Live :
               Moves(r, row, place) /\ Write(r, row) /\ pc' = [pc EXCEPT ![r] = place]
    BY <1>4 DEF Progress
  <2>2. pc[r] \in Serviced  BY <2>1 DEF Moves, Live, Serviced
  <2>3. CASE q = r
    <3>1. row.task \in {Running, Waiting}
      BY <1>1, <2>1, <2>3 DEF Moves, LiveRow
    <3>2. task'[q] = row.task /\ pc'[q] = place
      BY <1>1, <1>4, <2>1, <2>3, WriteRow
    <3> QED  BY <1>2, <2>2, <2>3, <3>1, <3>2 DEF LiveRow, SettledStays, Live
  <2>4. CASE q # r
    BY <1>1, <1>4, <2>1, <2>4, WriteRow DEF LiveRow, SettledStays
  <2> QED  BY <2>3, <2>4
<1>5. ASSUME NEW w \in Workers, worker[w] \in Runs, Ends(w)
      PROVE  LiveRow(q)' /\ SettledStays(q)
  <2> DEFINE r == worker[w]
  <2>1. PICK row \in RowType :
               pc[r] \in Serviced /\ Write(r, row) /\ pc' = [pc EXCEPT ![r] = "ended"]
    BY <1>5 DEF Ends
  <2>2. CASE q = r
    BY <1>1, <1>2, <1>5, <2>1, <2>2 DEF LiveRow, SettledStays, Live
  <2>3. CASE q # r
    BY <1>1, <1>5, <2>1, <2>3, WriteRow DEF LiveRow, SettledStays
  <2> QED  BY <2>2, <2>3
<1>6. ASSUME NEW r \in Runs, ResumeStep(r) PROVE LiveRow(q)' /\ SettledStays(q)
  <2>1. PICK row \in RowType :
          /\ Write(r, row)
          /\ row.task = task[r] \/ (Running \in Allowed[task[r]] /\ row.task = Running)
    BY <1>6, ResumeRow
  <2>2. pc' = pc  BY <1>6, ResumeRow
  <2>3. CASE q = r
    <3>1. task'[q] = row.task  BY <1>1, <2>1, <2>3, WriteRow
    <3> QED  BY <1>1, <2>1, <2>2, <2>3, <3>1, StatesDiffer DEF LiveRow, SettledStays, Live
  <2>4. CASE q # r
    BY <1>1, <2>1, <2>2, <2>4, WriteRow DEF LiveRow, SettledStays
  <2> QED  BY <2>3, <2>4
<1>7. CASE TornStep
  <2>1. PICK r \in Runs : \E row \in Torn(r) : Write(r, row)
    BY <1>7 DEF TornStep
  <2>2. PICK row \in Torn(r) : Write(r, row)  BY <2>1
  <2>3. pc[r] \in Serviced \/ task[r] = Waiting  BY <2>2, TornOpen
  <2>4. pc'[q] = Forgotten(q)  BY <1>7 DEF TornStep
  <2>5. CASE q = r
    <3>1. task[q] \notin Settled  BY <1>2, <2>3, <2>5, StatesDiffer
    <3>2. pc'[q] \in {"ended", "lost"}
      BY <1>1, <2>3, <2>4, <2>5, StatesDiffer DEF Forgotten, LiveRow, Places, Serviced
    <3> QED  BY <3>1, <3>2 DEF LiveRow, SettledStays, Live
  <2>6. CASE q # r
    <3>1. task'[q] = task[q]  BY <1>1, <2>2, <2>6, WriteRow
    <3> QED  BY <1>1, <2>4, <3>1 DEF Forgotten, LiveRow, SettledStays, Live
  <2> QED  BY <2>5, <2>6
<1> QED  BY <1>3, <1>4, <1>5, <1>6, <1>7 DEF Moved

(* A settled task stays as it is: no late resume, no second failure, no    *)
(* restart of the process reopens it.                                      *)
THEOREM SettledIsFinalHolds == Spec => SettledIsFinal
<1> DEFINE Inv == TypeInv /\ PlaceInv /\ LiveInv
<1>1. Init => Inv
  <2>1. Init => LiveInv  BY DEF Init, LiveInv, LiveRow, Live
  <2> QED  BY <2>1, InitType, InitPlace
<1>2. ASSUME Inv, [Next]_vars
      PROVE  Inv' /\ [\A r \in Runs : task[r] \in Settled => task'[r] = task[r]]_vars
  <2>1. Moved  BY <1>2, NextMoved
  <2>2. LiveInv' /\ \A r \in Runs : SettledStays(r)  BY <1>2, <2>1, LiveKept
  <2>3. TypeInv' /\ PlaceInv'  BY <1>2, NextType, NextPlace, PlaceKept
  <2> QED  BY <2>2, <2>3 DEF SettledStays
<1> QED  BY <1>1, <1>2, PTL DEF Spec, SettledIsFinal

-----------------------------------------------------------------------------
(* What the client is told.                                                *)

(* The frames of a stream after the handler's last slice.                  *)
LEMMA LastSlice ==
  ASSUME NEW s \in Seq(DP!Frames),
         NEW put \in {<<"done", "END">>, <<"error", "END">>},
         NEW e \in {<<>>, <<"error", "END">>}
  PROVE  /\ s \o put \o e \in Seq(DP!Frames) /\ Len(s) \in Nat /\ Len(e) \in Nat
         /\ Len(s \o put \o e) = Len(s) + 2 + Len(e)
         /\ \A i \in 1..Len(s) : (s \o put \o e)[i] = s[i]
         /\ (s \o put \o e)[Len(s) + 1] = put[1]
         /\ (s \o put \o e)[Len(s) + 2] = "END"
<1> DEFINE S == DP!Frames
           m == s \o put
           t == m \o e
<1>0. {"done", "error", "END"} \subseteq S  BY DEF DP!Frames
<1> HIDE DEF S
<1>1. put \in Seq(S) /\ Len(put) = 2 /\ put[2] = "END"
  <2>1. CASE put = <<"done", "END">>  BY <1>0, <2>1
  <2>2. CASE put = <<"error", "END">>  BY <1>0, <2>2
  <2> QED  BY <2>1, <2>2
<1>2. e \in Seq(S) /\ Len(e) \in Nat
  <2>1. CASE e = <<>>  BY <2>1
  <2>2. CASE e = <<"error", "END">>  BY <1>0, <2>2
  <2> QED  BY <2>1, <2>2
<1>3. s \in Seq(S) /\ Len(s) \in Nat  BY DEF S
<1>4. /\ m \in Seq(S) /\ Len(m) = Len(s) + 2
      /\ \A i \in 1..(Len(s) + Len(put)) : m[i] = IF i <= Len(s) THEN s[i] ELSE put[i - Len(s)]
  <2>1. put \in Seq(S) /\ s \in Seq(S)  BY <1>1, <1>3
  <2>2. /\ m \in Seq(S) /\ Len(m) = Len(s) + Len(put)
        /\ \A i \in 1..(Len(s) + Len(put)) : m[i] = IF i <= Len(s) THEN s[i] ELSE put[i - Len(s)]
    BY <2>1, ConcatProperties, Zenon
  <2> QED  BY <1>1, <2>2
<1>5. /\ \A i \in 1..Len(s) : m[i] = s[i]
      /\ m[Len(s) + 1] = put[1] /\ m[Len(s) + 2] = "END"
  <2> HIDE DEF m
  <2>1. \A i \in 1..(Len(s) + 2) : m[i] = IF i <= Len(s) THEN s[i] ELSE put[i - Len(s)]
    BY <1>1, <1>4
  <2>2. \A i \in 1..Len(s) : m[i] = s[i]  BY <1>3, <2>1
  <2>3. m[Len(s) + 1] = put[Len(s) + 1 - Len(s)]  BY <1>3, <2>1
  <2>4. m[Len(s) + 2] = put[Len(s) + 2 - Len(s)]  BY <1>3, <2>1
  <2>5. Len(s) + 1 - Len(s) = 1 /\ Len(s) + 2 - Len(s) = 2  BY <1>3
  <2> QED  BY <1>1, <2>2, <2>3, <2>4, <2>5
<1> HIDE DEF m
<1>6. /\ t \in Seq(S) /\ Len(t) = Len(m) + Len(e)
      /\ \A i \in 1..(Len(m) + Len(e)) : t[i] = IF i <= Len(m) THEN m[i] ELSE e[i - Len(m)]
  <2>1. m \in Seq(S) /\ e \in Seq(S)  BY <1>2, <1>4
  <2> QED  BY <2>1, ConcatProperties
<1> HIDE DEF t
<1>7. \A i \in 1..(Len(s) + 2) : t[i] = m[i]
  BY <1>2, <1>3, <1>4, <1>6
<1>8. /\ \A i \in 1..Len(s) : t[i] = s[i]
      /\ t[Len(s) + 1] = put[1] /\ t[Len(s) + 2] = "END"
  BY <1>3, <1>5, <1>7
<1>9. Len(t) = Len(s) + 2 + Len(e)  BY <1>2, <1>4, <1>6
<1>10. t \in Seq(S)  BY <1>6
<1> QED  BY <1>2, <1>3, <1>8, <1>9, <1>10 DEF t, m, S

(* What the stream of an ended run says, as OutcomeAgrees states it.       *)
Told(r) ==
  LET n == Len(out[r]) IN
  /\ Clean(r) =>
       /\ n >= 2 /\ out[r][n] = "END"
       /\ \A i \in 1..(n - 2) : out[r][i] = "message"
       /\ out[r][n - 1] = IF task[r] = Completed THEN "done" ELSE "error"
       /\ task[r] \in Settled
  /\ task[r] = Completed =>
       /\ \E i \in Visible(r) : out[r][i] = "done"
       /\ \A i \in Visible(r) : out[r][i] # "error"

OnlyMessages(r) == \A i \in DOMAIN out[r] : out[r][i] = "message"

(* Until a run ends its stream holds messages only.                        *)
OutRow(r) ==
  /\ pc[r] \in {"new", "queued"} \cup Serviced => OnlyMessages(r)
  /\ pc[r] = "ended" => Told(r)

OutInv == \A r \in Runs : OutRow(r)

(* The last slice, on a stream of messages.                                *)
LEMMA EndsTold ==
  ASSUME NEW r \in Runs, NEW put \in LastFrames, NEW raised \in BOOLEAN, NEW row \in RowType,
         MemoryType, out \in [Runs -> Seq(DP!Frames)], OnlyMessages(r), task[r] # Completed,
         Agrees(r, row, put, raised), task'[r] = row.task,
         out' = [out EXCEPT ![r] = @ \o put \o (IF raised THEN <<"error", "END">> ELSE <<>>)]
  PROVE  Told(r)'
<1> DEFINE s == out[r]
           t == out'[r]
<1>1. s \in Seq(DP!Frames)  OBVIOUS
<1>2. \A i \in 1..Len(s) : s[i] = "message"
  BY <1>1, LenProperties DEF OnlyMessages
<1> DEFINE e == IF raised THEN <<"error", "END">> ELSE <<>>
<1>3. t = s \o put \o e /\ e \in {<<>>, <<"error", "END">>} /\ (~raised => Len(e) = 0)
  OBVIOUS
<1> HIDE DEF s, t, e
<1>4. ASSUME put \in {<<"done", "END">>, <<"error", "END">>}
      PROVE  /\ t \in Seq(DP!Frames) /\ Len(s) \in Nat /\ DOMAIN t = 1..Len(t)
             /\ Len(t) = Len(s) + 2 + Len(e) /\ Len(e) \in Nat
             /\ \A i \in 1..Len(s) : t[i] = "message"
             /\ t[Len(s) + 1] = put[1] /\ t[Len(s) + 2] = "END"
  <2>1. /\ t \in Seq(DP!Frames) /\ Len(s) \in Nat /\ Len(e) \in Nat
        /\ Len(t) = Len(s) + 2 + Len(e)
        /\ \A i \in 1..Len(s) : t[i] = s[i]
        /\ t[Len(s) + 1] = put[1] /\ t[Len(s) + 2] = "END"
    <3>1. e \in {<<>>, <<"error", "END">>}  BY <1>3
    <3>2. /\ s \o put \o e \in Seq(DP!Frames) /\ Len(s) \in Nat /\ Len(e) \in Nat
          /\ Len(s \o put \o e) = Len(s) + 2 + Len(e)
          /\ \A i \in 1..Len(s) : (s \o put \o e)[i] = s[i]
          /\ (s \o put \o e)[Len(s) + 1] = put[1]
          /\ (s \o put \o e)[Len(s) + 2] = "END"
      BY <1>1, <1>4, <3>1, LastSlice, Zenon
    <3> QED  BY <1>3, <3>2
  <2>2. DOMAIN t = 1..Len(t)  BY <2>1, LenProperties
  <2> QED  BY <1>2, <2>1, <2>2
<1>5. ASSUME put = <<"done", "END">>
      PROVE  (\E i \in Visible(r) : out[r][i] = "done")' /\ (\A i \in Visible(r) : out[r][i] # "error")'
  <2> DEFINE k == Len(s) + 1
  <2>1. put[1] = "done"  BY <1>5
  <2>2. /\ k \in Nat \ {0} /\ k + 1 \in DOMAIN t /\ k \in DOMAIN t
        /\ \A i \in 1..(k - 1) : t[i] = "message"
        /\ t[k] = "done" /\ t[k + 1] = "END" /\ DOMAIN t \subseteq Nat \ {0}
    BY <1>4, <1>5, <2>1
  <2> HIDE DEF k
  <2>3. \A j \in 1..k : t[j] \in {"message", "done"}  BY <2>2
  <2>4. \A i \in DOMAIN t : (\A j \in 1..i : t[j] # "END") => i \in 1..k
    <3> SUFFICES ASSUME NEW i \in DOMAIN t, i > k PROVE k + 1 \in 1..i
      BY <2>2
    <3> QED  BY <2>2
  <2>5. \E i \in DOMAIN t : (\A j \in 1..i : t[j] # "END") /\ t[i] = "done"
    BY <2>2, <2>3
  <2>6. \A i \in DOMAIN t : (\A j \in 1..i : t[j] # "END") => t[i] # "error"
    BY <2>3, <2>4
  <2> QED  BY <2>5, <2>6 DEF Visible, t
<1>6. ASSUME put \in {<<"done", "END">>, <<"error", "END">>}, ~raised
      PROVE  /\ Len(t) >= 2 /\ t[Len(t)] = "END" /\ t[Len(t) - 1] = put[1]
             /\ \A i \in 1..(Len(t) - 2) : t[i] = "message"
  <2>1. Len(t) = Len(s) + 2 /\ Len(s) \in Nat  BY <1>3, <1>4, <1>6
  <2>2. Len(t) - 1 = Len(s) + 1 /\ Len(t) - 2 = Len(s) /\ Len(t) >= 2  BY <2>1
  <2> QED  BY <1>4, <1>6, <2>1, <2>2
<1>7. CASE /\ faults' = faults /\ ~raised
           /\ \/ put = <<"done", "END">> /\ row.task = Completed
              \/ put = <<"error", "END">> /\ row.task = Failed
  <2>1. put[1] = (IF row.task = Completed THEN "done" ELSE "error") /\ row.task \in Settled
    BY <1>7 DEF Settled, Completed, Failed
  <2>2. row.task = Completed => put = <<"done", "END">>
    BY <1>7 DEF Completed, Failed
  <2> QED  BY <1>5, <1>6, <1>7, <2>1, <2>2 DEF Told, t
<1>8. ASSUME NEW n \in Nat \ {0}, Charge(r, n), row.task = Completed => put = <<"done", "END">>
      PROVE  Told(r)'
  <2>1. ~Clean(r)'  BY <1>8, ChargeRow DEF Clean
  <2> QED  BY <1>5, <1>8, <2>1 DEF Told
<1> QED  BY <1>7, <1>8 DEF Agrees

LEMMA TornEnded ==
  ASSUME TypeInv, NEW r \in Runs, pc[r] = "ended", NEW row \in Torn(r)
  PROVE  row.task # Completed
<1>1. row \in ResumedCuts(Row(r)) /\ task[r] = Waiting  BY DEF Torn
<1>2. Row(r) \in RowType /\ Row(r).task = task[r]
  BY RowTyped, RowFields DEF TypeInv
<1>3. row.task \in {task[r], Running}  BY <1>1, <1>2, ResumedTyped
<1> QED  BY <1>1, <1>3 DEF Waiting, Running, Completed

(* What an ended run's client was told stays true.                         *)
LEMMA StaysTold ==
  ASSUME NEW r, Told(r), out'[r] = out[r],
         task'[r] = Completed => task[r] = Completed,
         Clean(r)' => Clean(r) /\ task'[r] = task[r]
  PROVE  Told(r)'
BY DEF Told, Visible

LEMMA MessageAppended ==
  ASSUME NEW s \in Seq(DP!Frames)
  PROVE  /\ Len(s) \in Nat
         /\ Len(s \o <<"message">>) = Len(s) + 1
         /\ DOMAIN s = 1..Len(s) /\ DOMAIN (s \o <<"message">>) = 1..(Len(s) + 1)
         /\ \A i \in 1..Len(s) : (s \o <<"message">>)[i] = s[i]
         /\ (s \o <<"message">>)[Len(s) + 1] = "message"
<1> DEFINE t == s \o <<"message">>
           one == <<"message">>
<1>1. one \in Seq(DP!Frames) /\ Len(one) = 1 /\ one[1] = "message"  BY DEF DP!Frames
<1>2. Len(s) \in Nat /\ DOMAIN s = 1..Len(s)  BY LenProperties
<1>3. t = s \o one  OBVIOUS
<1> HIDE DEF one, t
<1>4. /\ t \in Seq(DP!Frames) /\ Len(t) = Len(s) + Len(one)
      /\ \A i \in 1..(Len(s) + Len(one)) : t[i] = IF i <= Len(s) THEN s[i] ELSE one[i - Len(s)]
  BY <1>1, <1>3, ConcatProperties
<1>5. DOMAIN t = 1..(Len(s) + 1)  BY <1>1, <1>4, LenProperties
<1>6. t[Len(s) + 1] = one[Len(s) + 1 - Len(s)]  BY <1>1, <1>2, <1>4
<1>7. Len(s) + 1 - Len(s) = 1  BY <1>2
<1> QED  BY <1>1, <1>2, <1>4, <1>5, <1>6, <1>7 DEF t

(* A slice that persists a message and streams it.                         *)
LEMMA ProgressRow ==
  ASSUME TypeInv, NEW w \in Workers, worker[w] \in Runs, Progress(w)
  PROVE  LET r == worker[w] IN
         /\ pc[r] \in Serviced /\ pc'[r] \in Live /\ faults' = faults
         /\ out'[r] = out[r] \o <<"message">> /\ events'[r] = events[r] + 1
         /\ \A q \in Runs \ {r} : /\ pc'[q] = pc[q] /\ out'[q] = out[q]
                                  /\ task'[q] = task[q] /\ events'[q] = events[q]
<1> DEFINE r == worker[w]
<1>1. PICK row \in RowType, place \in Live :
             /\ Moves(r, row, place) /\ Write(r, row) /\ row.events = events[r] + 1
             /\ D!Put(w, <<"message">>) /\ pc' = [pc EXCEPT ![r] = place] /\ faults' = faults
  BY DEF Progress
<1>2. /\ StoreType /\ pc \in [Runs -> Places] /\ out \in [Runs -> Seq(DP!Frames)]
  BY DEF TypeInv, MemoryType, DP!TypeInv, DP!TypeOK
<1>3. pc[r] \in Serviced  BY <1>1 DEF Moves, Live, Serviced
<1>4. out' = [out EXCEPT ![r] = @ \o <<"message">>]  BY <1>1 DEF D!Put
<1> QED  BY <1>1, <1>2, <1>3, <1>4, WriteRow

(* The last slice of a handler.                                            *)
LEMMA EndsRow ==
  ASSUME TypeInv, NEW w \in Workers, worker[w] \in Runs, Ends(w)
  PROVE  LET r == worker[w] IN
         /\ pc[r] \in Serviced /\ pc'[r] = "ended" /\ events'[r] >= events[r]
         /\ \E put \in LastFrames, raised \in BOOLEAN, row \in RowType :
              /\ Agrees(r, row, put, raised) /\ task'[r] = row.task
              /\ out' = [out EXCEPT ![r] =
                           @ \o put \o (IF raised THEN <<"error", "END">> ELSE <<>>)]
         /\ \A q \in Runs \ {r} : /\ pc'[q] = pc[q] /\ out'[q] = out[q] /\ faults'[q] = faults[q]
                                  /\ task'[q] = task[q] /\ events'[q] = events[q]
<1> DEFINE r == worker[w]
<1>1. PICK row \in RowType, put \in LastFrames, raised \in BOOLEAN :
             /\ pc[r] \in Serviced /\ Write(r, row) /\ row.events >= events[r]
             /\ D!Return(w, put, raised) /\ pc' = [pc EXCEPT ![r] = "ended"]
             /\ Agrees(r, row, put, raised)
  BY DEF Ends
<1>2. /\ StoreType /\ MemoryType /\ pc \in [Runs -> Places] /\ out \in [Runs -> Seq(DP!Frames)]
  BY DEF TypeInv, MemoryType, DP!TypeInv, DP!TypeOK
<1>3. out' = [out EXCEPT ![r] = @ \o put \o (IF raised THEN <<"error", "END">> ELSE <<>>)]
  BY <1>1 DEF D!Return
<1>4. task'[r] = row.task /\ events'[r] = row.events  BY <1>1, <1>2, WriteRow
<1>5. \A q \in Runs \ {r} : faults'[q] = faults[q]
  BY <1>1, <1>2, ChargeRow DEF Agrees
<1>6. \A q \in Runs \ {r} : /\ pc'[q] = pc[q] /\ out'[q] = out[q]
                            /\ task'[q] = task[q] /\ events'[q] = events[q]
  BY <1>1, <1>2, <1>3, WriteRow
<1>7. pc'[r] = "ended"  BY <1>1, <1>2
<1>8. \E p \in LastFrames, b \in BOOLEAN, c \in RowType :
        /\ Agrees(r, c, p, b) /\ task'[r] = c.task
        /\ out' = [out EXCEPT ![r] = @ \o p \o (IF b THEN <<"error", "END">> ELSE <<>>)]
  BY <1>1, <1>3, <1>4
<1> QED  BY <1>1, <1>4, <1>5, <1>6, <1>7, <1>8

LEMMA OutKept ==
  ASSUME TypeInv, LiveInv, OutInv, Moved
  PROVE  OutInv'
<1> SUFFICES ASSUME NEW q \in Runs PROVE OutRow(q)'
  BY DEF OutInv
<1>1. /\ StoreType /\ MemoryType /\ OutRow(q) /\ pc \in [Runs -> Places]
      /\ out \in [Runs -> Seq(DP!Frames)]
  BY DEF TypeInv, MemoryType, OutInv, DP!TypeInv, DP!TypeOK
<1>2. ASSUME out'[q] = out[q], task'[q] = task[q], faults'[q] = faults[q], PlaceMoved(q)
      PROVE  OutRow(q)'
  <2>1. Told(q) => Told(q)'  BY <1>2 DEF Told, Visible, Clean
  <2>2. OnlyMessages(q) => OnlyMessages(q)'  BY <1>2 DEF OnlyMessages
  <2> QED  BY <1>1, <1>2, <2>1, <2>2 DEF OutRow, Serviced, PlaceMoved
<1>3. CASE Quiet  BY <1>2, <1>3 DEF Quiet, store
<1>4. ASSUME NEW w \in Workers, worker[w] \in Runs, Progress(w) PROVE OutRow(q)'
  <2> DEFINE r == worker[w]
  <2>1. /\ pc[r] \in Serviced /\ pc'[r] \in Live /\ faults' = faults
        /\ out'[r] = out[r] \o <<"message">>
        /\ \A p \in Runs \ {r} : pc'[p] = pc[p] /\ out'[p] = out[p] /\ task'[p] = task[p]
    BY <1>4, ProgressRow
  <2>2. CASE q = r
    <3>1. OnlyMessages(q)  BY <1>1, <2>1, <2>2 DEF OutRow
    <3>2. /\ Len(out[q]) \in Nat /\ DOMAIN out[q] = 1..Len(out[q])
          /\ DOMAIN out'[q] = 1..(Len(out[q]) + 1)
          /\ \A i \in 1..Len(out[q]) : out'[q][i] = out[q][i]
          /\ out'[q][Len(out[q]) + 1] = "message"
      BY <1>1, <2>1, <2>2, MessageAppended
    <3>3. OnlyMessages(q)'  BY <3>1, <3>2 DEF OnlyMessages
    <3>4. pc'[q] # "ended"  BY <2>1, <2>2 DEF Live
    <3> QED  BY <3>3, <3>4 DEF OutRow
  <2>3. CASE q # r  BY <1>2, <2>1, <2>3 DEF PlaceMoved
  <2> QED  BY <2>2, <2>3
<1>5. ASSUME NEW w \in Workers, worker[w] \in Runs, Ends(w) PROVE OutRow(q)'
  <2>0. PICK r \in Runs : r = worker[w]  BY <1>5
  <2>1. /\ pc[r] \in Serviced /\ pc'[r] = "ended"
        /\ \A p \in Runs \ {r} : /\ pc'[p] = pc[p] /\ out'[p] = out[p] /\ faults'[p] = faults[p]
                                 /\ task'[p] = task[p]
    BY <1>5, <2>0, EndsRow
  <2>2. CASE q = r
    <3>1. PICK put \in LastFrames, raised \in BOOLEAN, row \in RowType :
            /\ Agrees(worker[w], row, put, raised) /\ task'[worker[w]] = row.task
            /\ out' = [out EXCEPT ![worker[w]] =
                         @ \o put \o (IF raised THEN <<"error", "END">> ELSE <<>>)]
      BY <1>5, EndsRow
    <3>2. /\ Agrees(r, row, put, raised) /\ task'[r] = row.task
          /\ out' = [out EXCEPT ![r] = @ \o put \o (IF raised THEN <<"error", "END">> ELSE <<>>)]
      BY <2>0, <3>1, Zenon
    <3>3. OnlyMessages(r)  BY <1>1, <2>1, <2>2 DEF OutRow
    <3>4. task[r] # Completed
      BY <2>1, StatesDiffer DEF LiveInv, LiveRow, Serviced, Live, Settled
    <3>5. Told(r)'  BY <1>1, <3>2, <3>3, <3>4, EndsTold
    <3> QED  BY <2>1, <2>2, <3>5 DEF OutRow, Serviced
  <2>3. CASE q # r  BY <1>2, <2>1, <2>3 DEF PlaceMoved
  <2> QED  BY <2>2, <2>3
<1>6. ASSUME NEW r \in Runs, ResumeStep(r) PROVE OutRow(q)'
  <2>1. pc' = pc /\ out' = out  BY <1>6, ResumeRow
  <2>2. PICK row \in RowType :
          /\ Write(r, row)
          /\ row.task = task[r] \/ (Running \in Allowed[task[r]] /\ row.task = Running)
          /\ faults' = faults \/ Charge(r, 1)
    BY <1>6, ResumeRow
  <2>3. \A p \in Runs \ {r} : task'[p] = task[p] /\ faults'[p] = faults[p]
    BY <1>1, <2>2, WriteRow, ChargeRow
  <2>4. CASE q = r
    <3>1. task'[q] = row.task  BY <1>1, <2>2, <2>4, WriteRow
    <3>2. task'[q] = Completed => task[q] = Completed
      BY <2>2, <2>4, <3>1 DEF Running, Completed
    <3>3. Clean(q)' => Clean(q)
      BY <1>1, <2>2, <2>4, ChargeRow DEF Clean
    <3>4. Told(q) /\ Clean(q) => task'[q] = task[q]
      BY <1>6, LiveKept DEF Told, SettledStays
    <3>5. Told(q) => Told(q)'  BY <2>1, <3>2, <3>3, <3>4, StaysTold
    <3>6. OnlyMessages(q) => OnlyMessages(q)'  BY <2>1 DEF OnlyMessages
    <3> QED  BY <1>1, <2>1, <3>5, <3>6 DEF OutRow
  <2>5. CASE q # r  BY <1>2, <2>1, <2>3, <2>5 DEF PlaceMoved
  <2> QED  BY <2>4, <2>5
<1>7. CASE TornStep
  <2>1. PICK r \in Runs : \E row \in Torn(r) : Write(r, row) /\ Charge(r, 1)
    BY <1>7 DEF TornStep
  <2>2. PICK row \in Torn(r) : Write(r, row) /\ Charge(r, 1)  BY <2>1
  <2>3. pc'[q] = Forgotten(q) /\ out' = out  BY <1>7 DEF TornStep
  <2>4. PlaceMoved(q)  BY <2>3 DEF Forgotten, PlaceMoved
  <2>5. CASE q = r
    <3>1. ~Clean(q)'  BY <1>1, <2>2, <2>5, ChargeRow DEF Clean
    <3>2. task'[q] = row.task  BY <1>1, <2>2, <2>5, WriteRow
    <3>3. pc[q] = "ended" => task'[q] # Completed  BY <2>2, <2>5, <3>2, TornEnded
    <3>4. pc[q] = "ended" => Told(q)'  BY <3>1, <3>3 DEF Told
    <3>5. OnlyMessages(q) => OnlyMessages(q)'  BY <2>3 DEF OnlyMessages
    <3> QED  BY <1>1, <2>3, <3>4, <3>5 DEF Forgotten, OutRow, Serviced
  <2>6. CASE q # r
    BY <1>1, <1>2, <2>2, <2>3, <2>4, <2>6, WriteRow, ChargeRow
  <2> QED  BY <2>5, <2>6
<1> QED  BY <1>3, <1>4, <1>5, <1>6, <1>7 DEF Moved

(* What the client was told is what the store says: no store call that     *)
(* raises, no resume and no restart makes a stream say done for a task     *)
(* that is not COMPLETED without a fault, or error for one that is.        *)
THEOREM OutcomeAgreesHolds == Spec => []OutcomeAgrees
<1> DEFINE Inv == TypeInv /\ PlaceInv /\ LiveInv /\ OutInv
<1>1. Init => Inv
  <2> SUFFICES ASSUME Init PROVE LiveInv /\ OutInv  BY InitType, InitPlace
  <2>1. LiveInv  BY DEF Init, LiveInv, LiveRow, Live
  <2>2. \A r \in Runs : out[r] = <<>> /\ pc[r] = "new"  BY DEF Init, D!Init
  <2>3. OutInv  BY <2>2 DEF OutInv, OutRow, OnlyMessages
  <2> QED  BY <2>1, <2>3
<1>2. ASSUME Inv, [Next]_vars PROVE Inv'
  <2>1. Moved  BY <1>2, NextMoved
  <2>2. LiveInv' /\ OutInv'  BY <1>2, <2>1, LiveKept, OutKept
  <2> QED  BY <1>2, <2>2, NextType, NextPlace, PlaceKept
<1>3. Inv => OutcomeAgrees  BY DEF OutInv, OutRow, Told, OutcomeAgrees
<1> QED  BY <1>1, <1>2, <1>3, PTL DEF Spec

-----------------------------------------------------------------------------
(* Frames and rows are counted.                                            *)
MessagesOf(s) == {i \in DOMAIN s : s[i] = "message"}

LEMMA MessagesFinite ==
  ASSUME NEW s \in Seq(DP!Frames)
  PROVE  IsFiniteSet(MessagesOf(s)) /\ Cardinality(MessagesOf(s)) \in Nat
<1>1. Len(s) \in Nat /\ DOMAIN s = 1..Len(s)  BY LenProperties
<1>2. IsFiniteSet(DOMAIN s)  BY <1>1, FS_Interval
<1>3. MessagesOf(s) \subseteq DOMAIN s  BY DEF MessagesOf
<1>4. IsFiniteSet(MessagesOf(s))  BY <1>2, <1>3, FS_Subset
<1> QED  BY <1>4, FS_CardinalityType

(* A message adds one to the messages, the frames of a last slice none.    *)
LEMMA MessageCounted ==
  ASSUME NEW s \in Seq(DP!Frames)
  PROVE  Cardinality(MessagesOf(s \o <<"message">>)) = Cardinality(MessagesOf(s)) + 1
<1> DEFINE t == s \o <<"message">>
           k == Len(s) + 1
<1>1. /\ k \in Nat \ {0} /\ DOMAIN s = 1..(k - 1) /\ DOMAIN t = 1..k
      /\ \A i \in 1..(k - 1) : t[i] = s[i]
      /\ t[k] = "message"
  BY MessageAppended
<1> HIDE DEF t, k
<1>2. MessagesOf(t) = MessagesOf(s) \cup {k} /\ k \notin MessagesOf(s)
  <2>1. ASSUME NEW i PROVE i \in MessagesOf(t) <=> i \in MessagesOf(s) \/ i = k
    <3>1. CASE i \in 1..(k - 1)
      <4>1. i \in DOMAIN s /\ i \in DOMAIN t /\ t[i] = s[i] /\ i # k  BY <1>1, <3>1
      <4> QED  BY <4>1 DEF MessagesOf
    <3>2. CASE i = k
      <4>1. k \in DOMAIN t  BY <1>1
      <4> QED  BY <1>1, <3>2, <4>1 DEF MessagesOf
    <3>3. CASE i \notin 1..k  BY <1>1, <3>3 DEF MessagesOf
    <3>4. i \in 1..k => i \in 1..(k - 1) \/ i = k  BY <1>1
    <3> QED  BY <3>1, <3>2, <3>3, <3>4
  <2>2. k \notin MessagesOf(s)  BY <1>1 DEF MessagesOf
  <2>3. MessagesOf(t) = MessagesOf(s) \cup {k}  BY <2>1
  <2> QED  BY <2>2, <2>3
<1>3. Cardinality(MessagesOf(t)) = Cardinality(MessagesOf(s)) + 1
  BY <1>2, MessagesFinite, FS_AddElement
<1> QED  BY <1>3 DEF t

LEMMA OthersNotCounted ==
  ASSUME NEW s \in Seq(DP!Frames), NEW e \in Seq(DP!Frames \ {"message"})
  PROVE  s \o e \in Seq(DP!Frames) /\ MessagesOf(s \o e) = MessagesOf(s)
<1> DEFINE t == s \o e
<1>1. e \in Seq(DP!Frames) /\ Len(e) \in Nat /\ \A i \in 1..Len(e) : e[i] # "message"
  <2>1. \A i \in 1..Len(e) : e[i] \in DP!Frames \ {"message"}  BY ElementOfSeq
  <2>2. Len(e) \in Nat  BY LenProperties
  <2> QED  BY <2>1, <2>2
<1>2. Len(s) \in Nat /\ DOMAIN s = 1..Len(s)  BY LenProperties
<1>3. /\ t \in Seq(DP!Frames) /\ Len(t) = Len(s) + Len(e)
      /\ \A i \in 1..(Len(s) + Len(e)) : t[i] = IF i <= Len(s) THEN s[i] ELSE e[i - Len(s)]
  BY <1>1, ConcatProperties
<1>4. DOMAIN t = 1..(Len(s) + Len(e))  BY <1>3, LenProperties
<1> HIDE DEF t
<1>5. ASSUME NEW i \in 1..(Len(s) + Len(e)), i > Len(s) PROVE t[i] # "message"
  <2>1. i - Len(s) \in 1..Len(e) /\ ~(i <= Len(s))  BY <1>1, <1>2, <1>5
  <2> QED  BY <1>1, <1>3, <2>1
<1>6. MessagesOf(t) = MessagesOf(s)
  <2>1. ASSUME NEW i PROVE i \in MessagesOf(t) <=> i \in MessagesOf(s)
    BY <1>1, <1>2, <1>3, <1>4, <1>5 DEF MessagesOf
  <2> QED  BY <2>1
<1> QED  BY <1>3, <1>6 DEF t

Persisted(r) == Cardinality(MessagesOf(out[r])) <= events[r]

(* What a crash tears out has not lost an event.                           *)
LEMMA TornEvents ==
  ASSUME TypeInv, NEW r \in Runs, NEW row \in Torn(r)
  PROVE  row.events >= events[r]
<1>1. Row(r) \in RowType /\ Row(r).events = events[r] /\ events[r] \in Nat
  BY RowTyped, RowFields DEF TypeInv, StoreType
<1>2. /\ SetUp(Row(r)) \in RowType /\ SetUp(Row(r)).events = events[r]
      /\ Logged(Row(r)).events = events[r] + 1
  BY <1>1, SetUpTyped, LoggedTyped
<1>3. \/ row \in SetUpCuts(Row(r)) \/ row \in FailedCuts(SetUp(Row(r)))
      \/ row = Logged(Row(r)) \/ row \in FailedCuts(Row(r))
      \/ row \in AskedCuts(Row(r)) \/ row \in SucceededCuts(Row(r))
      \/ row \in ResumedCuts(Row(r))
  BY DEF Torn
<1>4. CASE row \in AskedCuts(Row(r))  BY <1>1, <1>4, AskedTyped
<1>5. CASE row \notin AskedCuts(Row(r))
  <2>1. row.events \in {events[r], events[r] + 1}
    BY <1>1, <1>2, <1>3, <1>5, SetUpTyped, SucceededTyped, FailedTyped, ResumedTyped
  <2> QED  BY <1>1, <2>1
<1> QED  BY <1>4, <1>5

LEMMA PersistedKept ==
  ASSUME TypeInv, TypeInv', Moved, \A r \in Runs : Persisted(r)
  PROVE  \A r \in Runs : Persisted(r)'
<1> SUFFICES ASSUME NEW q \in Runs PROVE Persisted(q)'
  OBVIOUS
<1>1. /\ StoreType /\ Persisted(q) /\ out[q] \in Seq(DP!Frames)
      /\ events[q] \in Nat /\ events'[q] \in Nat /\ Cardinality(MessagesOf(out[q])) \in Nat
  BY MessagesFinite DEF TypeInv, StoreType, DP!TypeInv, DP!TypeOK
<1>2. ASSUME MessagesOf(out'[q]) = MessagesOf(out[q]), events'[q] >= events[q]
      PROVE  Persisted(q)'
  BY <1>1, <1>2 DEF Persisted
<1>3. CASE Quiet  BY <1>1, <1>2, <1>3 DEF Quiet, store
<1>4. ASSUME NEW w \in Workers, worker[w] \in Runs, Progress(w) PROVE Persisted(q)'
  <2>0. PICK r \in Runs : r = worker[w]  BY <1>4
  <2>1. /\ out'[r] = out[r] \o <<"message">> /\ events'[r] = events[r] + 1
        /\ \A p \in Runs \ {r} : out'[p] = out[p] /\ events'[p] = events[p]
    BY <1>4, <2>0, ProgressRow
  <2>2. CASE q = r
    <3>1. Cardinality(MessagesOf(out'[q])) = Cardinality(MessagesOf(out[q])) + 1
      BY <1>1, <2>1, <2>2, MessageCounted
    <3> QED  BY <1>1, <2>1, <2>2, <3>1 DEF Persisted
  <2>3. CASE q # r  BY <1>1, <1>2, <2>1, <2>3
  <2> QED  BY <2>2, <2>3
<1>5. ASSUME NEW w \in Workers, worker[w] \in Runs, Ends(w) PROVE Persisted(q)'
  <2>0. PICK r \in Runs : r = worker[w]  BY <1>5
  <2>1. /\ events'[r] >= events[r]
        /\ \A p \in Runs \ {r} : out'[p] = out[p] /\ events'[p] = events[p]
    BY <1>5, <2>0, EndsRow
  <2>2. CASE q = r
    <3>1. PICK put \in LastFrames, raised \in BOOLEAN :
            out' = [out EXCEPT ![worker[w]] =
                      @ \o put \o (IF raised THEN <<"error", "END">> ELSE <<>>)]
      BY <1>5, EndsRow
    <3> DEFINE O == DP!Frames \ {"message"}
               e == IF raised THEN <<"error", "END">> ELSE <<>>
    <3>2. put \in Seq(O) /\ e \in Seq(O)
      <4>1. {"done", "error", "END"} \subseteq O  BY DEF DP!Frames
      <4> HIDE DEF O
      <4>2. <<"error", "END">> \in Seq(O) /\ <<>> \in Seq(O)  BY <4>1
      <4>3. /\ <<"END">> \in Seq(O) /\ <<"done", "END">> \in Seq(O)
            /\ <<"done", "error", "END">> \in Seq(O)
        BY <4>1
      <4> QED  BY <4>2, <4>3 DEF LastFrames
    <3>3. out'[q] = out[q] \o put \o e
      <4>1. out \in [Runs -> Seq(DP!Frames)]  BY DEF TypeInv, DP!TypeInv, DP!TypeOK
      <4> QED  BY <2>0, <2>2, <3>1, <4>1
    <3> HIDE DEF e
    <3>4. out[q] \o put \in Seq(DP!Frames) /\ MessagesOf(out[q] \o put) = MessagesOf(out[q])
      BY <1>1, <3>2, OthersNotCounted
    <3>5. MessagesOf(out[q] \o put \o e) = MessagesOf(out[q])
      BY <3>2, <3>4, OthersNotCounted
    <3> QED  BY <1>2, <2>1, <2>2, <3>3, <3>5
  <2>3. CASE q # r  BY <1>1, <1>2, <2>1, <2>3
  <2> QED  BY <2>2, <2>3
<1>6. ASSUME NEW r \in Runs, ResumeStep(r) PROVE Persisted(q)'
  <2>1. out' = out /\ \E row \in RowType : Write(r, row) /\ row.events >= events[r]
    BY <1>6, ResumeRow
  <2>2. events'[q] >= events[q]  BY <1>1, <2>1, WriteRow
  <2> QED  BY <1>2, <2>1, <2>2
<1>7. CASE TornStep
  <2>1. PICK r \in Runs : \E row \in Torn(r) : Write(r, row)  BY <1>7 DEF TornStep
  <2>2. PICK row \in Torn(r) : Write(r, row)  BY <2>1
  <2>3. row.events >= events[r]  BY TornEvents
  <2>4. events'[q] >= events[q]  BY <1>1, <2>2, <2>3, WriteRow
  <2> QED  BY <1>2, <1>7, <2>4 DEF TornStep
<1> QED  BY <1>3, <1>4, <1>5, <1>6, <1>7 DEF Moved

(* Nothing is streamed that was not persisted first.                       *)
THEOREM StreamedIsPersistedHolds == Spec => []StreamedIsPersisted
<1> DEFINE Inv == TypeInv /\ PlaceInv /\ \A r \in Runs : Persisted(r)
<1>1. Init => Inv
  <2> SUFFICES ASSUME Init, NEW r \in Runs PROVE Persisted(r)  BY InitType, InitPlace
  <2>1. MessagesOf(out[r]) = {} /\ events[r] = 0  BY DEF Init, D!Init, MessagesOf
  <2> QED  BY <2>1, FS_EmptySet DEF Persisted
<1>2. ASSUME Inv, [Next]_vars PROVE Inv'
  BY <1>2, NextMoved, PersistedKept, NextType, NextPlace, PlaceKept
<1>3. Inv => StreamedIsPersisted  BY DEF Persisted, MessagesOf, StreamedIsPersisted
<1> QED  BY <1>1, <1>2, <1>3, PTL DEF Spec
=============================================================================
