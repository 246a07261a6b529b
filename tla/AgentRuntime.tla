---------------------------- MODULE AgentRuntime ----------------------------
(***************************************************************************)
(* One backend process and its SQLite store: POST /run, the distributor's  *)
(* workers, the run handler, AgentRunService, POST /resume, the stream     *)
(* each client reads, faults of the store, and crashes and restarts.       *)
(*                                                                         *)
(* A store call commits on its own, so a handler that dies or raises half  *)
(* way leaves what its earlier calls wrote.  A handler's slice is modelled *)
(* by the rows it leaves when it completes, and by its `Cuts`: the rows it *)
(* leaves when one of its store calls raises instead.                      *)
(***************************************************************************)
EXTENDS Naturals, Sequences, FiniteSets, TaskStates

CONSTANTS
  Runs,        \* the run requests clients make
  Workers,     \* TASK_WORKER_COUNT worker loops
  Sessions, Prompts,
  SessionOf,   \* [Runs -> Sessions]
  PromptOf,    \* [Runs -> Prompts]
  Engine,      \* "mock" (MockTraceEngine) or "orchestrator" (OrchestratorSkillAgent)
  MaxEvents,   \* bound: further trace events the engine yields in a run
  MaxFaults,   \* bound: store calls that raise, per run
  MaxBoots     \* bound: process starts

ASSUME RuntimeAssumption ==
  /\ {"__stop__", "idle", "exited", "none"} \cap Runs = {}
  /\ IsFiniteSet(Workers) /\ Workers # {}
  /\ SessionOf \in [Runs -> Sessions]
  /\ PromptOf \in [Runs -> Prompts]
  /\ Engine \in {"mock", "orchestrator"}
  /\ MaxEvents \in Nat /\ MaxFaults \in Nat /\ MaxBoots \in Nat

NoRun == "none"

VARIABLES
  queue, isRunning, pool, worker, metrics, out, late,  \* TaskDistributor
  boots,     \* process starts so far
  pc,        \* where the handler of each run is
  steps,     \* per run, the engine's further events so far
  answers,   \* _answer_payload_cache: prompt -> the run that stored it
  replied,   \* per run, the run whose answer its done frame carries
  task,      \* runtime_tasks.status of the run's root task
  session,   \* runtime_sessions.status
  hitl,      \* runtime_hitl_waiting.status of the run's row
  asked,     \* the runs with a hitl row, by requested_at
  events,    \* number of runtime_events rows of the run
  faults,    \* history variable: store calls of the run that did not happen
  latest,    \* history variable: the run of each session a worker took last
  client     \* the stream_task_events generator of the run's POST

D == INSTANCE TaskDistributor WITH Tasks <- Runs, Handled <- Runs

dvars == <<queue, isRunning, pool, worker, metrics, out, late>>
memory == <<pc, steps, answers, replied>>
store == <<task, session, hitl, asked, events>>
vars == <<dvars, boots, latest, memory, store, faults, client>>

Places == {"new", "queued", "taken", "started", "asked", "answered", "ended", "lost"}

TypeOK ==
  /\ D!TypeOK
  /\ boots \in 0..MaxBoots
  /\ pc \in [Runs -> Places]
  /\ steps \in [Runs -> 0..MaxEvents]
  /\ answers \in [Prompts -> Runs \cup {NoRun}]
  /\ replied \in [Runs -> Runs \cup {NoRun}]
  /\ task \in [Runs -> TaskStates]
  /\ session \in [Sessions -> {"absent", "running", "done", "failed"}]
  /\ hitl \in [Runs -> {"none", "waiting", "resumed"}]
  /\ asked \in Seq(Runs)
  /\ events \in [Runs -> Nat]
  /\ faults \in [Runs -> 0..MaxFaults]
  /\ latest \in [Sessions -> Runs \cup {NoRun}]
  /\ client \in [Runs -> {"none", "open", "closed", "broken"}]

Init ==
  /\ D!Init
  /\ boots = 0
  /\ pc = [r \in Runs |-> "new"]
  /\ steps = [r \in Runs |-> 0]
  /\ answers = [p \in Prompts |-> NoRun]
  /\ replied = [r \in Runs |-> NoRun]
  /\ task = [r \in Runs |-> Absent]
  /\ session = [s \in Sessions |-> "absent"]
  /\ hitl = [r \in Runs |-> "none"]
  /\ asked = <<>>
  /\ events = [r \in Runs |-> 0]
  /\ faults = [r \in Runs |-> 0]
  /\ latest = [s \in Sessions |-> NoRun]
  /\ client = [r \in Runs |-> "none"]

-----------------------------------------------------------------------------
(* Rows: the part of the store one run's handler writes.                   *)
Row(r) ==
  [task |-> task[r], session |-> session[SessionOf[r]],
   hitl |-> hitl[r], events |-> events[r]]

Write(r, row) ==
  /\ task' = [task EXCEPT ![r] = row.task]
  /\ session' = [session EXCEPT ![SessionOf[r]] = row.session]
  /\ hitl' = [hitl EXCEPT ![r] = row.hitl]
  /\ asked' = IF hitl[r] = "none" /\ row.hitl = "waiting" THEN Append(asked, r) ELSE asked
  /\ events' = [events EXCEPT ![r] = row.events]

At(row, s) == [row EXCEPT !.task = s]
Logged(row) == [row EXCEPT !.events = @ + 1]
(* INSERT OR IGNORE instead of the upsert.                                 *)
BugInserted(row) ==
  IF row.session = "absent" THEN [row EXCEPT !.session = "running"] ELSE row
Upserted(row) == [row EXCEPT !.session = "running"]

(* create_session, create_root_task, QUEUED, RUNNING.                      *)
SetUp(row) == At(Upserted(row), Running)
SetUpCuts(row) ==
  {row, Upserted(row), At(Upserted(row), Created), At(Upserted(row), Queue)}

(* A waiting event: append_event, WAITING, create_waiting_task.            *)
Asked(row) == [At(Logged(row), Waiting) EXCEPT !.hitl = "waiting"]
AskedCuts(row) == {row, Logged(row), At(Logged(row), Waiting)}

(* _complete_success: WAITING goes through RUNNING; complete_task sets     *)
(* COMPLETED once more; then the session.                                  *)
Succeeded(row) == [At(row, Completed) EXCEPT !.session = "done"]
SucceededCuts(row) ==
  {row, At(row, IF row.task = Waiting THEN Running ELSE row.task), At(row, Completed)}

(* The forced update is left to the transition.                            *)
BugFailedByTransition(row) ==
  [row EXCEPT !.task = IF Failed \in Allowed[row.task] THEN Failed ELSE @,
              !.session = "failed"]

(* _complete_failure: an invalid transition to FAILED is swallowed, and    *)
(* complete_task then forces it.                                           *)
FailedRow(row) == [At(row, Failed) EXCEPT !.session = "failed"]
FailedCuts(row) == {row, At(row, Failed)}

(* resume_agent: resolve_waiting_task, RUNNING, append_event.              *)
Resolved(row) == [row EXCEPT !.hitl = "resumed"]
(* The row is resolved and the transition forgotten.                       *)
BugResumedRowOnly(row) == Logged(Resolved(row))
Resumed(row) == Logged(At(Resolved(row), Running))
ResumedCuts(row) == {row, Resolved(row), At(Resolved(row), Running)}

Charge(r, n) ==
  /\ faults[r] + n <= MaxFaults
  /\ faults' = [faults EXCEPT ![r] = @ + n]

Goto(r, place) == pc' = [pc EXCEPT ![r] = place]

-----------------------------------------------------------------------------
(* POST /run.  The server accepts connections between startup and          *)
(* shutdown of the lifespan.                                               *)
Submit(r) ==
  /\ isRunning
  /\ pc[r] = "new"
  /\ D!Enqueue(r)
  /\ Goto(r, "queued")
  /\ client' = [client EXCEPT ![r] = "open"]
  /\ UNCHANGED <<boots, latest, steps, answers, replied, store, faults>>

(* stream_task_events yields the frames in the order they were put and ends*)
(* at the first sentinel: the client has then read what precedes it.       *)
CloseStream(r) ==
  /\ client[r] = "open"
  /\ \E i \in DOMAIN out[r] : out[r][i] = "END"
  /\ client' = [client EXCEPT ![r] = "closed"]
  /\ UNCHANGED <<dvars, boots, latest, memory, store, faults>>

(* The client disconnects: only the generator is cancelled.                *)
Leave(r) ==
  /\ client[r] = "open"
  /\ client' = [client EXCEPT ![r] = "broken"]
  /\ UNCHANGED <<dvars, boots, latest, memory, store, faults>>

-----------------------------------------------------------------------------
(* A worker and its run.  Between Take and the run's first slice the code  *)
(* does not suspend; nothing else touches a taken run, so that letting     *)
(* other steps in between adds no outcome.                                 *)
Serving(w, place) == D!Busy(w) /\ pc[worker[w]] \in place

Take(w) ==
  /\ D!Take(w)
  /\ Goto(Head(queue), "taken")
  /\ latest' = [latest EXCEPT ![SessionOf[Head(queue)]] = Head(queue)]
  /\ UNCHANGED <<boots, steps, answers, replied, store, faults, client>>

TakePill(w) ==
  /\ D!TakePill(w)
  /\ UNCHANGED <<boots, latest, memory, store, faults, client>>

(* agent_start is streamed and not persisted.                              *)
BugBeginUnlogged(w) ==
  LET r == worker[w] IN
  /\ Serving(w, {"taken"})
  /\ Write(r, SetUp(Row(r)))
  /\ D!Put(w, <<"message">>)
  /\ Goto(r, "started")
  /\ UNCHANGED <<boots, latest, steps, answers, replied, faults, client>>

(* The run is set up and its agent_start event persisted and streamed.     *)
Begin(w) ==
  LET r == worker[w] IN
  /\ Serving(w, {"taken"})
  /\ Write(r, Logged(SetUp(Row(r))))
  /\ D!Put(w, <<"message">>)
  /\ Goto(r, "started")
  /\ UNCHANGED <<boots, latest, steps, answers, replied, faults, client>>

(* A set-up call raises: this is outside the service's try, so it leaves   *)
(* the handler, whose finally puts the sentinel before the worker loop     *)
(* puts the error.                                                         *)
SetUpFails(w) ==
  LET r == worker[w] IN
  /\ Serving(w, {"taken"})
  /\ \E cut \in SetUpCuts(Row(r)) : Write(r, cut)
  /\ Charge(r, 1)
  /\ D!Return(w, <<"END">>, TRUE)
  /\ Goto(r, "ended")
  /\ UNCHANGED <<boots, latest, steps, answers, replied, client>>

(* The service's except branch, from the rows and the frames its try       *)
(* left; `cost` store calls have raised by then.  It marks the failure and *)
(* yields the error, unless a call of it raises as well.                   *)
FailureBranch(w, row, put, cost) ==
  LET r == worker[w] IN
  /\ Goto(r, "ended")
  /\ UNCHANGED <<boots, latest, steps, client>>
  /\ \/ /\ Write(r, FailedRow(row))
        /\ Charge(r, cost)
        /\ D!Return(w, put \o <<"error", "END">>, FALSE)
     \/ /\ \E cut \in FailedCuts(row) : Write(r, cut)
        /\ Charge(r, cost + 1)
        /\ D!Return(w, put \o <<"END">>, TRUE)

(* The engine yields a trace event.                                        *)
Event(w) ==
  LET r == worker[w] IN
  /\ Serving(w, {"started", "asked", "answered"})
  /\ steps[r] < MaxEvents
  /\ steps' = [steps EXCEPT ![r] = @ + 1]
  /\ Write(r, Logged(Row(r)))
  /\ D!Put(w, <<"message">>)
  /\ UNCHANGED <<boots, latest, pc, answers, replied, faults, client>>

(* The mock engine yields its one waiting event.                           *)
Ask(w) ==
  LET r == worker[w] IN
  /\ Engine = "mock"
  /\ Serving(w, {"started"})
  /\ Write(r, Asked(Row(r)))
  /\ D!Put(w, <<"message">>)
  /\ Goto(r, "asked")
  /\ UNCHANGED <<boots, latest, steps, answers, replied, faults, client>>

(* The first answer to a prompt is kept for good.                          *)
BugStoreAnswerOnce(r) ==
  answers' = [answers EXCEPT ![PromptOf[r]] = IF @ = NoRun THEN r ELSE @]

StoreAnswer(r) == answers' = [answers EXCEPT ![PromptOf[r]] = r]

(* The orchestrator stores its answer under the prompt and yields          *)
(* artifact_created.                                                       *)
Answer(w) ==
  LET r == worker[w] IN
  /\ Engine = "orchestrator"
  /\ Serving(w, {"started"})
  /\ StoreAnswer(r)
  /\ Write(r, Logged(Row(r)))
  /\ D!Put(w, <<"message">>)
  /\ Goto(r, "answered")
  /\ UNCHANGED <<boots, latest, steps, replied, faults, client>>

(* The store raises on artifact_created: the answer stays in the cache.    *)
AnswerFails(w) ==
  LET r == worker[w] IN
  /\ Engine = "orchestrator"
  /\ Serving(w, {"started"})
  /\ StoreAnswer(r)
  /\ UNCHANGED replied
  /\ FailureBranch(w, Row(r), <<>>, 1)

(* build_final_payload reads the cache under the prompt; the mock engine   *)
(* computes its answer from the prompt alone.                              *)
Reply(r) ==
  replied' = [replied EXCEPT ![r] =
                IF Engine = "orchestrator" THEN answers[PromptOf[r]] ELSE r]

(* The handler puts its sentinel only when the stream raised.              *)
BugFinishWithoutSentinel(w) ==
  LET r == worker[w] IN
  /\ Serving(w, {"asked", "answered"})
  /\ Reply(r)
  /\ Write(r, Succeeded(Row(r)))
  /\ D!Return(w, <<"done">>, FALSE)
  /\ Goto(r, "ended")
  /\ UNCHANGED <<boots, latest, steps, answers, faults, client>>

(* The engine is exhausted: the done frame, then _complete_success, then   *)
(* the handler's sentinel.                                                 *)
Finish(w) ==
  LET r == worker[w] IN
  /\ Serving(w, {"asked", "answered"})
  /\ Reply(r)
  /\ Write(r, Succeeded(Row(r)))
  /\ D!Return(w, <<"done", "END">>, FALSE)
  /\ Goto(r, "ended")
  /\ UNCHANGED <<boots, latest, steps, answers, faults, client>>

(* Inside the try: the store raises on an event (agent_start included), or *)
(* the orchestrator raises.                                                *)
Abort(w) ==
  LET r == worker[w] IN
  /\ UNCHANGED <<answers, replied>>
  /\ \/ /\ Serving(w, {"taken"})
        /\ FailureBranch(w, SetUp(Row(r)), <<>>, 1)
     \/ /\ Serving(w, {"started"})
        /\ Engine = "mock"
        /\ \E cut \in AskedCuts(Row(r)) : FailureBranch(w, cut, <<>>, 1)
     \/ /\ Serving(w, {"asked", "answered"})
        /\ FailureBranch(w, Row(r), <<>>, 1)
     \/ /\ Serving(w, {"started", "answered"})
        /\ Engine = "orchestrator"
        /\ \E cost \in {0, 1} : FailureBranch(w, Row(r), <<>>, cost)

(* _complete_success raises, with the done frame already streamed.         *)
FinishFails(w) ==
  LET r == worker[w] IN
  /\ Serving(w, {"asked", "answered"})
  /\ Reply(r)
  /\ UNCHANGED answers
  /\ \E cut \in SucceededCuts(Row(r)) : FailureBranch(w, cut, <<"done">>, 1)

-----------------------------------------------------------------------------
(* POST /resume for the agent whose questions the store holds: the newest  *)
(* row still waiting, whatever run or session it belongs to.               *)
NewestWaiting(r) ==
  /\ hitl[r] = "waiting"
  /\ \E i \in DOMAIN asked :
       /\ asked[i] = r
       /\ \A j \in DOMAIN asked : j > i => hitl[asked[j]] # "waiting"

Resume(r) ==
  /\ isRunning
  /\ NewestWaiting(r)
  /\ UNCHANGED <<dvars, boots, latest, memory, client>>

(* The row is trusted and the task not looked at.                          *)
BugResumeUnchecked(r) ==
  /\ Resume(r)
  /\ Write(r, Resumed(Row(r)))
  /\ UNCHANGED faults

(* The task is waiting: it runs again, and the answer is logged.           *)
ResumeTask(r) ==
  /\ Resume(r)
  /\ Running \in Allowed[task[r]]
  /\ Write(r, Resumed(Row(r)))
  /\ UNCHANGED faults

(* The task is not: the transition raises after the row was resolved.      *)
ResumeStale(r) ==
  /\ Resume(r)
  /\ Running \notin Allowed[task[r]]
  /\ Write(r, Resolved(Row(r)))
  /\ UNCHANGED faults

ResumeFails(r) ==
  /\ Resume(r)
  /\ Running \in Allowed[task[r]]
  /\ \E cut \in ResumedCuts(Row(r)) : Write(r, cut)
  /\ Charge(r, 1)

-----------------------------------------------------------------------------
(* The process: lifespan startup, shutdown and crash.                      *)
Boot ==
  /\ boots < MaxBoots
  /\ D!Start
  /\ boots' = boots + 1
  /\ UNCHANGED <<latest, memory, store, faults, client>>

(* The server ends its open streams, then the lifespan stops the workers.  *)
BreakStreams == client' = [r \in Runs |-> IF client[r] = "open" THEN "broken" ELSE client[r]]

Shutdown ==
  /\ D!StopRequest
  /\ BreakStreams
  /\ UNCHANGED <<boots, latest, memory, store, faults>>

ForgetMemory ==
  /\ D!ProcessExit
  /\ answers' = [p \in Prompts |-> NoRun]
  /\ pc' = [r \in Runs |->
             IF pc[r] \in {"queued", "taken", "started", "asked", "answered"}
               THEN "lost" ELSE pc[r]]
  /\ UNCHANGED <<boots, latest, steps, replied>>

(* stop() returns and the process ends.                                    *)
Halt ==
  /\ D!Drained
  /\ ForgetMemory
  /\ UNCHANGED <<store, faults, client>>

(* What a run's next slice, or a resume of it, leaves in the store when    *)
(* the process is killed between two of its store calls.                   *)
Torn(r) ==
  LET row == Row(r) IN
    (IF pc[r] = "taken" THEN SetUpCuts(row) \cup FailedCuts(SetUp(row)) ELSE {})
      \cup (IF pc[r] = "started" THEN {Logged(row)} \cup FailedCuts(row) ELSE {})
      \cup (IF pc[r] = "started" /\ Engine = "mock" THEN AskedCuts(row) ELSE {})
      \cup (IF pc[r] \in {"asked", "answered"}
              THEN {Logged(row)} \cup SucceededCuts(row) \cup FailedCuts(row) ELSE {})
      \cup (IF isRunning /\ NewestWaiting(r) /\ task[r] = Waiting
              THEN ResumedCuts(row) ELSE {})

(* A crash: between two slices, or within one.                             *)
Crash ==
  /\ pool # {}
  /\ ForgetMemory
  /\ BreakStreams
  /\ \/ UNCHANGED <<store, faults>>
     \/ \E r \in Runs : \E row \in Torn(r) \ {Row(r)} : Write(r, row) /\ Charge(r, 1)

-----------------------------------------------------------------------------
RunStep(w) ==
  Begin(w) \/ SetUpFails(w) \/ Event(w) \/ Ask(w) \/ Answer(w)
    \/ AnswerFails(w) \/ Finish(w) \/ Abort(w) \/ FinishFails(w)

Work(w) == Take(w) \/ TakePill(w) \/ RunStep(w)

ClientStep(r) == Submit(r) \/ CloseStream(r) \/ Leave(r)

ResumeStep(r) == ResumeTask(r) \/ ResumeStale(r) \/ ResumeFails(r)

Next ==
  \/ \E w \in Workers : Work(w)
  \/ \E r \in Runs : ClientStep(r)
  \/ \E r \in Runs : ResumeStep(r)
  \/ Boot
  \/ Shutdown
  \/ Halt
  \/ Crash

Spec == Init /\ [][Next]_vars

(* The event loop runs whatever can run: the loops, the streams.  Requests,*)
(* answers, disconnects, shutdowns, crashes and faults just may happen.    *)
FairSpec ==
  /\ Spec
  /\ \A w \in Workers : WF_vars(Work(w))
  /\ \A r \in Runs : WF_vars(CloseStream(r))

-----------------------------------------------------------------------------
(* Properties                                                              *)
Clean(r) == faults[r] = 0
Serviced == {"taken", "started", "asked", "answered"}

(* The frames of a run its client gets to see: those before the first      *)
(* sentinel.                                                               *)
Visible(r) ==
  {i \in DOMAIN out[r] : \A j \in 1..i : out[r][j] # "END"}

(* A request is queued once and served by one worker at a time, and the    *)
(* queue, the workers and the handlers agree on where it is.               *)
OneServer ==
  /\ D!OnePlace
  /\ \A r \in Runs :
       /\ pc[r] = "queued" <=> r \in D!Queued
       /\ pc[r] \in Serviced <=> \E w \in Workers : worker[w] = r

(* What the client was told is what the store says.  For a run none of     *)
(* whose store calls raised, the stream is messages, then one of done and  *)
(* error, then the sentinel, with the task COMPLETED or FAILED; and a task *)
(* left COMPLETED, faults or not, has a client that was told done and no   *)
(* error.                                                                  *)
OutcomeAgrees ==
  \A r \in Runs : pc[r] = "ended" =>
    LET n == Len(out[r]) IN
    /\ Clean(r) =>
         /\ n >= 2 /\ out[r][n] = "END"
         /\ \A i \in 1..(n - 2) : out[r][i] = "message"
         /\ out[r][n - 1] = IF task[r] = Completed THEN "done" ELSE "error"
         /\ task[r] \in Settled
    /\ task[r] = Completed =>
         /\ \E i \in Visible(r) : out[r][i] = "done"
         /\ \A i \in Visible(r) : out[r][i] # "error"

(* A task that waits for its user can be found by the resume path.         *)
WaitingIsResumable ==
  \A r \in Runs : task[r] = Waiting /\ Clean(r) => hitl[r] = "waiting"

(* Nothing is streamed that was not persisted first.                       *)
StreamedIsPersisted ==
  \A r \in Runs :
    Cardinality({i \in DOMAIN out[r] : out[r][i] = "message"}) <= events[r]

(* A settled task stays as it is: no late resume, no second failure, no    *)
(* restart of the process reopens it.                                      *)
SettledIsFinal ==
  [][\A r \in Runs : task[r] \in Settled => task'[r] = task[r]]_vars

(* The stream a client keeps open ends.                                    *)
StreamCloses == \A r \in Runs : client[r] = "open" ~> client[r] # "open"

(* Every accepted request is worked off, unless its process dies.          *)
RunsEnd == \A r \in Runs : pc[r] = "queued" ~> pc[r] \in {"ended", "lost"}

(* The done frame of a run carries the answer that run produced, not that  *)
(* of another run with the same prompt.                                    *)
OwnAnswer == \A r \in Runs : replied[r] \in {NoRun, r}

(* With one worker a session says what its run says: it is RUNNING while a *)
(* run of it is under way; and when the run of it that was taken last has  *)
(* ended, it is DONE if that run's task is COMPLETED and FAILED if not,    *)
(* whatever earlier runs left in the row.  This is for runs none of whose  *)
(* store calls raised; the other runs of the session may have had faults.  *)
SessionFollowsRun ==
  \A r \in Runs : Clean(r) =>
    LET status == session[SessionOf[r]] IN
    /\ pc[r] \in {"started", "asked", "answered"} => status = "running"
    /\ pc[r] = "ended" /\ latest[SessionOf[r]] = r =>
         status = IF task[r] = Completed THEN "done" ELSE "failed"

(* Implementation of the abstract lifecycle.                               *)
Outcome(r) ==
  CASE task[r] = Completed   -> "completed"
    [] task[r] = Failed      -> "failed"
    [] OTHER                 -> "unrecorded"

PhaseOf(r) ==
  CASE pc[r] = "new"         -> "new"
    [] pc[r] = "queued"      -> "pending"
    [] pc[r] \in Serviced    -> IF task[r] = Waiting THEN "paused" ELSE "live"
    [] OTHER                 -> Outcome(r)

(* The requests in the queue; stop() queues its pills behind all of them.  *)
Line == [i \in {j \in DOMAIN queue : queue[j] \in Runs} |-> queue[i]]

Lifecycle ==
  INSTANCE RunLifecycle WITH
    Capacity <- Cardinality(Workers),
    line <- Line,
    phase <- [r \in Runs |-> PhaseOf(r)]

(* Every behaviour of the backend is one of the abstract lifecycle: first  *)
(* come first served, bounded concurrency, one outcome per run.            *)
ImplementsLifecycle == Lifecycle!Spec

-----------------------------------------------------------------------------
(* What the documentation says and the code does not do.                   *)

(* docs/agent-execution.md: a root run that fails emits an error event and *)
(* closes the stream.  So a stream that closed has told its client how the *)
(* run ended.                                                              *)
ClosedStreamWasTold ==
  \A r \in Runs : client[r] = "closed" =>
    \E i \in Visible(r) : out[r][i] \in {"done", "error"}

(* docs/agent-execution.md: execution resumes when the user responds       *)
(* through the resume path.  So a task that waits does not complete.       *)
WaitsForResume ==
  [][\A r \in Runs : task[r] = Waiting => task'[r] # Completed]_vars
=============================================================================
