------------------------ MODULE TaskDistributor_proofs ------------------------
(***************************************************************************)
(* Proofs about the task distributor, for every set of tasks and workers.  *)
(* The lemmas about single actions leave the handlers' frames `put` and    *)
(* the moment a task is enqueued open, so that they also serve a module    *)
(* that composes the distributor.                                          *)
(***************************************************************************)
EXTENDS TaskDistributor, FiniteSetTheorems, SequenceTheorems, TLAPS

BusyLoops == {w \in Workers : Busy(w)}

(* TypeOK alone is not inductive.  That inflight stays a natural number    *)
(* when a handler returns follows from what it counts, and that start()    *)
(* finds nothing in flight from the empty pool.                            *)
TypeInv ==
  /\ TypeOK
  /\ metrics["inflight"] = Cardinality(BusyLoops)
  /\ pool = {} => \A w \in Workers : worker[w] = Exited

LEMMA BusyLoopsFinite ==
  /\ IsFiniteSet(BusyLoops)
  /\ Cardinality(BusyLoops) \in Nat
<1>1. BusyLoops \subseteq Workers  BY DEF BusyLoops
<1>2. IsFiniteSet(BusyLoops)  BY <1>1, DistributorAssumption, FS_Subset
<1> QED  BY <1>2, FS_CardinalityType

LEMMA PillsType ==
  ASSUME pool \in {{}, Workers}
  PROVE  Pills \in Seq({Stop})
<1>1. Cardinality(pool) \in Nat
  BY DistributorAssumption, FS_CardinalityType, FS_EmptySet
<1> QED  BY <1>1 DEF Pills

LEMMA NobodyBusy ==
  ASSUME \A w \in Workers : worker[w] \in {Idle, Exited}
  PROVE  BusyLoops = {} /\ Cardinality(BusyLoops) = 0
<1>1. BusyLoops = {}  BY DistributorAssumption DEF BusyLoops, Busy
<1> QED  BY <1>1, FS_EmptySet

LEMMA InitTypeInv == Init => TypeInv
<1> SUFFICES ASSUME Init PROVE TypeInv  OBVIOUS
<1>1. metrics \in [Counters -> Nat] /\ metrics["inflight"] = 0
  BY DEF Init, ZeroMetrics, Counters
<1>2. out \in [Tasks -> Seq(Frames)]
  BY DEF Init
<1>3. \A w \in Workers : worker[w] = Exited
  BY DEF Init
<1>4. worker \in [Workers -> Tasks \cup {Idle, Exited}]
  BY DEF Init
<1>5. queue \in Seq(Tasks \cup {Stop})
  BY DEF Init
<1>6. TypeOK
  BY <1>1, <1>2, <1>4, <1>5 DEF Init, TypeOK
<1> QED  BY <1>1, <1>3, <1>6, NobodyBusy DEF TypeInv

LEMMA EnqueueType ==
  ASSUME TypeInv, NEW t \in Tasks, Enqueue(t)
  PROVE  TypeInv'
<1>1. TypeOK'  BY DEF TypeInv, TypeOK, Enqueue, Counters
<1>2. BusyLoops' = BusyLoops  BY DEF Enqueue, BusyLoops, Busy
<1>3. metrics'["inflight"] = metrics["inflight"]
  BY DEF TypeInv, TypeOK, Enqueue, Counters
<1> QED  BY <1>1, <1>2, <1>3 DEF TypeInv, Enqueue

LEMMA StartType ==
  ASSUME TypeInv, Start
  PROVE  TypeInv'
<1>1. TypeOK'  BY DEF TypeInv, TypeOK, Start
<1>2. metrics'["inflight"] = 0
  BY NobodyBusy DEF TypeInv, Start
<1>3. Cardinality(BusyLoops') = 0
  <2>1. BusyLoops' = {}
    BY DistributorAssumption DEF Start, BusyLoops, Busy
  <2> QED  BY <2>1, FS_EmptySet
<1> QED  BY <1>1, <1>2, <1>3, DistributorAssumption DEF TypeInv, Start

LEMMA StopRequestType ==
  ASSUME TypeInv, StopRequest
  PROVE  TypeInv'
<1>1. queue' \in Seq(Tasks \cup {Stop})
  <2>1. Pills \in Seq(Tasks \cup {Stop})
    BY PillsType DEF TypeInv, TypeOK
  <2> QED  BY <2>1 DEF TypeInv, TypeOK, StopRequest
<1>2. TypeOK'  BY <1>1 DEF TypeInv, TypeOK, StopRequest
<1>3. BusyLoops' = BusyLoops  BY DEF StopRequest, BusyLoops, Busy
<1> QED  BY <1>2, <1>3 DEF TypeInv, StopRequest

LEMMA StopReturnType ==
  ASSUME TypeInv, StopReturn
  PROVE  TypeInv'
<1>1. TypeOK'  BY DEF TypeInv, TypeOK, StopReturn
<1>2. BusyLoops' = BusyLoops  BY DEF StopReturn, BusyLoops, Busy
<1> QED  BY <1>1, <1>2 DEF TypeInv, TypeOK, StopReturn, Drained

(* What get leaves behind.                                                 *)
LEMMA GetType ==
  ASSUME TypeOK, queue # <<>>
  PROVE  /\ Head(queue) \in Tasks \cup {Stop}
         /\ Tail(queue) \in Seq(Tasks \cup {Stop})
BY DEF TypeOK

LEMMA TakePillType ==
  ASSUME TypeInv, NEW w \in Workers, TakePill(w)
  PROVE  TypeInv'
<1>1. TypeOK'  BY GetType DEF TypeInv, TypeOK, TakePill, CanGet
<1>2. BusyLoops' = BusyLoops
  BY DistributorAssumption DEF TypeInv, TypeOK, TakePill, CanGet, BusyLoops, Busy
<1> QED  BY <1>1, <1>2 DEF TypeInv, TypeOK, TakePill, CanGet

LEMMA TakeUnhandledType ==
  ASSUME TypeInv, NEW w \in Workers, TakeUnhandled(w)
  PROVE  TypeInv'
<1>1. out' \in [Tasks -> Seq(Frames)]
  <2>1. <<"error", "END">> \in Seq(Frames)  BY DEF Frames
  <2> QED  BY <2>1 DEF TypeInv, TypeOK, TakeUnhandled
<1>2. metrics' \in [Counters -> Nat] /\ metrics'["inflight"] = metrics["inflight"]
  BY DEF TypeInv, TypeOK, TakeUnhandled, Counters
<1>3. TypeOK'  BY <1>1, <1>2, GetType DEF TypeInv, TypeOK, TakeUnhandled, CanGet
<1>4. BusyLoops' = BusyLoops  BY DEF TakeUnhandled, BusyLoops, Busy
<1> QED  BY <1>2, <1>3, <1>4 DEF TypeInv, TakeUnhandled

LEMMA TakeType ==
  ASSUME TypeInv, NEW w \in Workers, Take(w)
  PROVE  TypeInv'
<1>1. Head(queue) \in Tasks  BY DistributorAssumption DEF Take
<1>2. /\ metrics' \in [Counters -> Nat]
      /\ metrics'["inflight"] = metrics["inflight"] + 1
  BY DEF TypeInv, TypeOK, Take, Counters
<1>3. TypeOK'  BY <1>1, <1>2, GetType DEF TypeInv, TypeOK, Take, CanGet
<1>4. BusyLoops' = BusyLoops \cup {w} /\ w \notin BusyLoops
  BY <1>1, DistributorAssumption DEF TypeInv, TypeOK, Take, CanGet, BusyLoops, Busy
<1>5. Cardinality(BusyLoops') = Cardinality(BusyLoops) + 1
  BY <1>4, BusyLoopsFinite, FS_AddElement
<1>6. pool' # {}
  BY DEF TypeInv, Take, CanGet, Idle, Exited
<1> QED  BY <1>2, <1>3, <1>5, <1>6 DEF TypeInv

LEMMA PutType ==
  ASSUME TypeInv, NEW w \in Workers, NEW put \in Seq(Frames), Put(w, put)
  PROVE  TypeInv'
<1>1. TypeOK'  BY DEF TypeInv, TypeOK, Put, Busy
<1>2. BusyLoops' = BusyLoops  BY DEF Put, BusyLoops, Busy
<1> QED  BY <1>1, <1>2 DEF TypeInv, Put

LEMMA ReturnType ==
  ASSUME TypeInv, NEW w \in Workers, NEW put \in Seq(Frames),
         NEW raised \in BOOLEAN, Return(w, put, raised)
  PROVE  TypeInv'
<1>1. BusyLoops' = BusyLoops \ {w} /\ w \in BusyLoops
  BY DistributorAssumption DEF TypeInv, TypeOK, Return, BusyLoops, Busy
<1>2. Cardinality(BusyLoops') = Cardinality(BusyLoops) - 1
  BY <1>1, BusyLoopsFinite, FS_RemoveElement
<1>3. Cardinality(BusyLoops') \in Nat
  BY <1>1, BusyLoopsFinite, FS_RemoveElement, FS_CardinalityType
<1>4. /\ metrics' \in [Counters -> Nat]
      /\ metrics'["inflight"] = Cardinality(BusyLoops')
  <2>1. metrics["inflight"] - 1 \in Nat
    BY <1>2, <1>3, BusyLoopsFinite DEF TypeInv
  <2> DEFINE c == IF raised THEN "failed" ELSE "processed"
  <2>2. metrics' = [metrics EXCEPT !["inflight"] = @ - 1, ![c] = @ + 1]
    BY DEF Return
  <2>3. c \in Counters \ {"inflight"} /\ "inflight" \in Counters
    BY DEF Counters
  <2>4. metrics \in [Counters -> Nat] /\ metrics["inflight"] = Cardinality(BusyLoops)
    BY DEF TypeInv, TypeOK
  <2> HIDE DEF c
  <2> QED  BY <1>2, <2>1, <2>2, <2>3, <2>4
<1>5. out' \in [Tasks -> Seq(Frames)]
  <2>1. <<"error", "END">> \in Seq(Frames) /\ <<>> \in Seq(Frames)  BY DEF Frames
  <2> QED  BY <2>1 DEF TypeInv, TypeOK, Return, Busy
<1>6. TypeOK'  BY <1>4, <1>5 DEF TypeInv, TypeOK, Return
<1>7. pool' # {}
  BY DistributorAssumption DEF TypeInv, Return, Busy
<1> QED  BY <1>4, <1>6, <1>7 DEF TypeInv

LEMMA ProcessExitType ==
  ASSUME TypeInv, ProcessExit
  PROVE  TypeInv'
<1>1. metrics' \in [Counters -> Nat] /\ metrics'["inflight"] = 0
  BY DEF ProcessExit, ZeroMetrics, Counters
<1>2. TypeOK'
  <2>1. worker' \in [Workers -> Tasks \cup {Idle, Exited}]  BY DEF ProcessExit
  <2>2. queue' \in Seq(Tasks \cup {Stop})  BY DEF ProcessExit
  <2> QED  BY <1>1, <2>1, <2>2 DEF TypeInv, TypeOK, ProcessExit
<1>3. Cardinality(BusyLoops') = 0
  <2>1. BusyLoops' = {}
    BY DistributorAssumption DEF ProcessExit, BusyLoops, Busy
  <2> QED  BY <2>1, FS_EmptySet
<1> QED  BY <1>1, <1>2, <1>3 DEF TypeInv, ProcessExit

LEMMA StutterType ==
  ASSUME TypeInv, UNCHANGED dvars
  PROVE  TypeInv'
<1>1. TypeOK'  BY DEF TypeInv, TypeOK, dvars
<1>2. BusyLoops' = BusyLoops  BY DEF BusyLoops, Busy, dvars
<1> QED  BY <1>1, <1>2 DEF TypeInv, dvars

LEMMA NextTypeInv == TypeInv /\ [Next]_dvars => TypeInv'
<1> SUFFICES ASSUME TypeInv, [Next]_dvars PROVE TypeInv'  OBVIOUS
<1>1. CASE \E t \in Tasks : Fresh(t) /\ Enqueue(t)  BY <1>1, EnqueueType
<1>2. CASE Start  BY <1>2, StartType
<1>3. CASE StopRequest  BY <1>3, StopRequestType
<1>4. CASE StopReturn  BY <1>4, StopReturnType
<1>5. ASSUME NEW w \in Workers, Work(w) PROVE TypeInv'
  <2>1. CASE TakePill(w)  BY <2>1, TakePillType
  <2>2. CASE TakeUnhandled(w)  BY <2>2, TakeUnhandledType
  <2>3. CASE Take(w)  BY <2>3, TakeType
  <2>4. ASSUME NEW raised \in BOOLEAN, Return(w, <<"END">>, raised) PROVE TypeInv'
    <3>1. <<"END">> \in Seq(Frames)  BY DEF Frames
    <3> QED  BY <2>4, <3>1, ReturnType
  <2> QED  BY <1>5, <2>1, <2>2, <2>3, <2>4 DEF Work
<1>6. CASE UNCHANGED dvars  BY <1>6, StutterType
<1> QED  BY <1>1, <1>2, <1>3, <1>4, <1>5, <1>6 DEF Next

(* The variables of the distributor keep their types: in particular its    *)
(* counters never become negative, however handlers return or raise.       *)
THEOREM TypeCorrect == Spec => []TypeOK
<1>1. Init => TypeInv  BY InitTypeInv
<1>2. TypeInv /\ [Next]_dvars => TypeInv'  BY NextTypeInv
<1>3. TypeInv => TypeOK  BY DEF TypeInv
<1> QED  BY <1>1, <1>2, <1>3, PTL DEF Spec

-----------------------------------------------------------------------------
(* One place for each task.                                                *)

(* The queue after a get, by index.                                        *)
LEMMA TailIndex ==
  ASSUME NEW S, NEW q \in Seq(S), q # <<>>
  PROVE  /\ Len(q) \in Nat \ {0}
         /\ DOMAIN q = 1..Len(q)
         /\ Tail(q) \in Seq(S)
         /\ Len(Tail(q)) = Len(q) - 1
         /\ DOMAIN Tail(q) = 1..(Len(q) - 1)
         /\ \A i \in 1..(Len(q) - 1) : Tail(q)[i] = q[i + 1]
         /\ Head(q) = q[1]
<1>1. Len(q) \in Nat \ {0} /\ DOMAIN q = 1..Len(q)
  BY EmptySeq, LenProperties
<1>2. Tail(q) \in Seq(S) /\ Len(Tail(q)) = Len(q) - 1
  BY HeadTailProperties
<1>3. DOMAIN Tail(q) = 1..(Len(q) - 1)
  BY <1>2, LenProperties
<1>4. \A i \in 1..(Len(q) - 1) : Tail(q)[i] = q[i + 1]
  BY <1>1, HeadTailProperties
<1> QED  BY <1>1, <1>2, <1>3, <1>4

(* The three parts of OnePlace.                                            *)
QueuedOnce == \A i, j \in DOMAIN queue : queue[i] = queue[j] /\ queue[i] # Stop => i = j
BusyNotQueued == \A w \in Workers : Busy(w) => worker[w] \notin Queued
ServedOnce == \A w, v \in Workers : Busy(w) /\ worker[w] = worker[v] => w = v

LEMMA OnePlaceParts == OnePlace <=> QueuedOnce /\ BusyNotQueued /\ ServedOnce
BY DEF OnePlace, QueuedOnce, BusyNotQueued, ServedOnce

LEMMA EnqueueOnePlace ==
  ASSUME TypeOK, OnePlace, NEW t \in Tasks, Enqueue(t),
         t \notin Queued, \A w \in Workers : worker[w] # t
  PROVE  OnePlace'
<1>1. /\ DOMAIN queue = 1..Len(queue) /\ Len(queue) \in Nat
      /\ DOMAIN queue' = 1..(Len(queue) + 1)
      /\ \A i \in 1..Len(queue) : queue'[i] = queue[i]
      /\ queue'[Len(queue) + 1] = t
  BY AppendProperties, LenProperties DEF TypeOK, Enqueue
<1>2. \A i \in DOMAIN queue : queue[i] # t
  BY DEF Queued
<1>3. QueuedOnce'
  BY <1>1, <1>2, OnePlaceParts DEF QueuedOnce
<1>4. Queued' \subseteq Queued \cup {t}
  BY <1>1 DEF Queued
<1>5. BusyNotQueued'
  BY <1>4, OnePlaceParts DEF BusyNotQueued, Busy, Enqueue
<1>6. ServedOnce'
  BY OnePlaceParts DEF ServedOnce, Busy, Enqueue
<1> QED  BY <1>3, <1>5, <1>6, OnePlaceParts DEF OnePlace, QueuedOnce, BusyNotQueued, ServedOnce

(* A get: the item leaves the queue and was in it once.                    *)
LEMMA GetQueue ==
  ASSUME TypeOK, OnePlace, queue # <<>>, queue' = Tail(queue)
  PROVE  /\ QueuedOnce'
         /\ Queued' \subseteq Queued
         /\ Head(queue) \in Queued
         /\ Head(queue) # Stop => Head(queue) \notin Queued'
<1>1. /\ Len(queue) \in Nat \ {0}
      /\ DOMAIN queue = 1..Len(queue)
      /\ DOMAIN queue' = 1..(Len(queue) - 1)
      /\ \A i \in 1..(Len(queue) - 1) : queue'[i] = queue[i + 1]
      /\ Head(queue) = queue[1]
  BY TailIndex DEF TypeOK
<1>2. QueuedOnce  BY OnePlaceParts
<1>3. QueuedOnce'
  BY <1>1, <1>2 DEF QueuedOnce
<1>4. Queued' \subseteq Queued /\ Head(queue) \in Queued
  BY <1>1 DEF Queued
<1>5. ASSUME Head(queue) # Stop, Head(queue) \in Queued' PROVE FALSE
  <2>1. PICK i \in 1..(Len(queue) - 1) : queue[i + 1] = queue[1]
    BY <1>1, <1>5 DEF Queued
  <2>2. i + 1 \in DOMAIN queue /\ 1 \in DOMAIN queue /\ i + 1 # 1
    BY <1>1
  <2> QED  BY <1>1, <1>2, <1>5, <2>1, <2>2 DEF QueuedOnce
<1> QED  BY <1>3, <1>4, <1>5

LEMMA TakePillOnePlace ==
  ASSUME TypeOK, OnePlace, NEW w \in Workers, TakePill(w)
  PROVE  OnePlace'
<1>1. QueuedOnce' /\ Queued' \subseteq Queued
  BY GetQueue DEF TakePill, CanGet
<1>2. \A v \in Workers : Busy(v)' => Busy(v) /\ worker'[v] = worker[v] /\ v # w
  BY DistributorAssumption DEF TypeOK, TakePill, Busy
<1>3. BusyNotQueued'
  BY <1>1, <1>2, OnePlaceParts DEF BusyNotQueued, Busy
<1>4. ServedOnce'
  BY <1>2, OnePlaceParts, DistributorAssumption DEF ServedOnce, Busy, TypeOK, TakePill
<1> QED  BY <1>1, <1>3, <1>4, OnePlaceParts DEF OnePlace, QueuedOnce, BusyNotQueued, ServedOnce

LEMMA TakeUnhandledOnePlace ==
  ASSUME TypeOK, OnePlace, NEW w \in Workers, TakeUnhandled(w)
  PROVE  OnePlace'
<1>1. QueuedOnce' /\ Queued' \subseteq Queued
  BY GetQueue DEF TakeUnhandled, CanGet
<1>2. BusyNotQueued' /\ ServedOnce'
  BY <1>1, OnePlaceParts DEF BusyNotQueued, ServedOnce, Busy, TakeUnhandled
<1> QED  BY <1>1, <1>2, OnePlaceParts DEF OnePlace, QueuedOnce, BusyNotQueued, ServedOnce

LEMMA TakeOnePlace ==
  ASSUME TypeOK, OnePlace, NEW w \in Workers, Take(w)
  PROVE  OnePlace'
<1> DEFINE t == Head(queue)
<1>1. t \in Tasks /\ t # Stop
  BY DistributorAssumption DEF Take
<1>2. /\ QueuedOnce' /\ Queued' \subseteq Queued
      /\ t \in Queued /\ t \notin Queued'
  BY <1>1, GetQueue DEF Take, CanGet
<1>3. \A v \in Workers : worker[v] # t
  BY <1>1, <1>2, OnePlaceParts DEF BusyNotQueued, Busy
<1>4. worker' = [worker EXCEPT ![w] = t]
  BY DEF Take
<1> HIDE DEF t
<1>5. BusyNotQueued'
  BY <1>2, <1>4, OnePlaceParts DEF BusyNotQueued, Busy, TypeOK
<1>6. ServedOnce'
  BY <1>3, <1>4, OnePlaceParts DEF ServedOnce, Busy, TypeOK
<1> QED  BY <1>2, <1>5, <1>6, OnePlaceParts DEF OnePlace, QueuedOnce, BusyNotQueued, ServedOnce

LEMMA PutOnePlace ==
  ASSUME OnePlace, NEW w, NEW put, Put(w, put)
  PROVE  OnePlace'
BY DEF OnePlace, Put, Busy, Queued

LEMMA ReturnOnePlace ==
  ASSUME TypeOK, OnePlace, NEW w \in Workers, NEW put, NEW raised, Return(w, put, raised)
  PROVE  OnePlace'
<1>1. queue' = queue /\ worker' = [worker EXCEPT ![w] = Idle]
  BY DEF Return
<1>2. \A v \in Workers : Busy(v)' => Busy(v) /\ worker'[v] = worker[v] /\ v # w
  BY <1>1, DistributorAssumption DEF TypeOK, Busy
<1>3. QueuedOnce' /\ Queued' = Queued
  BY <1>1, OnePlaceParts DEF QueuedOnce, Queued
<1>4. BusyNotQueued'
  BY <1>2, <1>3, OnePlaceParts DEF BusyNotQueued, Busy
<1>5. ServedOnce'
  BY <1>1, <1>2, OnePlaceParts, DistributorAssumption DEF ServedOnce, Busy, TypeOK
<1> QED  BY <1>3, <1>4, <1>5, OnePlaceParts DEF OnePlace, QueuedOnce, BusyNotQueued, ServedOnce

LEMMA StartOnePlace ==
  ASSUME OnePlace, Start
  PROVE  OnePlace'
<1>1. \A w \in Workers : ~Busy(w)'
  BY DistributorAssumption DEF Start, Busy
<1>2. queue' = queue  BY DEF Start
<1> QED  BY <1>1, <1>2 DEF OnePlace, Busy

LEMMA StopRequestOnePlace ==
  ASSUME TypeOK, OnePlace, StopRequest
  PROVE  OnePlace'
<1>1. Pills \in Seq({Stop})
  BY PillsType DEF TypeOK
<1>2. /\ Len(queue) \in Nat /\ Len(Pills) \in Nat
      /\ DOMAIN queue = 1..Len(queue)
      /\ DOMAIN queue' = 1..(Len(queue) + Len(Pills))
      /\ \A i \in 1..Len(queue) : queue'[i] = queue[i]
  BY <1>1, ConcatProperties, LenProperties DEF TypeOK, StopRequest
<1>3. \A i \in DOMAIN queue' \ DOMAIN queue : queue'[i] = Stop
  <2> SUFFICES ASSUME NEW i \in DOMAIN queue' \ DOMAIN queue PROVE queue'[i] = Stop
    OBVIOUS
  <2>1. i \in 1..(Len(queue) + Len(Pills)) /\ i > Len(queue)
    BY <1>2
  <2>2. queue'[i] = Pills[i - Len(queue)]
    BY <1>1, <2>1, ConcatProperties DEF TypeOK, StopRequest
  <2>3. i - Len(queue) \in 1..Len(Pills)
    BY <1>2, <2>1
  <2> QED  BY <1>1, <2>2, <2>3, ElementOfSeq
<1>4. QueuedOnce'
  BY <1>2, <1>3, OnePlaceParts DEF QueuedOnce
<1>5. Queued' \subseteq Queued \cup {Stop}
  BY <1>2, <1>3 DEF Queued
<1>6. BusyNotQueued' /\ ServedOnce'
  BY <1>5, OnePlaceParts, DistributorAssumption
     DEF BusyNotQueued, ServedOnce, Busy, StopRequest
<1> QED  BY <1>4, <1>6, OnePlaceParts DEF OnePlace, QueuedOnce, BusyNotQueued, ServedOnce

LEMMA StopReturnOnePlace ==
  ASSUME OnePlace, StopReturn
  PROVE  OnePlace'
BY DEF OnePlace, StopReturn, Busy, Queued

LEMMA ProcessExitOnePlace ==
  ASSUME ProcessExit
  PROVE  OnePlace'
<1>1. \A w \in Workers : ~Busy(w)'
  BY DistributorAssumption DEF ProcessExit, Busy
<1>2. DOMAIN queue' = {}  BY DEF ProcessExit
<1> QED  BY <1>1, <1>2 DEF OnePlace

LEMMA StutterOnePlace ==
  ASSUME OnePlace, UNCHANGED dvars
  PROVE  OnePlace'
BY DEF OnePlace, dvars, Busy, Queued

LEMMA InitOnePlace == Init => OnePlace
<1> SUFFICES ASSUME Init PROVE OnePlace  OBVIOUS
<1>1. \A w \in Workers : ~Busy(w)
  BY DistributorAssumption DEF Init, Busy
<1>2. DOMAIN queue = {}  BY DEF Init
<1> QED  BY <1>1, <1>2 DEF OnePlace

LEMMA NextOnePlace == TypeOK /\ OnePlace /\ [Next]_dvars => OnePlace'
<1> SUFFICES ASSUME TypeOK, OnePlace, [Next]_dvars PROVE OnePlace'  OBVIOUS
<1>1. CASE \E t \in Tasks : Fresh(t) /\ Enqueue(t)
  BY <1>1, EnqueueOnePlace DEF Fresh
<1>2. CASE Start  BY <1>2, StartOnePlace
<1>3. CASE StopRequest  BY <1>3, StopRequestOnePlace
<1>4. CASE StopReturn  BY <1>4, StopReturnOnePlace
<1>5. ASSUME NEW w \in Workers, Work(w) PROVE OnePlace'
  BY <1>5, TakePillOnePlace, TakeUnhandledOnePlace, TakeOnePlace, ReturnOnePlace DEF Work
<1>6. CASE UNCHANGED dvars  BY <1>6, StutterOnePlace
<1> QED  BY <1>1, <1>2, <1>3, <1>4, <1>5, <1>6 DEF Next

(* No task is ever twice in the queue, served by two loops, or queued and  *)
(* served at once, however the slices of the loops interleave with         *)
(* enqueue_task, start() and stop().                                       *)
THEOREM OnePlaceHolds == Spec => []OnePlace
<1>1. Init => OnePlace  BY InitOnePlace
<1>2. TypeOK /\ OnePlace /\ [Next]_dvars => OnePlace'  BY NextOnePlace
<1> QED  BY <1>1, <1>2, TypeCorrect, PTL DEF Spec

-----------------------------------------------------------------------------
(* The stop protocol.                                                      *)
PillsAt == {i \in DOMAIN queue : queue[i] = Stop}
Alive == {w \in Workers : worker[w] # Exited}

(* StopDrains and PillPerLoop say nothing of a stop under way: every task  *)
(* accepted before it has a pill behind it.                                *)
PillBehind ==
  (~isRunning /\ pool # {}) =>
    \A i \in DOMAIN queue : queue[i] \in Tasks \ late =>
      \E j \in PillsAt : j > i

RunningPool ==
  isRunning => pool # {} /\ late = {} /\ \A w \in Workers : worker[w] # Exited

DrainInv == TypeInv /\ RunningPool /\ PillPerLoop /\ PillBehind /\ StopDrains

LEMMA AliveFinite == IsFiniteSet(Alive) /\ Cardinality(Alive) \in Nat
<1>1. Alive \subseteq Workers  BY DEF Alive
<1>2. IsFiniteSet(Alive)  BY <1>1, DistributorAssumption, FS_Subset
<1> QED  BY <1>2, FS_CardinalityType

LEMMA PillsFinite ==
  ASSUME TypeOK
  PROVE  IsFiniteSet(PillsAt) /\ Cardinality(PillsAt) \in Nat
<1>1. Len(queue) \in Nat /\ DOMAIN queue = 1..Len(queue)
  BY LenProperties DEF TypeOK
<1>2. IsFiniteSet(DOMAIN queue)  BY <1>1, FS_Interval
<1>3. PillsAt \subseteq DOMAIN queue  BY DEF PillsAt
<1>4. IsFiniteSet(PillsAt)  BY <1>2, <1>3, FS_Subset
<1> QED  BY <1>4, FS_CardinalityType

LEMMA PillCount ==
  PillPerLoop <=> Cardinality(PillsAt) = IF isRunning THEN 0 ELSE Cardinality(Alive)
BY DEF PillPerLoop, PillsAt, Alive

(* No pill while the distributor runs, and none once it has stopped.       *)
LEMMA NoPills ==
  ASSUME DrainInv, isRunning \/ \A w \in Workers : worker[w] = Exited
  PROVE  PillsAt = {}
<1>1. TypeOK  BY DEF DrainInv, TypeInv
<1>2. Cardinality(PillsAt) = 0
  <2>1. CASE isRunning  BY <2>1, PillCount DEF DrainInv
  <2>2. CASE ~isRunning
    <3>1. Alive = {}  BY <2>2 DEF Alive
    <3> QED  BY <2>2, <3>1, PillCount, FS_EmptySet DEF DrainInv
  <2> QED  BY <2>1, <2>2
<1> QED  BY <1>1, <1>2, PillsFinite, FS_EmptySet

(* A get shifts the pills that remain by one place.                        *)
LEMMA GetPills ==
  ASSUME TypeOK, queue # <<>>, queue' = Tail(queue)
  PROVE  /\ PillsAt' = {i \in 1..(Len(queue) - 1) : i + 1 \in PillsAt}
         /\ Cardinality(PillsAt') = Cardinality(PillsAt \ {1})
<1>1. /\ Len(queue) \in Nat \ {0}
      /\ DOMAIN queue = 1..Len(queue)
      /\ DOMAIN queue' = 1..(Len(queue) - 1)
      /\ \A i \in 1..(Len(queue) - 1) : queue'[i] = queue[i + 1]
  BY TailIndex DEF TypeOK
<1>2. PillsAt' = {i \in 1..(Len(queue) - 1) : i + 1 \in PillsAt}
  BY <1>1 DEF PillsAt
<1> DEFINE f == [i \in PillsAt \ {1} |-> i - 1]
<1>3. PillsAt \ {1} \subseteq 2..Len(queue)
  BY <1>1 DEF PillsAt
<1>4. f \in Bijection(PillsAt \ {1}, PillsAt')
  <2>1. \A i \in PillsAt \ {1} : f[i] \in PillsAt'
    BY <1>1, <1>2, <1>3
  <2>2. \A i, j \in PillsAt \ {1} : f[i] = f[j] => i = j
    BY <1>3
  <2>3. \A k \in PillsAt' : \E i \in PillsAt \ {1} : f[i] = k
    <3> TAKE k \in PillsAt'
    <3>1. k \in Nat \ {0} /\ k + 1 \in PillsAt
      BY <1>1, <1>2
    <3>2. k + 1 \in PillsAt \ {1}  BY <3>1
    <3>3. f[k + 1] = k  BY <3>1, <3>2
    <3> QED  BY <3>2, <3>3
  <2>4. f \in [PillsAt \ {1} -> PillsAt']  BY <2>1
  <2> HIDE DEF f
  <2> QED  BY <2>2, <2>3, <2>4 DEF Bijection, Injection, Surjection, IsInjective
<1>5. IsFiniteSet(PillsAt \ {1})
  BY PillsFinite, FS_Subset
<1> QED  BY <1>2, <1>4, <1>5, FS_Bijection DEF ExistsBijection

LEMMA InitDrain == Init => DrainInv
<1> SUFFICES ASSUME Init PROVE DrainInv  OBVIOUS
<1>1. TypeInv  BY InitTypeInv
<1>2. PillsAt = {} /\ Queued = {}
  BY DEF Init, PillsAt, Queued
<1>3. Alive = {}
  BY DEF Init, Alive
<1>4. PillPerLoop
  BY <1>2, <1>3, FS_EmptySet, PillCount DEF Init
<1> QED  BY <1>1, <1>2, <1>4 DEF Init, DrainInv, RunningPool, PillBehind, StopDrains

LEMMA EnqueueDrain ==
  ASSUME DrainInv, NEW t \in Tasks, Enqueue(t)
  PROVE  DrainInv'
<1>1. TypeInv'  BY EnqueueType DEF DrainInv
<1>2. /\ DOMAIN queue = 1..Len(queue) /\ Len(queue) \in Nat
      /\ DOMAIN queue' = 1..(Len(queue) + 1)
      /\ \A i \in 1..Len(queue) : queue'[i] = queue[i]
      /\ queue'[Len(queue) + 1] = t
  BY AppendProperties, LenProperties DEF DrainInv, TypeInv, TypeOK, Enqueue
<1>3. t # Stop  BY DistributorAssumption
<1>4. PillsAt' = PillsAt  BY <1>2, <1>3 DEF PillsAt
<1>5. Alive' = Alive /\ isRunning' = isRunning /\ pool' = pool
  BY DEF Alive, Enqueue
<1>6. PillPerLoop'  BY <1>4, <1>5, PillCount DEF DrainInv, PillPerLoop, PillsAt, Alive
<1>7. RunningPool'  BY DEF DrainInv, RunningPool, Enqueue
<1>8. late \subseteq late' /\ (~isRunning => t \in late')
  BY DEF Enqueue
<1>9. PillBehind'
  <2> SUFFICES ASSUME ~isRunning, pool # {}, NEW i \in DOMAIN queue', queue'[i] \in Tasks \ late'
               PROVE  \E j \in PillsAt' : j > i
    BY <1>5 DEF PillBehind
  <2>1. i \in DOMAIN queue /\ queue[i] \in Tasks \ late
    BY <1>2, <1>8
  <2> QED  BY <1>4, <2>1 DEF DrainInv, PillBehind
<1>10. StopDrains'
  <2> SUFFICES ASSUME pool = {} PROVE Queued' \subseteq late'
    BY <1>5 DEF StopDrains
  <2>1. ~isRunning  BY DEF DrainInv, RunningPool
  <2>2. Queued' \subseteq Queued \cup {t}  BY <1>2 DEF Queued
  <2> QED  BY <1>8, <2>1, <2>2 DEF DrainInv, StopDrains
<1> QED  BY <1>1, <1>6, <1>7, <1>9, <1>10 DEF DrainInv

LEMMA StartDrain ==
  ASSUME DrainInv, Start
  PROVE  DrainInv'
<1>1. TypeInv'  BY StartType DEF DrainInv
<1>2. \A w \in Workers : worker[w] = Exited
  BY DEF DrainInv, TypeInv, Start
<1>3. PillsAt' = {}
  BY <1>2, NoPills DEF Start, PillsAt
<1>4. RunningPool'
  BY DistributorAssumption DEF Start, RunningPool, Idle, Exited
<1>5. isRunning' /\ pool' # {}
  BY DistributorAssumption DEF Start
<1>6. PillPerLoop'
  BY <1>3, <1>5, FS_EmptySet DEF PillPerLoop, PillsAt
<1> QED  BY <1>1, <1>4, <1>5, <1>6 DEF DrainInv, PillBehind, StopDrains

LEMMA StopRequestDrain ==
  ASSUME DrainInv, StopRequest
  PROVE  DrainInv'
<1>1. TypeInv'  BY StopRequestType DEF DrainInv
<1> DEFINE n == Cardinality(Workers)
<1>2. n \in Nat \ {0}
  BY DistributorAssumption, FS_CardinalityType, FS_EmptySet
<1>3. pool = Workers /\ pool' = pool /\ ~isRunning' /\ pool' # {}
  BY DEF DrainInv, TypeInv, TypeOK, RunningPool, StopRequest
<1>4. Pills \in Seq({Stop}) /\ Len(Pills) = n /\ \A i \in 1..n : Pills[i] = Stop
  BY <1>2, <1>3 DEF Pills
<1>5. /\ DOMAIN queue = 1..Len(queue) /\ Len(queue) \in Nat
      /\ DOMAIN queue' = 1..(Len(queue) + n)
      /\ \A i \in 1..Len(queue) : queue'[i] = queue[i]
      /\ \A i \in (Len(queue) + 1)..(Len(queue) + n) : queue'[i] = Stop
  <2>1. queue \in Seq(Tasks \cup {Stop}) /\ Pills \in Seq(Tasks \cup {Stop})
    BY <1>4, <1>3, PillsType DEF DrainInv, TypeInv, TypeOK
  <2>2. queue' = queue \o Pills  BY DEF StopRequest
  <2> HIDE DEF n
  <2>3. /\ DOMAIN queue = 1..Len(queue) /\ Len(queue) \in Nat
        /\ queue' \in Seq(Tasks \cup {Stop}) /\ Len(queue') = Len(queue) + n
        /\ \A i \in 1..(Len(queue) + n) :
             queue'[i] = IF i <= Len(queue) THEN queue[i] ELSE Pills[i - Len(queue)]
    <3>1. DOMAIN queue = 1..Len(queue) /\ Len(queue) \in Nat
      BY <2>1, LenProperties
    <3>2. /\ queue' \in Seq(Tasks \cup {Stop})
          /\ Len(queue') = Len(queue) + Len(Pills)
          /\ \A i \in 1..(Len(queue) + Len(Pills)) :
               queue'[i] = IF i <= Len(queue) THEN queue[i] ELSE Pills[i - Len(queue)]
      BY <2>1, <2>2, ConcatProperties
    <3> QED  BY <1>4, <3>1, <3>2
  <2>4. DOMAIN queue' = 1..(Len(queue) + n)
    BY <2>3, LenProperties
  <2>5. \A i \in 1..Len(queue) : queue'[i] = queue[i]
    BY <1>2, <2>3
  <2>6. ASSUME NEW i \in (Len(queue) + 1)..(Len(queue) + n) PROVE queue'[i] = Stop
    <3>1. i \in 1..(Len(queue) + n) /\ ~(i <= Len(queue)) /\ i - Len(queue) \in 1..n
      BY <1>2, <2>3
    <3> QED  BY <1>4, <2>3, <3>1
  <2> QED  BY <2>3, <2>4, <2>5, <2>6
<1>6. PillsAt = {}
  BY NoPills DEF StopRequest
<1>7. PillsAt' = (Len(queue) + 1)..(Len(queue) + n)
  <2> HIDE DEF n
  <2> QED  BY <1>2, <1>5, <1>6 DEF PillsAt
<1>8. Cardinality(PillsAt') = n
  <2> HIDE DEF n
  <2> QED  BY <1>2, <1>5, <1>7, FS_Interval
<1>9. Alive' = Workers
  BY DEF DrainInv, RunningPool, StopRequest, Alive
<1>10. PillPerLoop'
  BY <1>3, <1>8, <1>9 DEF PillPerLoop, PillsAt, Alive
<1>11. PillBehind'
  <2> SUFFICES ASSUME NEW i \in DOMAIN queue', queue'[i] \in Tasks PROVE \E j \in PillsAt' : j > i
    BY DEF PillBehind
  <2>1. queue'[i] # Stop  BY DistributorAssumption
  <2> HIDE DEF n
  <2>2. i \in 1..Len(queue)  BY <1>2, <1>5, <2>1
  <2>3. Len(queue) + 1 \in PillsAt'  BY <1>2, <1>5, <1>7
  <2> QED  BY <1>5, <2>2, <2>3
<1> QED  BY <1>1, <1>3, <1>10, <1>11 DEF DrainInv, RunningPool, StopDrains

LEMMA StopReturnDrain ==
  ASSUME DrainInv, StopReturn
  PROVE  DrainInv'
<1>1. TypeInv'  BY StopReturnType DEF DrainInv
<1>2. \A w \in Workers : worker[w] = Exited
  BY DEF DrainInv, TypeInv, TypeOK, StopReturn, Drained
<1>3. PillsAt = {}  BY <1>2, NoPills
<1>4. Queued \subseteq late
  <2> SUFFICES ASSUME NEW i \in DOMAIN queue PROVE queue[i] \in late
    BY DEF Queued
  <2>1. queue[i] \in Tasks
    BY <1>3, ElementOfSeq, LenProperties DEF DrainInv, TypeInv, TypeOK, PillsAt
  <2> QED  BY <1>3, <2>1 DEF DrainInv, PillBehind, StopReturn, Drained
<1>5. /\ PillPerLoop' /\ StopDrains'
  BY <1>4 DEF DrainInv, StopReturn, PillPerLoop, StopDrains, Queued
<1> QED  BY <1>1, <1>5 DEF DrainInv, StopReturn, Drained, RunningPool, PillBehind

(* What a get leaves of the three invariants about the queue, for a loop   *)
(* that stays alive and for one that exits.                                *)
LEMMA GetDrain ==
  ASSUME DrainInv, queue # <<>>, queue' = Tail(queue), pool # {},
         UNCHANGED <<isRunning, pool, late>>
  PROVE  PillBehind' /\ StopDrains'
<1>1. TypeOK  BY DEF DrainInv, TypeInv
<1>2. /\ Len(queue) \in Nat \ {0}
      /\ DOMAIN queue = 1..Len(queue)
      /\ DOMAIN queue' = 1..(Len(queue) - 1)
      /\ \A i \in 1..(Len(queue) - 1) : queue'[i] = queue[i + 1]
  BY <1>1, TailIndex DEF TypeOK
<1>3. PillBehind'
  <2> SUFFICES ASSUME ~isRunning, NEW i \in DOMAIN queue', queue'[i] \in Tasks \ late
               PROVE  \E j \in PillsAt' : j > i
    BY DEF PillBehind
  <2>1. i + 1 \in DOMAIN queue /\ queue[i + 1] \in Tasks \ late
    BY <1>2
  <2>2. PICK j \in PillsAt : j > i + 1
    BY <2>1 DEF DrainInv, PillBehind
  <2>3. j \in 1..Len(queue)  BY <1>2 DEF PillsAt
  <2>4. j - 1 \in PillsAt' /\ j - 1 > i
    BY <1>1, <1>2, <2>2, <2>3, GetPills
  <2> QED  BY <2>4
<1> QED  BY <1>3 DEF StopDrains

LEMMA IdleHasPool ==
  ASSUME DrainInv, NEW w \in Workers, worker[w] # Exited
  PROVE  pool # {}
BY DEF DrainInv, TypeInv

LEMMA TakePillDrain ==
  ASSUME DrainInv, NEW w \in Workers, TakePill(w)
  PROVE  DrainInv'
<1>1. TypeInv' /\ TypeOK  BY TakePillType DEF DrainInv, TypeInv
<1>2. worker[w] = Idle /\ queue # <<>> /\ worker[w] # Exited
  BY DEF TakePill, CanGet, Idle, Exited
<1>3. 1 \in PillsAt
  BY <1>1, <1>2, TailIndex DEF TakePill, PillsAt, TypeOK
<1>4. ~isRunning
  BY <1>3, NoPills
<1>5. Cardinality(PillsAt') = Cardinality(PillsAt) - 1
  BY <1>1, <1>2, <1>3, GetPills, PillsFinite, FS_RemoveElement DEF TakePill
<1>6. Alive' = Alive \ {w} /\ w \in Alive
  BY <1>1, <1>2 DEF TakePill, Alive, TypeOK
<1>7. Cardinality(Alive') = Cardinality(Alive) - 1
  BY <1>6, AliveFinite, FS_RemoveElement
<1>8. PillPerLoop'
  BY <1>4, <1>5, <1>7, PillCount DEF DrainInv, TakePill, PillPerLoop, PillsAt, Alive
<1>9. PillBehind' /\ StopDrains'
  BY <1>2, IdleHasPool, GetDrain DEF TakePill
<1>10. RunningPool'  BY <1>4 DEF RunningPool, TakePill
<1> QED  BY <1>1, <1>8, <1>9, <1>10 DEF DrainInv

(* A get of a task, with or without a handler.                             *)
LEMMA GetTaskDrain ==
  ASSUME DrainInv, TypeInv', queue # <<>>, Head(queue) \in Tasks, queue' = Tail(queue),
         pool # {}, UNCHANGED <<isRunning, pool, late>>, Alive' = Alive
  PROVE  DrainInv'
<1>1. TypeOK  BY DEF DrainInv, TypeInv
<1>2. 1 \notin PillsAt
  BY <1>1, TailIndex, DistributorAssumption DEF PillsAt, TypeOK
<1>3. PillsAt \ {1} = PillsAt  BY <1>2
<1>4. Cardinality(PillsAt') = Cardinality(PillsAt)
  BY <1>1, <1>3, GetPills
<1>5. PillPerLoop'
  BY <1>4, PillCount DEF DrainInv, PillPerLoop, PillsAt, Alive
<1>6. PillBehind' /\ StopDrains'  BY GetDrain
<1>7. RunningPool'  BY DEF DrainInv, RunningPool, Alive
<1> QED  BY <1>5, <1>6, <1>7 DEF DrainInv

LEMMA TakeUnhandledDrain ==
  ASSUME DrainInv, NEW w \in Workers, TakeUnhandled(w)
  PROVE  DrainInv'
<1>1. TypeInv'  BY TakeUnhandledType DEF DrainInv
<1>2. pool # {}
  BY IdleHasPool DEF TakeUnhandled, CanGet, Idle, Exited
<1>3. Alive' = Alive  BY DEF TakeUnhandled, Alive
<1> QED  BY <1>1, <1>2, <1>3, GetTaskDrain DEF TakeUnhandled, CanGet

LEMMA TakeDrain ==
  ASSUME DrainInv, NEW w \in Workers, Take(w)
  PROVE  DrainInv'
<1>1. TypeInv' /\ TypeOK  BY TakeType DEF DrainInv, TypeInv
<1>2. pool # {}
  BY IdleHasPool DEF Take, CanGet, Idle, Exited
<1>3. Head(queue) \in Tasks /\ Head(queue) # Exited /\ worker[w] # Exited
  BY DistributorAssumption DEF Take, CanGet, Idle, Exited
<1>4. Alive' = Alive
  BY <1>1, <1>3 DEF Take, Alive, TypeOK
<1> QED  BY <1>1, <1>2, <1>3, <1>4, GetTaskDrain DEF Take, CanGet

LEMMA PutDrain ==
  ASSUME DrainInv, NEW w \in Workers, NEW put \in Seq(Frames), Put(w, put)
  PROVE  DrainInv'
<1>1. TypeInv'  BY PutType DEF DrainInv
<1> QED  BY <1>1 DEF DrainInv, Put, RunningPool, PillPerLoop, PillBehind, PillsAt, StopDrains, Queued

LEMMA ReturnDrain ==
  ASSUME DrainInv, NEW w \in Workers, NEW put \in Seq(Frames),
         NEW raised \in BOOLEAN, Return(w, put, raised)
  PROVE  DrainInv'
<1>1. TypeInv' /\ TypeOK  BY ReturnType DEF DrainInv, TypeInv
<1>2. worker[w] # Exited /\ Idle # Exited
  BY DistributorAssumption DEF Return, Busy, Idle, Exited
<1>3. Alive' = Alive
  BY <1>1, <1>2 DEF Return, Alive, TypeOK
<1>4. UNCHANGED <<queue, isRunning, pool, late>>  BY DEF Return
<1>5. PillsAt' = PillsAt /\ Queued' = Queued  BY <1>4 DEF PillsAt, Queued
<1>6. PillPerLoop'
  BY <1>3, <1>4, <1>5, PillCount DEF DrainInv, PillPerLoop, PillsAt, Alive
<1>7. RunningPool'  BY <1>3, <1>4 DEF DrainInv, RunningPool, Alive
<1>8. PillBehind' /\ StopDrains'
  BY <1>4, <1>5 DEF DrainInv, PillBehind, StopDrains
<1> QED  BY <1>1, <1>6, <1>7, <1>8 DEF DrainInv

LEMMA ProcessExitDrain ==
  ASSUME DrainInv, ProcessExit
  PROVE  DrainInv'
<1>1. TypeInv'  BY ProcessExitType DEF DrainInv
<1>2. PillsAt' = {} /\ Queued' = {} /\ Alive' = {}
  BY DEF ProcessExit, PillsAt, Queued, Alive
<1>3. PillPerLoop'
  BY <1>2, FS_EmptySet DEF PillPerLoop, PillsAt, Alive
<1> QED  BY <1>1, <1>2, <1>3 DEF ProcessExit, DrainInv, RunningPool, PillBehind, StopDrains

LEMMA StutterDrain ==
  ASSUME DrainInv, UNCHANGED dvars
  PROVE  DrainInv'
<1>1. TypeInv'  BY StutterType DEF DrainInv
<1> QED  BY <1>1 DEF DrainInv, dvars, RunningPool, PillPerLoop, PillBehind, PillsAt, StopDrains, Queued

LEMMA NextDrain == DrainInv /\ [Next]_dvars => DrainInv'
<1> SUFFICES ASSUME DrainInv, [Next]_dvars PROVE DrainInv'  OBVIOUS
<1>1. CASE \E t \in Tasks : Fresh(t) /\ Enqueue(t)  BY <1>1, EnqueueDrain
<1>2. CASE Start  BY <1>2, StartDrain
<1>3. CASE StopRequest  BY <1>3, StopRequestDrain
<1>4. CASE StopReturn  BY <1>4, StopReturnDrain
<1>5. ASSUME NEW w \in Workers, Work(w) PROVE DrainInv'
  <2>1. ASSUME NEW raised \in BOOLEAN, Return(w, <<"END">>, raised) PROVE DrainInv'
    <3>1. <<"END">> \in Seq(Frames)  BY DEF Frames
    <3> QED  BY <2>1, <3>1, ReturnDrain
  <2> QED  BY <1>5, <2>1, TakePillDrain, TakeUnhandledDrain, TakeDrain DEF Work
<1>6. CASE UNCHANGED dvars  BY <1>6, StutterDrain
<1> QED  BY <1>1, <1>2, <1>3, <1>4, <1>5, <1>6 DEF Next

(* The stop protocol's invariant.                                          *)
THEOREM DrainCorrect == Spec => []DrainInv
<1>1. Init => DrainInv  BY InitDrain
<1>2. DrainInv /\ [Next]_dvars => DrainInv'  BY NextDrain
<1> QED  BY <1>1, <1>2, PTL DEF Spec

(* stop() drains: whatever was accepted while the distributor ran has left *)
(* the queue when stop() has returned, and no pill is left behind.         *)
THEOREM StopDrainsHolds == Spec => []StopDrains
<1>1. DrainInv => StopDrains  BY DEF DrainInv
<1> QED  BY <1>1, DrainCorrect, PTL

(* There are as many pills as loops that still have to exit, so that the   *)
(* gather of stop() can end and no pill outlives it.                       *)
THEOREM PillPerLoopHolds == Spec => []PillPerLoop
<1>1. DrainInv => PillPerLoop  BY DEF DrainInv
<1> QED  BY <1>1, DrainCorrect, PTL

-----------------------------------------------------------------------------
(* The counters.                                                           *)
QueuedTasks == Queued \cap Tasks

LEMMA QueuedFinite ==
  ASSUME TypeOK
  PROVE  IsFiniteSet(QueuedTasks) /\ Cardinality(QueuedTasks) \in Nat
<1>1. Len(queue) \in Nat /\ DOMAIN queue = 1..Len(queue)
  BY LenProperties DEF TypeOK
<1>2. IsFiniteSet(DOMAIN queue)  BY <1>1, FS_Interval
<1>3. IsFiniteSet(Queued)
  <2> DEFINE f == [i \in DOMAIN queue |-> queue[i]]
  <2>1. f \in Surjection(DOMAIN queue, Queued)
    BY DEF Surjection, Queued
  <2> QED  BY <1>2, <2>1, FS_Surjection
<1>4. QueuedTasks \subseteq Queued  BY DEF QueuedTasks
<1>5. IsFiniteSet(QueuedTasks)  BY <1>3, <1>4, FS_Subset
<1> QED  BY <1>5, FS_CardinalityType

MetricsInv == TypeInv /\ OnePlace /\ MetricsAddUp

(* The sum MetricsAddUp states, apart from inflight, which TypeInv has.    *)
Balanced ==
  metrics["enqueued"] =
    Cardinality(QueuedTasks) + metrics["inflight"] + metrics["processed"]
      + metrics["failed"] + metrics["missing"]

LEMMA MetricsParts == TypeInv => (MetricsAddUp <=> Balanced)
BY DEF TypeInv, MetricsAddUp, Balanced, QueuedTasks, BusyLoops

LEMMA CountersType ==
  ASSUME TypeOK
  PROVE  /\ metrics \in [Counters -> Nat]
         /\ metrics["enqueued"] \in Nat /\ metrics["inflight"] \in Nat
         /\ metrics["processed"] \in Nat /\ metrics["failed"] \in Nat
         /\ metrics["missing"] \in Nat
BY DEF TypeOK, Counters

LEMMA EnqueueQueued ==
  ASSUME TypeOK, NEW t \in Tasks, Enqueue(t)
  PROVE  QueuedTasks' = QueuedTasks \cup {t}
<1>1. /\ DOMAIN queue = 1..Len(queue) /\ Len(queue) \in Nat
      /\ DOMAIN queue' = 1..(Len(queue) + 1)
      /\ \A i \in 1..Len(queue) : queue'[i] = queue[i]
      /\ queue'[Len(queue) + 1] = t
  BY AppendProperties, LenProperties DEF TypeOK, Enqueue
<1>2. Queued' = Queued \cup {t}  BY <1>1 DEF Queued
<1> QED  BY <1>2 DEF QueuedTasks

(* A get of a task takes that task, and that of a pill none.               *)
LEMMA GetQueued ==
  ASSUME TypeOK, OnePlace, queue # <<>>, queue' = Tail(queue)
  PROVE  /\ QueuedTasks' = QueuedTasks \ {Head(queue)}
         /\ Head(queue) \in Tasks => Head(queue) \in QueuedTasks
<1>1. /\ Len(queue) \in Nat \ {0}
      /\ DOMAIN queue = 1..Len(queue)
      /\ DOMAIN queue' = 1..(Len(queue) - 1)
      /\ \A i \in 1..(Len(queue) - 1) : queue'[i] = queue[i + 1]
      /\ Head(queue) = queue[1]
  BY TailIndex DEF TypeOK
<1>2. Queued \subseteq Queued' \cup {Head(queue)}
  <2> SUFFICES ASSUME NEW i \in DOMAIN queue, i # 1 PROVE queue[i] \in Queued'
    BY <1>1 DEF Queued
  <2>1. i - 1 \in DOMAIN queue' /\ queue'[i - 1] = queue[i]
    BY <1>1
  <2> QED  BY <2>1 DEF Queued
<1>3. /\ Queued' \subseteq Queued /\ Head(queue) \in Queued
      /\ Head(queue) # Stop => Head(queue) \notin Queued'
  BY GetQueue
<1>4. Stop \notin Tasks  BY DistributorAssumption
<1> QED  BY <1>2, <1>3, <1>4 DEF QueuedTasks

LEMMA StopRequestQueued ==
  ASSUME TypeOK, StopRequest
  PROVE  QueuedTasks' = QueuedTasks
<1>1. Pills \in Seq({Stop})
  BY PillsType DEF TypeOK
<1>2. /\ Len(queue) \in Nat /\ Len(Pills) \in Nat
      /\ DOMAIN queue = 1..Len(queue)
      /\ DOMAIN queue' = 1..(Len(queue) + Len(Pills))
      /\ \A i \in 1..Len(queue) : queue'[i] = queue[i]
  BY <1>1, ConcatProperties, LenProperties DEF TypeOK, StopRequest
<1>3. \A i \in DOMAIN queue' : i \notin DOMAIN queue => queue'[i] = Stop
  <2> SUFFICES ASSUME NEW i \in DOMAIN queue', i \notin DOMAIN queue PROVE queue'[i] = Stop
    OBVIOUS
  <2>1. i \in 1..(Len(queue) + Len(Pills)) /\ i > Len(queue)
    BY <1>2
  <2>2. queue'[i] = Pills[i - Len(queue)]
    BY <1>1, <2>1, ConcatProperties DEF TypeOK, StopRequest
  <2>3. i - Len(queue) \in 1..Len(Pills)
    BY <1>2, <2>1
  <2> QED  BY <1>1, <2>2, <2>3, ElementOfSeq
<1> QED  BY <1>2, <1>3, DistributorAssumption DEF QueuedTasks, Queued

LEMMA EnqueueBalanced ==
  ASSUME TypeOK, Balanced, NEW t \in Tasks, Enqueue(t), t \notin Queued
  PROVE  Balanced'
<1>1. QueuedTasks' = QueuedTasks \cup {t} /\ t \notin QueuedTasks
  BY EnqueueQueued DEF QueuedTasks
<1>2. Cardinality(QueuedTasks') = Cardinality(QueuedTasks) + 1
  BY <1>1, QueuedFinite, FS_AddElement
<1> QED  BY <1>2, QueuedFinite, CountersType DEF Balanced, Enqueue, Counters

LEMMA GetCount ==
  ASSUME TypeOK, OnePlace, queue # <<>>, queue' = Tail(queue)
  PROVE  Cardinality(QueuedTasks') =
           Cardinality(QueuedTasks) - (IF Head(queue) \in Tasks THEN 1 ELSE 0)
<1>1. CASE Head(queue) \in Tasks
  <2>1. QueuedTasks' = QueuedTasks \ {Head(queue)} /\ Head(queue) \in QueuedTasks
    BY <1>1, GetQueued
  <2> QED  BY <1>1, <2>1, QueuedFinite, FS_RemoveElement
<1>2. CASE Head(queue) \notin Tasks
  <2>1. QueuedTasks' = QueuedTasks
    BY <1>2, GetQueued DEF QueuedTasks
  <2> QED  BY <1>2, <2>1, QueuedFinite
<1> QED  BY <1>1, <1>2

LEMMA TakePillBalanced ==
  ASSUME TypeOK, OnePlace, Balanced, NEW w \in Workers, TakePill(w)
  PROVE  Balanced'
<1>1. Cardinality(QueuedTasks') = Cardinality(QueuedTasks)
  BY GetCount, QueuedFinite, DistributorAssumption DEF TakePill, CanGet
<1> QED  BY <1>1 DEF Balanced, TakePill

LEMMA TakeUnhandledBalanced ==
  ASSUME TypeOK, OnePlace, Balanced, NEW w \in Workers, TakeUnhandled(w)
  PROVE  Balanced'
<1>1. Cardinality(QueuedTasks') = Cardinality(QueuedTasks) - 1
  BY GetCount DEF TakeUnhandled, CanGet
<1>2. /\ metrics'["missing"] = metrics["missing"] + 1
      /\ \A c \in Counters \ {"missing"} : metrics'[c] = metrics[c]
  BY CountersType DEF TakeUnhandled, Counters
<1> QED  BY <1>1, <1>2, QueuedFinite, CountersType DEF Balanced, Counters

LEMMA TakeBalanced ==
  ASSUME TypeOK, OnePlace, Balanced, NEW w \in Workers, Take(w)
  PROVE  Balanced'
<1>1. Cardinality(QueuedTasks') = Cardinality(QueuedTasks) - 1
  BY GetCount, DistributorAssumption DEF Take, CanGet
<1> QED  BY <1>1, QueuedFinite, CountersType DEF Balanced, Take, Counters

LEMMA ReturnBalanced ==
  ASSUME TypeOK, Balanced, NEW w, NEW put, NEW raised \in BOOLEAN, Return(w, put, raised)
  PROVE  Balanced'
<1>1. QueuedTasks' = QueuedTasks  BY DEF Return, QueuedTasks, Queued
<1>2. CASE raised
  <2>1. metrics' = [metrics EXCEPT !["inflight"] = @ - 1, !["failed"] = @ + 1]
    BY <1>2 DEF Return
  <2> QED  BY <1>1, <2>1, QueuedFinite, CountersType DEF Balanced, Counters
<1>3. CASE ~raised
  <2>1. metrics' = [metrics EXCEPT !["inflight"] = @ - 1, !["processed"] = @ + 1]
    BY <1>3 DEF Return
  <2> QED  BY <1>1, <2>1, QueuedFinite, CountersType DEF Balanced, Counters
<1> QED  BY <1>2, <1>3

LEMMA StopRequestBalanced ==
  ASSUME TypeOK, Balanced, StopRequest
  PROVE  Balanced'
<1>1. QueuedTasks' = QueuedTasks  BY StopRequestQueued
<1> QED  BY <1>1 DEF Balanced, StopRequest

LEMMA NextMetrics == MetricsInv /\ [Next]_dvars => MetricsInv'
<1> SUFFICES ASSUME MetricsInv, [Next]_dvars PROVE MetricsInv'  OBVIOUS
<1>1. TypeInv' /\ OnePlace'
  BY NextTypeInv, NextOnePlace DEF MetricsInv, TypeInv
<1>2. TypeOK /\ OnePlace /\ Balanced
  BY MetricsParts DEF MetricsInv, TypeInv
<1>3. Balanced'
  <2>1. CASE \E t \in Tasks : Fresh(t) /\ Enqueue(t)
    BY <1>2, <2>1, EnqueueBalanced DEF Fresh
  <2>2. CASE Start  BY <1>2, <2>2 DEF Start, Balanced, QueuedTasks, Queued
  <2>3. CASE StopRequest  BY <1>2, <2>3, StopRequestBalanced
  <2>4. CASE StopReturn  BY <1>2, <2>4 DEF StopReturn, Balanced, QueuedTasks, Queued
  <2>5. ASSUME NEW w \in Workers, Work(w) PROVE Balanced'
    BY <1>2, <2>5, TakePillBalanced, TakeUnhandledBalanced, TakeBalanced, ReturnBalanced DEF Work
  <2>6. CASE UNCHANGED dvars  BY <1>2, <2>6 DEF dvars, Balanced, QueuedTasks, Queued
  <2> QED  BY <2>1, <2>2, <2>3, <2>4, <2>5, <2>6 DEF Next
<1>4. MetricsAddUp'
  BY <1>1, <1>3 DEF TypeInv, MetricsAddUp, Balanced, QueuedTasks, BusyLoops
<1> QED  BY <1>1, <1>4 DEF MetricsInv

LEMMA InitMetrics == Init => MetricsInv
<1> SUFFICES ASSUME Init PROVE MetricsInv  OBVIOUS
<1>1. TypeInv /\ OnePlace  BY InitTypeInv, InitOnePlace
<1>2. QueuedTasks = {}  BY DEF Init, QueuedTasks, Queued
<1>3. Balanced
  BY <1>2, FS_EmptySet DEF Init, ZeroMetrics, Counters, Balanced
<1> QED  BY <1>1, <1>3, MetricsParts DEF MetricsInv

(* The counters add up in every state: each path through a worker loop     *)
(* accounts for its task once.                                             *)
THEOREM MetricsAddUpHolds == Spec => []MetricsAddUp
<1>1. Init => MetricsInv  BY InitMetrics
<1>2. MetricsInv /\ [Next]_dvars => MetricsInv'  BY NextMetrics
<1>3. MetricsInv => MetricsAddUp  BY DEF MetricsInv
<1> QED  BY <1>1, <1>2, <1>3, PTL DEF Spec
=============================================================================
