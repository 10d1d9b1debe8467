-------------------------- MODULE ThreadPoolProofs --------------------------
(***************************************************************************)
(* Proofs about the thread pool, for any numbers of tasks and threads and  *)
(* any thresholds.                                                         *)
(***************************************************************************)
EXTENDS ThreadPool, FiniteSetTheorems, TLAPS

USE ThreadPoolAssumption DEF THREAD_STOP_ALL, THREAD_CHANGE_SETUP, POOL_MIN_WORKERS

-----------------------------------------------------------------------------
(* Sets of threads are finite. *)

LEMMA ThreadSets ==
  ASSUME NEW S \in SUBSET Threads
  PROVE  IsFiniteSet(S) /\ Cardinality(S) \in Nat
BY FS_Subset, FS_CardinalityType

LEMMA AddThread ==
  ASSUME NEW S \in SUBSET Threads, NEW t \in Threads \ S
  PROVE  Cardinality(S \cup {t}) = Cardinality(S) + 1
BY ThreadSets, FS_AddElement

LEMMA RemoveThread ==
  ASSUME NEW S \in SUBSET Threads, NEW t \in S
  PROVE  Cardinality(S \ {t}) = Cardinality(S) - 1
BY ThreadSets, FS_RemoveElement

-----------------------------------------------------------------------------
(* Types. *)

LEMMA InitType == Init => TypeOK
<1> SUFFICES ASSUME Init PROVE TypeOK
  OBVIOUS
<1> USE DEF Init
<1>1. tasks_ \in Seq(Tasks)
  OBVIOUS
<1>2. queue_status_times_ \in [{"busy", "idle"} -> 0..ThreadStatusTimes]
  OBVIOUS
<1>3. /\ worker_pc \in [Threads -> {"none", "check", "wait", "run", "returned"}]
      /\ task \in [Threads -> Tasks \cup {NoTask}]
      /\ \A t \in Threads : task[t] \in Tasks <=> worker_pc[t] = "run"
  OBVIOUS
<1>4. workers_ \in SUBSET Threads /\ exited_workers_ \in SUBSET Threads
  OBVIOUS
<1>5. mgr_pc \in {"none", "wait"}
  OBVIOUS
<1> QED BY <1>1, <1>2, <1>3, <1>4, <1>5 DEF TypeOK

LEMMA WorkerType == ASSUME TypeOK, NEW t \in Threads, WorkerStep(t) PROVE TypeOK'
<1> USE DEF TypeOK
<1>1. CASE WorkerWait(t)
  BY <1>1 DEF WorkerWait
<1>2. CASE WorkerLeaves(t)
  BY <1>2 DEF WorkerLeaves
<1>3. CASE WorkerReturns(t)
  BY <1>3 DEF WorkerReturns
<1>4. CASE WorkerTakes(t)
  <2>1. Head(tasks_) \in Tasks /\ Tail(tasks_) \in Seq(Tasks)
    BY <1>4 DEF WorkerTakes
  <2> QED BY <1>4, <2>1 DEF WorkerTakes
<1>5. CASE TaskReturns(t)
  <2>1. finished' \in SUBSET Tasks
    BY <1>5 DEF TaskReturns
  <2> QED BY <1>5, <2>1 DEF TaskReturns
<1> QED BY <1>1, <1>2, <1>3, <1>4, <1>5 DEF WorkerStep

(* A thread object is in the list as long as its thread is not joined; the
   threads to be joined have returned. *)
ThreadsOK ==
    /\ exited_workers_ \subseteq workers_
    /\ \A t \in exited_workers_ : worker_pc[t] = "returned"
    /\ \A t \in Threads : t \in workers_ <=> worker_pc[t] # "none"

LEMMA ManagerType == ASSUME TypeOK, ThreadsOK, MgrStep PROVE TypeOK'
<1> USE DEF TypeOK, ThreadsOK
<1>1. CASE MgrStops
  BY <1>1 DEF MgrStops
<1>2. CASE MgrPeriod
  BY <1>2 DEF MgrPeriod
<1>3. CASE MakeAdjustComplete
  <2>1. workers_' \in SUBSET Threads /\ exited_workers_' \in SUBSET Threads
    BY <1>3 DEF MakeAdjustComplete
  <2>2. /\ worker_pc' \in [Threads -> {"none", "check", "wait", "run", "returned"}]
        /\ \A t \in Threads : task[t] \in Tasks <=> worker_pc'[t] = "run"
    <3>1. CASE stop_num_ > 0
      BY <1>3, <3>1 DEF MakeAdjustComplete
    <3>2. CASE ~(stop_num_ > 0)
      <4>1. worker_pc' = [t \in Threads |->
              IF t \in exited_workers_ \cap workers_ THEN "none" ELSE worker_pc[t]]
        BY <1>3, <3>2 DEF MakeAdjustComplete
      <4>2. \A t \in exited_workers_ : worker_pc[t] # "run"
        OBVIOUS
      <4> QED BY <4>1, <4>2
    <3> QED BY <3>1, <3>2
  <2>3. mgr_pc' \in {"status", "wait"}
    BY <1>3 DEF MakeAdjustComplete
  <2>4. UNCHANGED <<tasks_, stop_num_, stop_mgr_, queue_status_times_, task, dtor_pc,
                   notifies, finished, refused>>
    BY <1>3 DEF MakeAdjustComplete
  <2> QED BY <2>1, <2>2, <2>3, <2>4
<1>4. CASE CheckQueueStatus
  <2>1. PICK size \in SizeRead :
          /\ queue_status_times_' = [s \in {"busy", "idle"} |->
               IF s = Level(size) THEN CountUp(queue_status_times_[s]) ELSE 0]
          /\ mgr_pc' = IF Level(size) # "normal"
                          /\ CountUp(queue_status_times_[Level(size)]) >= ThreadStatusTimes
                       THEN Level(size) ELSE "wait"
    BY <1>4 DEF CheckQueueStatus
  <2>2. \A n \in 0..ThreadStatusTimes : CountUp(n) \in 0..ThreadStatusTimes
    BY DEF CountUp
  <2>3. queue_status_times_' \in [{"busy", "idle"} -> 0..ThreadStatusTimes]
    BY <2>1, <2>2
  <2>4. mgr_pc' \in {"busy", "idle", "wait"}
    BY <2>1 DEF Level
  <2>5. UNCHANGED <<tasks_, stop_num_, stop_mgr_, workers_, exited_workers_,
                   worker_pc, task, dtor_pc, notifies, finished, refused>>
    BY <1>4 DEF CheckQueueStatus
  <2> QED BY <2>3, <2>4, <2>5
<1>5. CASE HandleQueueBusy
  BY <1>5 DEF HandleQueueBusy
<1>6. CASE HandleQueueIdle
  <2>1. RmWorkers \in Nat
    BY ThreadSets DEF RmWorkers, SizeT
  <2> QED BY <1>6, <2>1 DEF HandleQueueIdle
<1>7. CASE MgrNotifiesAll
  BY <1>7 DEF MgrNotifiesAll, NotifyAll, Waiting
<1> QED BY <1>1, <1>2, <1>3, <1>4, <1>5, <1>6, <1>7 DEF MgrStep

LEMMA NextType == TypeOK /\ ThreadsOK /\ [Next]_vars => TypeOK'
<1> SUFFICES ASSUME TypeOK, ThreadsOK, [Next]_vars PROVE TypeOK'
  OBVIOUS
<1> USE DEF TypeOK
<1>1. ASSUME NEW k \in Tasks, Enqueue(k) PROVE TypeOK'
  <2>1. Append(tasks_, k) \in Seq(Tasks)
    OBVIOUS
  <2> QED BY <1>1, <2>1 DEF Enqueue
<1>2. ASSUME NEW k \in Tasks, EnqueueThrows(k) PROVE TypeOK'
  BY <1>2 DEF EnqueueThrows
<1>3. CASE NotifyOne
  BY <1>3 DEF NotifyOne, Waiting
<1>4. ASSUME NEW t \in Threads, SpuriousWakeup(t) PROVE TypeOK'
  BY <1>4 DEF SpuriousWakeup
<1>5. CASE DtorBegins
  BY <1>5 DEF DtorBegins
<1>6. CASE DtorGoesOn
  BY <1>6 DEF DtorGoesOn, DtorJoinsMgr, DtorStopsAll, DtorNotifiesAll, DtorJoinsWorkers,
              NotifyAll, Waiting
<1>7. CASE UNCHANGED vars
  BY <1>7 DEF vars
<1> QED BY <1>1, <1>2, <1>3, <1>4, <1>5, <1>6, <1>7, WorkerType, ManagerType DEF Next

-----------------------------------------------------------------------------
(* The threads. *)

LEMMA InitThreads == Init => ThreadsOK
BY DEF Init, ThreadsOK

LEMMA NotifyAllThreads ==
  ASSUME TypeOK, ThreadsOK, NotifyAll, UNCHANGED <<workers_, exited_workers_>>
  PROVE  ThreadsOK'
BY DEF TypeOK, ThreadsOK, NotifyAll, Waiting

LEMMA NextThreads == TypeOK /\ ThreadsOK /\ [Next]_vars => ThreadsOK'
<1> SUFFICES ASSUME TypeOK, ThreadsOK, [Next]_vars PROVE ThreadsOK'
  OBVIOUS
<1> USE DEF TypeOK, ThreadsOK
<1>1. ASSUME NEW k \in Tasks, Enqueue(k) \/ EnqueueThrows(k) PROVE ThreadsOK'
  BY <1>1 DEF Enqueue, EnqueueThrows
<1>2. CASE NotifyOne
  BY <1>2 DEF NotifyOne, Waiting
<1>3. ASSUME NEW t \in Threads, WorkerStep(t) \/ SpuriousWakeup(t) PROVE ThreadsOK'
  <2>1. CASE WorkerWait(t)
    BY <2>1 DEF WorkerWait
  <2>2. CASE WorkerLeaves(t)
    BY <2>2 DEF WorkerLeaves
  <2>3. CASE WorkerReturns(t)
    BY <2>3 DEF WorkerReturns
  <2>4. CASE WorkerTakes(t)
    BY <2>4 DEF WorkerTakes
  <2>5. CASE TaskReturns(t)
    BY <2>5 DEF TaskReturns
  <2>6. CASE SpuriousWakeup(t)
    BY <2>6 DEF SpuriousWakeup
  <2> QED BY <1>3, <2>1, <2>2, <2>3, <2>4, <2>5, <2>6 DEF WorkerStep
<1>4. CASE MgrStep
  <2>1. CASE MgrStops \/ MgrPeriod \/ CheckQueueStatus \/ HandleQueueIdle
    BY <2>1 DEF MgrStops, MgrPeriod, CheckQueueStatus, HandleQueueIdle
  <2>2. CASE MakeAdjustComplete
    BY <2>2 DEF MakeAdjustComplete
  <2>3. CASE HandleQueueBusy
    BY <2>3 DEF HandleQueueBusy
  <2>4. CASE MgrNotifiesAll
    BY <2>4, NotifyAllThreads DEF MgrNotifiesAll
  <2> QED BY <1>4, <2>1, <2>2, <2>3, <2>4 DEF MgrStep
<1>5. CASE DtorBegins
  BY <1>5 DEF DtorBegins
<1>6. CASE DtorGoesOn
  BY <1>6, NotifyAllThreads
  DEF DtorGoesOn, DtorJoinsMgr, DtorStopsAll, DtorNotifiesAll, DtorJoinsWorkers
<1>7. CASE UNCHANGED vars
  BY <1>7 DEF vars
<1> QED BY <1>1, <1>2, <1>3, <1>4, <1>5, <1>6, <1>7 DEF Next

(* The variables keep their types. *)
THEOREM TypeCorrect == Spec => []TypeOK
<1>1. Init => TypeOK /\ ThreadsOK
  BY InitType, InitThreads
<1>2. TypeOK /\ ThreadsOK /\ [Next]_vars => (TypeOK /\ ThreadsOK)'
  BY NextType, NextThreads
<1> QED BY <1>1, <1>2, PTL DEF Spec

-----------------------------------------------------------------------------
(* Who may do what when: the manager looks at the queue only when nobody is
   about to leave or to be joined, the destructor goes on to the workers only
   after the manager, and a worker that returned without having been asked to
   leave found the queue of a stopped pool empty. *)
StagesOK ==
    /\ stop_num_ = THREAD_STOP_ALL <=> dtor_pc \in {"notify", "join", "down"}
    /\ dtor_pc \in {"stop", "notify", "join", "down"} => mgr_pc \in {"none", "returned"}
    /\ ~Dynamic => mgr_pc = "none"
    /\ mgr_pc \in {"status", "busy", "idle"} => exited_workers_ = {} /\ stop_num_ = 0
    /\ \A t \in workers_ \ exited_workers_ : worker_pc[t] = "returned" =>
           stop_num_ = THREAD_STOP_ALL /\ tasks_ = <<>>

LEMMA InitStages == Init => StagesOK
BY DEF Init, StagesOK

LEMMA NextStages == TypeOK /\ ThreadsOK /\ StagesOK /\ [Next]_vars => StagesOK'
<1> SUFFICES ASSUME TypeOK, ThreadsOK, StagesOK, [Next]_vars PROVE StagesOK'
  OBVIOUS
<1> USE DEF TypeOK, ThreadsOK, StagesOK
<1>1. ASSUME NEW k \in Tasks, Enqueue(k) \/ EnqueueThrows(k) PROVE StagesOK'
  BY <1>1 DEF Enqueue, EnqueueThrows
<1>2. CASE NotifyOne
  BY <1>2 DEF NotifyOne, Waiting
<1>3. ASSUME NEW t \in Threads, WorkerStep(t) \/ SpuriousWakeup(t) PROVE StagesOK'
  <2>1. CASE WorkerWait(t)
    BY <2>1 DEF WorkerWait
  <2>2. CASE WorkerLeaves(t)
    BY <2>2 DEF WorkerLeaves
  <2>3. CASE WorkerReturns(t)
    BY <2>3 DEF WorkerReturns
  <2>4. CASE WorkerTakes(t)
    BY <2>4 DEF WorkerTakes
  <2>5. CASE TaskReturns(t)
    BY <2>5 DEF TaskReturns
  <2>6. CASE SpuriousWakeup(t)
    BY <2>6 DEF SpuriousWakeup
  <2> QED BY <1>3, <2>1, <2>2, <2>3, <2>4, <2>5, <2>6 DEF WorkerStep
<1>4. CASE MgrStep
  <2>1. CASE MgrStops
    BY <2>1 DEF MgrStops
  <2>2. CASE MgrPeriod
    BY <2>2 DEF MgrPeriod
  <2>3. CASE MakeAdjustComplete
    BY <2>3 DEF MakeAdjustComplete
  <2>4. CASE CheckQueueStatus
    <3>1. mgr_pc' \in {"busy", "idle", "wait"}
      BY <2>4 DEF CheckQueueStatus, Level
    <3> QED BY <2>4, <3>1 DEF CheckQueueStatus
  <2>5. CASE HandleQueueBusy
    BY <2>5 DEF HandleQueueBusy
  <2>6. CASE HandleQueueIdle
    <3>1. RmWorkers \in Nat
      BY ThreadSets DEF RmWorkers, SizeT
    <3> QED BY <2>6, <3>1 DEF HandleQueueIdle
  <2>7. CASE MgrNotifiesAll
    BY <2>7 DEF MgrNotifiesAll, NotifyAll, Waiting
  <2> QED BY <1>4, <2>1, <2>2, <2>3, <2>4, <2>5, <2>6, <2>7 DEF MgrStep
<1>5. CASE DtorBegins
  BY <1>5 DEF DtorBegins
<1>6. CASE DtorGoesOn
  <2>1. CASE DtorJoinsMgr
    BY <2>1 DEF DtorJoinsMgr
  <2>2. CASE DtorStopsAll
    BY <2>2 DEF DtorStopsAll
  <2>3. CASE DtorNotifiesAll
    BY <2>3 DEF DtorNotifiesAll, NotifyAll, Waiting
  <2>4. CASE DtorJoinsWorkers
    BY <2>4 DEF DtorJoinsWorkers
  <2> QED BY <1>6, <2>1, <2>2, <2>3, <2>4 DEF DtorGoesOn
<1>7. CASE UNCHANGED vars
  BY <1>7 DEF vars
<1> QED BY <1>1, <1>2, <1>3, <1>4, <1>5, <1>6, <1>7 DEF Next

-----------------------------------------------------------------------------
(* How many workers there are. *)

LEMMA InitBounded == Init => WorkersBounded
<1> SUFFICES ASSUME Init PROVE WorkersBounded
  OBVIOUS
<1>1. workers_ \ exited_workers_ = workers_
  BY DEF Init
<1>2. Cardinality(workers_) >= 1 /\ Cardinality(workers_) <= MaxNum
  BY DEF Init
<1> QED BY <1>1, <1>2 DEF Init, WorkersBounded, ToLeave

LEMMA RmWorkersValue ==
  ASSUME Cardinality(workers_) \in 1..MaxNum
  PROVE  RmWorkers \in {0, 1} /\ (RmWorkers = 1 => Cardinality(workers_) >= 2)
<1> DEFINE n == Cardinality(workers_)
<1>1. (n - 1) % 65536 = n - 1
  BY DEF SizeT
<1> QED BY <1>1 DEF RmWorkers, SizeT

LEMMA NextBounded ==
  TypeOK /\ ThreadsOK /\ StagesOK /\ WorkersBounded /\ [Next]_vars => WorkersBounded'
<1> SUFFICES ASSUME TypeOK, ThreadsOK, StagesOK, WorkersBounded, [Next]_vars
             PROVE  WorkersBounded'
  OBVIOUS
<1> USE DEF TypeOK, ThreadsOK, StagesOK, WorkersBounded, ToLeave
<1>1. CASE UNCHANGED <<workers_, exited_workers_, stop_num_>>
  BY <1>1
<1>2. ASSUME NEW t \in Threads, WorkerLeaves(t) PROVE WorkersBounded'
  <2>1. t \in workers_ \ exited_workers_
    BY <1>2 DEF WorkerLeaves
  <2>2. workers_' \ exited_workers_' = (workers_ \ exited_workers_) \ {t}
    BY <1>2 DEF WorkerLeaves
  <2>3. Cardinality(workers_' \ exited_workers_') = Cardinality(workers_ \ exited_workers_) - 1
    BY <2>1, <2>2, RemoveThread
  <2>4. ToLeave' = ToLeave - 1 /\ workers_' = workers_
    BY <1>2 DEF WorkerLeaves
  <2>5. Cardinality(workers_ \ exited_workers_) \in Nat
    BY ThreadSets
  <2> QED BY <2>3, <2>4, <2>5
<1>3. CASE MakeAdjustComplete
  <2>1. workers_' \ exited_workers_' = workers_ \ exited_workers_
    BY <1>3 DEF MakeAdjustComplete
  <2>2. workers_' \subseteq workers_
    BY <1>3 DEF MakeAdjustComplete
  <2>3. Cardinality(workers_') <= Cardinality(workers_)
    BY <2>2, ThreadSets, FS_Subset
  <2>4. stop_num_' = stop_num_
    BY <1>3 DEF MakeAdjustComplete
  <2>5. Cardinality(workers_' \ exited_workers_') = Cardinality(workers_ \ exited_workers_)
    BY <2>1, Zenon
  <2>6. Cardinality(workers_) \in Nat /\ Cardinality(workers_') \in Nat
    <3>1. workers_' \in SUBSET Threads
      BY <2>2
    <3> QED BY <3>1, ThreadSets
  <2> HIDE DEF ToLeave
  <2>7. ToLeave' = ToLeave
    BY <2>4 DEF ToLeave
  <2> QED BY <2>3, <2>5, <2>6, <2>7
<1>4. CASE HandleQueueBusy
  <2>1. ASSUME NEW t \in Threads \ workers_, workers_' = workers_ \cup {t},
               Cardinality(workers_) + 1 <= MaxNum
        PROVE  WorkersBounded'
    <3>1. Cardinality(workers_') = Cardinality(workers_) + 1
      BY <2>1, AddThread
    <3>2. workers_' \ exited_workers_' = workers_' /\ workers_ \ exited_workers_ = workers_
      BY <1>4 DEF HandleQueueBusy
    <3>3. stop_num_' = stop_num_
      BY <1>4 DEF HandleQueueBusy
    <3>4. Cardinality(workers_) \in Nat
      BY ThreadSets
    <3>5. /\ Cardinality(workers_' \ exited_workers_') = Cardinality(workers_')
          /\ Cardinality(workers_ \ exited_workers_) = Cardinality(workers_)
      BY <3>2, Zenon
    <3> QED BY <2>1, <3>1, <3>3, <3>4, <3>5
  <2> QED BY <1>1, <1>4, <2>1 DEF HandleQueueBusy
<1>5. CASE HandleQueueIdle
  <2>1. workers_ \ exited_workers_ = workers_ /\ stop_num_ = 0
    BY <1>5 DEF HandleQueueIdle
  <2>2. Cardinality(workers_) \in 1..MaxNum
    <3>1. Cardinality(workers_) \in Nat
      BY ThreadSets
    <3>2. Cardinality(workers_ \ exited_workers_) = Cardinality(workers_)
      BY <2>1, Zenon
    <3> QED BY <2>1, <3>1, <3>2
  <2>3. stop_num_' = RmWorkers /\ UNCHANGED <<workers_, exited_workers_>>
    BY <1>5, <2>1, <2>2, RmWorkersValue DEF HandleQueueIdle
  <2>4. Cardinality(workers_' \ exited_workers_') = Cardinality(workers_)
    <3>1. workers_' \ exited_workers_' = workers_
      BY <2>1, <2>3
    <3> QED BY <3>1, Zenon
  <2> QED BY <2>2, <2>3, <2>4, RmWorkersValue
<1>6. CASE DtorStopsAll
  <2>1. stop_num_' = -1 /\ UNCHANGED <<workers_, exited_workers_>>
    BY <1>6 DEF DtorStopsAll
  <2>2. Cardinality(workers_ \ exited_workers_) \in Nat
    BY ThreadSets
  <2> QED BY <2>1, <2>2
<1> QED
  BY <1>1, <1>2, <1>3, <1>4, <1>5, <1>6
  DEF Next, vars, Enqueue, EnqueueThrows, NotifyOne, WorkerStep, SpuriousWakeup, WorkerWait,
      WorkerReturns, WorkerTakes, TaskReturns, MgrStep, MgrStops, MgrPeriod, CheckQueueStatus,
      MgrNotifiesAll, DtorBegins, DtorGoesOn, DtorJoinsMgr, DtorNotifiesAll, DtorJoinsWorkers

-----------------------------------------------------------------------------
(* Who sleeps and who is awake. *)

LEMMA Sets ==
  ASSUME TypeOK
  PROVE  /\ Checking \in SUBSET Threads /\ Cardinality(Checking) \in Nat
         /\ Waiting \in SUBSET Threads
         /\ ToLeave \in Nat /\ Len(tasks_) \in Nat
<1>1. Checking \in SUBSET Threads /\ Waiting \in SUBSET Threads
  BY DEF Checking, Waiting
<1>2. Cardinality(Checking) \in Nat
  BY <1>1, ThreadSets
<1> QED BY <1>1, <1>2 DEF TypeOK, ToLeave

LEMMA NotifyAllWakes == ASSUME TypeOK, NotifyAll PROVE Waiting' = {}
BY DEF TypeOK, NotifyAll, Waiting

(* A thread that comes to "check" is one more awake... *)
LEMMA Wakes ==
  ASSUME TypeOK, NEW t \in Threads, worker_pc[t] # "check",
         worker_pc' = [worker_pc EXCEPT ![t] = "check"]
  PROVE  /\ Cardinality(Checking') = Cardinality(Checking) + 1
         /\ Waiting' \subseteq Waiting
<1>1. Checking' = Checking \cup {t} /\ t \notin Checking
  BY DEF TypeOK, Checking
<1>2. Cardinality(Checking') = Cardinality(Checking) + 1
  BY <1>1, Sets, AddThread
<1> QED BY <1>2 DEF TypeOK, Waiting

(* ... and one that leaves it, one fewer. *)
LEMMA GoesOn ==
  ASSUME TypeOK, NEW t \in Threads, worker_pc[t] = "check",
         NEW pc \in {"run", "wait", "returned"},
         worker_pc' = [worker_pc EXCEPT ![t] = pc]
  PROVE  /\ Cardinality(Checking') = Cardinality(Checking) - 1
         /\ pc # "wait" => Waiting' = Waiting
<1>1. Checking' = Checking \ {t} /\ t \in Checking
  BY DEF TypeOK, Checking
<1>2. Cardinality(Checking') = Cardinality(Checking) - 1
  BY <1>1, Sets, RemoveThread
<1> QED BY <1>2 DEF TypeOK, Waiting

LEMMA InitWakeup == Init => NoLostWakeup
BY DEF Init, NoLostWakeup, Waiting

LEMMA WorkerWakeup ==
  ASSUME TypeOK, TypeOK', ThreadsOK, StagesOK, NoLostWakeup,
         NEW t \in Threads, WorkerStep(t) \/ SpuriousWakeup(t)
  PROVE  NoLostWakeup'
<1>0. /\ Cardinality(Checking) \in Nat /\ Cardinality(Checking') \in Nat
      /\ ToLeave \in Nat /\ Len(tasks_) \in Nat /\ notifies \in Nat
  <2>1. Cardinality(Checking') \in Nat
    <3>1. Checking' \in SUBSET Threads
      BY DEF Checking
    <3> QED BY <3>1, ThreadSets
  <2> QED BY <2>1, Sets DEF TypeOK
<1> USE DEF NoLostWakeup
<1>1. CASE WorkerWait(t)
  <2>1. tasks_ = <<>> /\ stop_num_ = 0
    BY <1>1 DEF WorkerWait, Predicate
  <2>2. Len(tasks_') = 0 /\ ToLeave' = 0 /\ notifies' = notifies
    BY <1>1, <2>1 DEF WorkerWait, ToLeave
  <2>3. dtor_pc' # "join"
    BY <1>1, <2>1 DEF WorkerWait, StagesOK
  <2> QED BY <1>0, <2>2, <2>3
<1>2. CASE WorkerLeaves(t)
  <2>1. Cardinality(Checking') = Cardinality(Checking) - 1 /\ Waiting' = Waiting
    BY <1>2, GoesOn DEF WorkerLeaves
  <2>2. ToLeave' = ToLeave - 1
    BY <1>2 DEF WorkerLeaves, ToLeave, TypeOK
  <2> QED BY <1>0, <1>2, <2>1, <2>2 DEF WorkerLeaves
<1>3. CASE WorkerReturns(t)
  <2>1. Waiting' = Waiting
    BY <1>3, GoesOn DEF WorkerReturns
  <2>2. Len(tasks_') = 0 /\ ToLeave' = 0 /\ UNCHANGED <<notifies, dtor_pc>>
    BY <1>3 DEF WorkerReturns, ToLeave
  <2> QED BY <1>0, <2>1, <2>2
<1>4. CASE WorkerTakes(t)
  <2>1. Cardinality(Checking') = Cardinality(Checking) - 1 /\ Waiting' = Waiting
    BY <1>4, GoesOn DEF WorkerTakes
  <2>2. Len(tasks_') = Len(tasks_) - 1
    BY <1>4 DEF WorkerTakes, TypeOK
  <2>3. ToLeave' = ToLeave
    BY <1>4 DEF WorkerTakes, ToLeave
  <2> QED BY <1>0, <1>4, <2>1, <2>2, <2>3 DEF WorkerTakes
<1>5. CASE TaskReturns(t)
  <2>1. Cardinality(Checking') = Cardinality(Checking) + 1 /\ Waiting' \subseteq Waiting
    BY <1>5, Wakes DEF TaskReturns
  <2>2. ToLeave' = ToLeave
    BY <1>5 DEF TaskReturns, ToLeave
  <2> QED BY <1>0, <1>5, <2>1, <2>2 DEF TaskReturns
<1>6. CASE SpuriousWakeup(t)
  <2>1. Cardinality(Checking') = Cardinality(Checking) + 1 /\ Waiting' \subseteq Waiting
    BY <1>6, Wakes DEF SpuriousWakeup
  <2>2. ToLeave' = ToLeave
    BY <1>6 DEF SpuriousWakeup, ToLeave
  <2> QED BY <1>0, <1>6, <2>1, <2>2 DEF SpuriousWakeup
<1> QED BY <1>1, <1>2, <1>3, <1>4, <1>5, <1>6 DEF WorkerStep

LEMMA ManagerWakeup ==
  ASSUME TypeOK, ThreadsOK, StagesOK, WorkersBounded, NoLostWakeup, MgrStep
  PROVE  NoLostWakeup'
<1>0. Cardinality(Checking) \in Nat /\ ToLeave \in Nat /\ Len(tasks_) \in Nat
  BY Sets
<1> USE DEF NoLostWakeup
<1>1. CASE MgrStops \/ MgrPeriod \/ CheckQueueStatus
  <2>1. Checking' = Checking /\ Waiting' = Waiting /\ ToLeave' = ToLeave
    BY <1>1 DEF MgrStops, MgrPeriod, CheckQueueStatus, Checking, Waiting, ToLeave
  <2>2. mgr_pc # "notify" /\ UNCHANGED <<tasks_, notifies, dtor_pc>>
    BY <1>1 DEF MgrStops, MgrPeriod, CheckQueueStatus
  <2> QED BY <2>1, <2>2
<1>2. CASE MakeAdjustComplete
  <2>1. \A t \in Threads :
          \/ worker_pc'[t] = worker_pc[t]
          \/ worker_pc[t] = "returned" /\ worker_pc'[t] = "none"
    <3>1. CASE stop_num_ > 0
      BY <1>2, <3>1 DEF MakeAdjustComplete, TypeOK
    <3>2. CASE ~(stop_num_ > 0)
      <4>1. worker_pc' = [t \in Threads |->
              IF t \in exited_workers_ \cap workers_ THEN "none" ELSE worker_pc[t]]
        BY <1>2, <3>2 DEF MakeAdjustComplete
      <4> QED BY <4>1 DEF ThreadsOK, TypeOK
    <3> QED BY <3>1, <3>2
  <2>2. Checking' = Checking /\ Waiting' = Waiting
    BY <2>1 DEF Checking, Waiting
  <2>3. ToLeave' = ToLeave /\ mgr_pc # "notify" /\ UNCHANGED <<tasks_, notifies, dtor_pc>>
    BY <1>2 DEF MakeAdjustComplete, ToLeave
  <2> QED BY <2>2, <2>3
<1>3. CASE HandleQueueBusy
  <2>1. ToLeave' = ToLeave /\ mgr_pc # "notify" /\ UNCHANGED <<tasks_, notifies, dtor_pc>>
    BY <1>3 DEF HandleQueueBusy, ToLeave
  <2>2. ASSUME NEW t \in Threads \ workers_, worker_pc' = [worker_pc EXCEPT ![t] = "check"]
        PROVE  NoLostWakeup'
    <3>1. Cardinality(Checking') = Cardinality(Checking) + 1 /\ Waiting' \subseteq Waiting
      BY <2>2, Wakes DEF ThreadsOK
    <3> QED BY <1>0, <2>1, <3>1 DEF TypeOK
  <2>3. ASSUME worker_pc' = worker_pc PROVE NoLostWakeup'
    <3>1. Checking' = Checking /\ Waiting' = Waiting
      BY <2>3 DEF Checking, Waiting
    <3> QED BY <2>1, <3>1
  <2> QED BY <1>3, <2>2, <2>3 DEF HandleQueueBusy
<1>4. CASE HandleQueueIdle
  <2>1. Checking' = Checking /\ Waiting' = Waiting /\ UNCHANGED <<tasks_, notifies, dtor_pc>>
    BY <1>4 DEF HandleQueueIdle, Checking, Waiting
  <2>2. mgr_pc # "notify" /\ (mgr_pc' = "notify" \/ ToLeave' = ToLeave)
    BY <1>4 DEF HandleQueueIdle, ToLeave
  <2> QED BY <2>1, <2>2
<1>5. CASE MgrNotifiesAll
  BY <1>5, NotifyAllWakes DEF MgrNotifiesAll
<1> QED BY <1>1, <1>2, <1>3, <1>4, <1>5 DEF MgrStep

LEMMA NextWakeup ==
  ASSUME TypeOK, TypeOK', ThreadsOK, StagesOK, WorkersBounded, NoLostWakeup, [Next]_vars
  PROVE  NoLostWakeup'
<1>0. /\ Cardinality(Checking) \in Nat /\ ToLeave \in Nat /\ Len(tasks_) \in Nat
      /\ notifies \in Nat
  BY Sets DEF TypeOK
<1>1. ASSUME NEW k \in Tasks, Enqueue(k) PROVE NoLostWakeup'
  <2>1. Checking' = Checking /\ Waiting' = Waiting /\ ToLeave' = ToLeave
    BY <1>1 DEF Enqueue, Checking, Waiting, ToLeave
  <2>2. Len(tasks_') = Len(tasks_) + 1
    BY <1>1 DEF Enqueue, TypeOK
  <2> QED BY <1>0, <1>1, <2>1, <2>2 DEF Enqueue, NoLostWakeup
<1>2. CASE NotifyOne
  <2>1. notifies' = notifies - 1 /\ ToLeave' = ToLeave /\ UNCHANGED <<tasks_, mgr_pc, dtor_pc>>
    BY <1>2 DEF NotifyOne, ToLeave
  <2>2. ASSUME NEW t \in Waiting, worker_pc' = [worker_pc EXCEPT ![t] = "check"]
        PROVE  NoLostWakeup'
    <3>1. Cardinality(Checking') = Cardinality(Checking) + 1 /\ Waiting' \subseteq Waiting
      BY <2>2, Wakes DEF Waiting
    <3> QED BY <1>0, <2>1, <3>1 DEF NoLostWakeup
  <2>3. ASSUME Waiting = {}, worker_pc' = worker_pc PROVE NoLostWakeup'
    BY <2>3 DEF NoLostWakeup, Waiting
  <2> QED BY <1>2, <2>2, <2>3 DEF NotifyOne
<1>3. CASE DtorStopsAll
  <2>1. Checking' = Checking /\ Waiting' = Waiting /\ ToLeave' = 0
    BY <1>3 DEF DtorStopsAll, Checking, Waiting, ToLeave
  <2>2. UNCHANGED <<tasks_, notifies, mgr_pc>> /\ dtor_pc' = "notify"
    BY <1>3 DEF DtorStopsAll
  <2> QED BY <1>0, <2>1, <2>2 DEF NoLostWakeup
<1>4. CASE DtorNotifiesAll
  BY <1>4, NotifyAllWakes DEF DtorNotifiesAll, NoLostWakeup
<1>5. CASE \/ DtorBegins \/ DtorJoinsMgr \/ DtorJoinsWorkers \/ UNCHANGED vars
           \/ \E k \in Tasks : EnqueueThrows(k)
  <2>1. UNCHANGED <<worker_pc, stop_num_, tasks_, notifies, mgr_pc>>
    BY <1>5 DEF DtorBegins, DtorJoinsMgr, DtorJoinsWorkers, vars, EnqueueThrows
  <2>2. Checking' = Checking /\ Waiting' = Waiting /\ ToLeave' = ToLeave
    BY <2>1 DEF Checking, Waiting, ToLeave
  <2>3. dtor_pc' = "join" => dtor_pc = "join"
    BY <1>5 DEF DtorBegins, DtorJoinsMgr, DtorJoinsWorkers, vars, EnqueueThrows
  <2> QED BY <2>1, <2>2, <2>3 DEF NoLostWakeup
<1> QED BY <1>1, <1>2, <1>3, <1>4, <1>5, WorkerWakeup, ManagerWakeup DEF Next, DtorGoesOn

-----------------------------------------------------------------------------
(* A task is in one place of the queue or with one worker. *)
TasksOnce ==
    /\ \A i, j \in 1..Len(tasks_) : tasks_[i] = tasks_[j] => i = j
    /\ \A i \in 1..Len(tasks_), t \in Threads : tasks_[i] # task[t]
    /\ \A t, u \in Threads : task[t] \in Tasks /\ task[t] = task[u] => t = u

LEMMA InitOnce == Init => TasksOnce
BY DEF Init, TasksOnce

LEMMA EnqueueOnce ==
  ASSUME TypeOK, TasksOnce, NEW k \in Tasks, Enqueue(k)
  PROVE  TasksOnce'
<1>1. \A i \in 1..Len(tasks_) : tasks_[i] # k
  BY DEF Enqueue, Known, Queued
<1>2. \A t \in Threads : task[t] # k
  BY DEF Enqueue, Known, Running, TypeOK
<1>3. /\ Len(tasks_') = Len(tasks_) + 1
      /\ \A i \in 1..Len(tasks_) : tasks_'[i] = tasks_[i]
      /\ tasks_'[Len(tasks_) + 1] = k
  BY DEF Enqueue, TypeOK
<1>4. task' = task /\ Len(tasks_) \in Nat
  BY DEF Enqueue, TypeOK
<1>5. \A i \in 1..Len(tasks_') : i \in 1..Len(tasks_) \/ i = Len(tasks_) + 1
  BY <1>3, <1>4
<1> QED BY <1>1, <1>2, <1>3, <1>4, <1>5 DEF TasksOnce

LEMMA TakeOnce ==
  ASSUME TypeOK, TasksOnce, NEW t \in Threads, WorkerTakes(t)
  PROVE  TasksOnce'
<1>1. /\ Len(tasks_) \in Nat \ {0}
      /\ Len(tasks_') = Len(tasks_) - 1
      /\ \A i \in 1..Len(tasks_') : tasks_'[i] = tasks_[i + 1]
      /\ Head(tasks_) = tasks_[1]
  BY DEF WorkerTakes, TypeOK
<1>2. \A i \in 1..Len(tasks_') : i + 1 \in 1..Len(tasks_) /\ i + 1 # 1
  BY <1>1
<1>3. task' = [task EXCEPT ![t] = tasks_[1]] /\ 1 \in 1..Len(tasks_)
  BY <1>1 DEF WorkerTakes
<1>4. \A i, j \in 1..Len(tasks_') : tasks_'[i] = tasks_'[j] => i = j
  BY <1>1, <1>2 DEF TasksOnce
<1>5. \A i \in 1..Len(tasks_'), u \in Threads : tasks_'[i] # task'[u]
  BY <1>1, <1>2, <1>3 DEF TasksOnce, TypeOK
<1>6. \A u, v \in Threads : task'[u] \in Tasks /\ task'[u] = task'[v] => u = v
  BY <1>3 DEF TasksOnce, TypeOK
<1> QED BY <1>4, <1>5, <1>6 DEF TasksOnce

LEMMA NextOnce == TypeOK /\ TasksOnce /\ [Next]_vars => TasksOnce'
<1> SUFFICES ASSUME TypeOK, TasksOnce, [Next]_vars PROVE TasksOnce'
  OBVIOUS
<1>1. CASE UNCHANGED <<tasks_, task>>
  BY <1>1 DEF TasksOnce
<1>2. ASSUME NEW t \in Threads, TaskReturns(t) PROVE TasksOnce'
  <2>1. tasks_' = tasks_ /\ task' = [task EXCEPT ![t] = NoTask]
    BY <1>2 DEF TaskReturns
  <2>2. \A i \in 1..Len(tasks_) : tasks_[i] \in Tasks
    BY DEF TypeOK
  <2> QED BY <2>1, <2>2 DEF TasksOnce, TypeOK
<1> QED
  BY <1>1, <1>2, EnqueueOnce, TakeOnce
  DEF Next, vars, EnqueueThrows, NotifyOne, WorkerStep, SpuriousWakeup, WorkerWait,
      WorkerLeaves, WorkerReturns, MgrStep, MgrStops, MgrPeriod, MakeAdjustComplete,
      CheckQueueStatus, HandleQueueBusy, HandleQueueIdle, MgrNotifiesAll, DtorBegins,
      DtorGoesOn, DtorJoinsMgr, DtorStopsAll, DtorNotifiesAll, DtorJoinsWorkers

-----------------------------------------------------------------------------
(* The inductive invariant and the theorems. *)

IInv ==
    /\ TypeOK
    /\ ThreadsOK
    /\ StagesOK
    /\ WorkersBounded
    /\ NoLostWakeup
    /\ TasksOnce

LEMMA InitIInv == Init => IInv
BY InitType, InitThreads, InitStages, InitBounded, InitWakeup, InitOnce DEF IInv

LEMMA NextIInv == IInv /\ [Next]_vars => IInv'
BY NextType, NextThreads, NextStages, NextBounded, NextWakeup, NextOnce
DEF IInv

(* No notify is lost on a pool with sleeping workers. *)
THEOREM WakeupsKept == Spec => []NoLostWakeup
BY InitIInv, NextIInv, PTL DEF Spec, IInv

(* The manager keeps the pool between one worker that stays and max_num_. *)
THEOREM SizeKept == Spec => []WorkersBounded
BY InitIInv, NextIInv, PTL DEF Spec, IInv

LEMMA StopStep ==
  ASSUME IInv, Next, stop_num_ = THREAD_STOP_ALL
  PROVE  /\ stop_num_' = THREAD_STOP_ALL
         /\ workers_' = workers_
         /\ exited_workers_' = exited_workers_
<1>1. mgr_pc \in {"none", "returned"} /\ dtor_pc \in {"notify", "join", "down"}
  BY DEF IInv, StagesOK
<1>2. ~MgrStep
  BY <1>1 DEF MgrStep, MgrStops, MgrPeriod, MakeAdjustComplete, CheckQueueStatus,
              HandleQueueBusy, HandleQueueIdle, MgrNotifiesAll
<1>3. ~DtorBegins
  BY <1>1 DEF DtorBegins
<1> QED
  BY <1>2, <1>3
  DEF Next, Enqueue, EnqueueThrows, NotifyOne, WorkerStep, SpuriousWakeup, WorkerWait,
      WorkerLeaves, WorkerReturns, WorkerTakes, TaskReturns, DtorGoesOn, DtorJoinsMgr,
      DtorStopsAll, DtorNotifiesAll, DtorJoinsWorkers

(* Once all workers are to stop, nobody changes that or the list of them. *)
THEOREM StopKept == Spec => StopIsFinal
<1>1. IInv /\ [Next]_vars =>
        [stop_num_ = THREAD_STOP_ALL =>
           /\ stop_num_' = THREAD_STOP_ALL
           /\ workers_' = workers_
           /\ exited_workers_' = exited_workers_]_vars
  BY StopStep
<1> QED BY InitIInv, NextIInv, <1>1, PTL DEF Spec, StopIsFinal

-----------------------------------------------------------------------------
(* The pool implements its promise. *)

LEMMA SameRunning ==
  ASSUME TypeOK, TypeOK', task' = task
  PROVE  Running' = Running
BY DEF TypeOK, Running

LEMMA SameQueued == ASSUME tasks_' = tasks_ PROVE Queued' = Queued
BY DEF Queued

LEMMA PromiseKnown == ASSUME NEW k PROVE k \in Promise!Known <=> Known(k)
BY DEF Promise!Known, Known, Queued

LEMMA PromiseInit == Init => Promise!Init
<1> SUFFICES ASSUME Init PROVE Promise!Init
  OBVIOUS
<1>1. Running = {}
  BY DEF Init, Running
<1> QED BY <1>1 DEF Init, Promise!Init

LEMMA PromiseWorker ==
  ASSUME IInv, TypeOK', NEW t \in Threads, WorkerStep(t) \/ SpuriousWakeup(t)
  PROVE  [Promise!Next]_Promise!vars
<1> USE DEF IInv, TypeOK
<1>1. CASE WorkerWait(t) \/ WorkerReturns(t) \/ SpuriousWakeup(t)
  <2>1. UNCHANGED <<tasks_, task, finished, refused, stop_num_, dtor_pc>>
    BY <1>1 DEF WorkerWait, WorkerReturns, SpuriousWakeup
  <2> QED BY <2>1, SameRunning DEF Promise!vars
<1>2. CASE WorkerLeaves(t)
  <2>1. UNCHANGED <<tasks_, task, finished, refused, dtor_pc>>
    BY <1>2 DEF WorkerLeaves
  <2>2. stop_num_ # -1 /\ stop_num_' # -1
    BY <1>2 DEF WorkerLeaves
  <2> QED BY <2>1, <2>2, SameRunning DEF Promise!vars
<1>3. CASE WorkerTakes(t)
  <2>1. Running' = Running \cup {Head(tasks_)}
    <3>1. task' = [task EXCEPT ![t] = Head(tasks_)]
      BY <1>3 DEF WorkerTakes
    <3>2. worker_pc' = [worker_pc EXCEPT ![t] = "run"] /\ worker_pc[t] # "run"
      BY <1>3 DEF WorkerTakes
    <3> QED BY <3>1, <3>2 DEF Running
  <2>2. Promise!Start
    BY <1>3, <2>1 DEF WorkerTakes, Promise!Start
  <2> QED BY <2>2 DEF Promise!Next
<1>4. CASE TaskReturns(t)
  <2>1. task[t] \in Tasks /\ task[t] \in Running
    BY <1>4 DEF TaskReturns, Running
  <2>2. Running' = Running \ {task[t]}
    <3>1. \A u \in Threads : task[u] = task[t] => u = t
      BY <2>1 DEF TasksOnce
    <3>2. worker_pc' = [worker_pc EXCEPT ![t] = "check"] /\ task' = [task EXCEPT ![t] = NoTask]
      BY <1>4 DEF TaskReturns
    <3> QED BY <3>1, <3>2 DEF Running
  <2> QED BY <1>4, <2>1, <2>2 DEF TaskReturns, Promise!Next, Promise!Finish
<1> QED BY <1>1, <1>2, <1>3, <1>4 DEF WorkerStep

(* Only the last join makes the pool "gone": then every worker has returned,
   one of them without having been asked to leave, so the queue was empty. *)
LEMMA PromiseLeave ==
  ASSUME IInv, IInv', DtorJoinsWorkers
  PROVE  [Promise!Next]_Promise!vars
<1> USE DEF IInv, TypeOK
<1>1. \A t \in Threads : worker_pc[t] # "run"
  BY DEF DtorJoinsWorkers, ThreadsOK
<1>2. workers_ \ exited_workers_ # {}
  <2>1. SUFFICES ASSUME workers_ \ exited_workers_ = {} PROVE FALSE
    OBVIOUS
  <2>2. Cardinality(workers_ \ exited_workers_) = 0
    BY <2>1, FS_EmptySet, Zenon
  <2> QED BY <2>2 DEF WorkersBounded, ToLeave
<1>3. tasks_ = <<>> /\ stop_num_ = -1
  BY <1>2 DEF DtorJoinsWorkers, StagesOK
<1>4. Running = {} /\ Running' = {}
  BY <1>1 DEF Running, DtorJoinsWorkers
<1>5. Promise!Leave
  BY <1>3, <1>4 DEF Promise!Leave, DtorJoinsWorkers
<1> QED BY <1>5 DEF Promise!Next

LEMMA PromiseStep ==
  ASSUME IInv, IInv', [Next]_vars
  PROVE  [Promise!Next]_Promise!vars
<1>0. TypeOK /\ TypeOK'
  BY DEF IInv
<1>1. ASSUME NEW k \in Tasks, Enqueue(k) PROVE [Promise!Next]_Promise!vars
  <2>1. Running' = Running
    BY <1>0, <1>1, SameRunning DEF Enqueue
  <2>2. k \notin Promise!Known
    BY <1>1, PromiseKnown DEF Enqueue
  <2>4. Promise!Accept(k)
    BY <1>1, <2>1, <2>2 DEF Enqueue, Promise!Accept
  <2> QED BY <2>4 DEF Promise!Next
<1>2. ASSUME NEW k \in Tasks, EnqueueThrows(k) PROVE [Promise!Next]_Promise!vars
  <2>1. Running' = Running
    BY <1>0, <1>2, SameRunning DEF EnqueueThrows
  <2>2. k \notin Promise!Known
    BY <1>2, PromiseKnown DEF EnqueueThrows
  <2>3. Promise!Refuse(k)
    BY <1>2, <2>1, <2>2 DEF EnqueueThrows, Promise!Refuse
  <2> QED BY <2>3 DEF Promise!Next
<1>3. CASE DtorStopsAll
  <2>1. Running' = Running
    BY <1>0, <1>3, SameRunning DEF DtorStopsAll
  <2>2. Promise!Stop
    BY <1>3, <2>1 DEF DtorStopsAll, Promise!Stop
  <2> QED BY <2>2 DEF Promise!Next
<1>4. CASE \/ NotifyOne \/ MgrStep \/ DtorBegins \/ DtorJoinsMgr \/ DtorNotifiesAll
           \/ UNCHANGED vars
  <2>1. UNCHANGED <<tasks_, task, finished, refused>>
    BY <1>4 DEF NotifyOne, MgrStep, MgrStops, MgrPeriod, MakeAdjustComplete, CheckQueueStatus,
                HandleQueueBusy, HandleQueueIdle, MgrNotifiesAll, DtorBegins, DtorJoinsMgr,
                DtorNotifiesAll, vars
  <2>2. (dtor_pc = "down") = (dtor_pc' = "down")
    BY <1>4 DEF NotifyOne, MgrStep, MgrStops, MgrPeriod, MakeAdjustComplete, CheckQueueStatus,
                HandleQueueBusy, HandleQueueIdle, MgrNotifiesAll, DtorBegins, DtorJoinsMgr,
                DtorNotifiesAll, vars
  <2>3. (stop_num_ = -1) = (stop_num_' = -1)
    BY <2>2, <1>4 DEF IInv, StagesOK, NotifyOne, MgrStep, MgrStops, MgrPeriod,
                MakeAdjustComplete, CheckQueueStatus, HandleQueueBusy, HandleQueueIdle,
                MgrNotifiesAll, DtorBegins, DtorJoinsMgr, DtorNotifiesAll, vars
  <2>4. Running' = Running
    BY <1>0, <2>1, SameRunning
  <2> QED BY <2>1, <2>2, <2>3, <2>4 DEF Promise!vars
<1> QED BY <1>0, <1>1, <1>2, <1>3, <1>4, PromiseWorker, PromiseLeave DEF Next, DtorGoesOn

(* The pool, grown and shrunk and destroyed at any time, keeps its promise:
   accepted tasks start in order, run once, and have all run at the end. *)
THEOREM PromiseKept == Spec => PoolSpec
<1>1. Init => Promise!Init
  BY PromiseInit
<1>2. IInv /\ IInv' /\ [Next]_vars => [Promise!Next]_Promise!vars
  BY PromiseStep
<1> QED BY InitIInv, NextIInv, <1>1, <1>2, PTL DEF Spec, PoolSpec, Promise!Spec
=============================================================================
