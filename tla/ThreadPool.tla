----------------------------- MODULE ThreadPool -----------------------------
(***************************************************************************)
(* chaos::ThreadPool (ChaosThreadPool.h), at the grain of its critical     *)
(* sections: workers that sleep on queue_cond_ and take tasks first in,    *)
(* first out; a manager that every period joins the workers that left and  *)
(* grows or shrinks the pool by one; a destructor that ends the manager,   *)
(* then the workers once the queue is empty.                               *)
(*                                                                         *)
(* A notify comes after the lock is released, so it is a step of its own.  *)
(***************************************************************************)
EXTENDS Integers, Sequences, FiniteSets

CONSTANTS
    Tasks,             \* the tasks ever enqueued, each once
    Threads,           \* the identities a worker thread can get
    IdleNum,           \* idle_num: workers at the start
    MaxNum,            \* max_num
    Dynamic,           \* dynamic: there is a manager
    QueueBusyNum,      \* QUEUE_BUSY_NUM
    QueueIdleNum,      \* QUEUE_IDLE_NUM
    ThreadStatusTimes, \* THREAD_STATUS_TIMES
    NoTask             \* the worker runs nothing

SizeT == 65536   \* size_t wraps round; any modulus above MaxNum does

ASSUME ThreadPoolAssumption ==
    /\ IsFiniteSet(Threads)
    /\ IdleNum \in Nat \ {0}   \* with no worker at all the tasks are never run
    /\ MaxNum \in Nat \ {0}
    /\ Cardinality(Threads) > MaxNum
    /\ MaxNum < SizeT
    /\ Dynamic \in BOOLEAN
    /\ QueueBusyNum \in Nat
    /\ QueueIdleNum \in Nat
    /\ ThreadStatusTimes \in Nat
    /\ NoTask \notin Tasks

THREAD_STOP_ALL == -1
THREAD_CHANGE_SETUP == 1
POOL_MIN_WORKERS == 1

VARIABLES
    tasks_,            \* the queue
    stop_num_,         \* workers to leave, or THREAD_STOP_ALL
    stop_mgr_,
    workers_,          \* thread objects in the list, ended ones included
    exited_workers_,   \* workers that have left and are not joined
    queue_status_times_, \* consecutive busy and idle readings
    worker_pc,         \* where each worker's thread stands
    task,              \* what each worker runs
    mgr_pc,            \* where the manager stands
    dtor_pc,           \* where the destructor stands, "up" before it
    notifies,          \* enqueues that still have to notify_one
    finished,          \* tasks that have run
    refused            \* tasks whose enqueue threw

vars == <<tasks_, stop_num_, stop_mgr_, workers_, exited_workers_, queue_status_times_,
          worker_pc, task, mgr_pc, dtor_pc, notifies, finished, refused>>

TypeOK ==
    /\ tasks_ \in Seq(Tasks)
    /\ stop_num_ \in Nat \cup {THREAD_STOP_ALL}
    /\ stop_mgr_ \in BOOLEAN
    /\ workers_ \in SUBSET Threads
    /\ exited_workers_ \in SUBSET Threads
    /\ queue_status_times_ \in [{"busy", "idle"} -> 0..ThreadStatusTimes]
    /\ worker_pc \in [Threads -> {"none", "check", "wait", "run", "returned"}]
    /\ task \in [Threads -> Tasks \cup {NoTask}]
    /\ \A t \in Threads : task[t] \in Tasks <=> worker_pc[t] = "run"
    /\ mgr_pc \in {"none", "wait", "adjust", "status", "busy", "idle", "notify", "returned"}
    /\ dtor_pc \in {"up", "join_mgr", "stop", "notify", "join", "down"}
    /\ notifies \in Nat
    /\ finished \in SUBSET Tasks
    /\ refused \in SUBSET Tasks

(* idle_num is cut down to max_num; the workers are started. *)
Init ==
    /\ tasks_ = <<>>
    /\ stop_num_ = 0
    /\ stop_mgr_ = FALSE
    /\ workers_ \in SUBSET Threads
    /\ Cardinality(workers_) = IF IdleNum > MaxNum THEN MaxNum ELSE IdleNum
    /\ exited_workers_ = {}
    /\ queue_status_times_ = [s \in {"busy", "idle"} |-> 0]
    /\ worker_pc = [t \in Threads |-> IF t \in workers_ THEN "check" ELSE "none"]
    /\ task = [t \in Threads |-> NoTask]
    /\ mgr_pc = IF Dynamic THEN "wait" ELSE "none"
    /\ dtor_pc = "up"
    /\ notifies = 0
    /\ finished = {}
    /\ refused = {}

Queued == {tasks_[i] : i \in 1..Len(tasks_)}

Running == {task[t] : t \in {u \in Threads : worker_pc[u] = "run"}}

Waiting == {t \in Threads : worker_pc[t] = "wait"}

-----------------------------------------------------------------------------
(* The users of the pool. *)

Known(k) == k \in Queued \cup Running \cup finished \cup refused

(* Fault: notify only when the queue was empty. *)
EnqueueNotifiesFirst(k) ==
    /\ ~Known(k)
    /\ stop_num_ # THREAD_STOP_ALL
    /\ tasks_' = Append(tasks_, k)
    /\ notifies' = IF tasks_ = <<>> THEN notifies + 1 ELSE notifies
    /\ UNCHANGED <<stop_num_, stop_mgr_, workers_, exited_workers_, queue_status_times_,
                   worker_pc, task, mgr_pc, dtor_pc, finished, refused>>

Enqueue(k) ==
    /\ ~Known(k)
    /\ stop_num_ # THREAD_STOP_ALL
    /\ tasks_' = Append(tasks_, k)
    /\ notifies' = notifies + 1
    /\ UNCHANGED <<stop_num_, stop_mgr_, workers_, exited_workers_, queue_status_times_,
                   worker_pc, task, mgr_pc, dtor_pc, finished, refused>>

(* "ThreadPool is stopped!" *)
EnqueueThrows(k) ==
    /\ ~Known(k)
    /\ stop_num_ = THREAD_STOP_ALL
    /\ dtor_pc # "down"
    /\ refused' = refused \cup {k}
    /\ UNCHANGED <<tasks_, stop_num_, stop_mgr_, workers_, exited_workers_, queue_status_times_,
                   worker_pc, task, mgr_pc, dtor_pc, notifies, finished>>

(* notify_one wakes one of the sleepers, or nobody if there is none. *)
NotifyOne ==
    /\ notifies > 0
    /\ notifies' = notifies - 1
    /\ \/ \E t \in Waiting : worker_pc' = [worker_pc EXCEPT ![t] = "check"]
       \/ Waiting = {} /\ UNCHANGED worker_pc
    /\ UNCHANGED <<tasks_, stop_num_, stop_mgr_, workers_, exited_workers_, queue_status_times_,
                   task, mgr_pc, dtor_pc, finished, refused>>

NotifyAll ==
    worker_pc' = [t \in Threads |-> IF t \in Waiting THEN "check" ELSE worker_pc[t]]

-----------------------------------------------------------------------------
(* A worker.  At "check" it takes queue_mutex_ and looks at the predicate. *)

(* Fault: the predicate of the wait forgets the stop. *)
PredicateOfTasks == tasks_ # <<>>

Predicate == stop_num_ # 0 \/ tasks_ # <<>>

WorkerWait(t) ==
    /\ worker_pc[t] = "check"
    /\ ~Predicate
    /\ worker_pc' = [worker_pc EXCEPT ![t] = "wait"]
    /\ UNCHANGED <<tasks_, stop_num_, stop_mgr_, workers_, exited_workers_, queue_status_times_,
                   task, mgr_pc, dtor_pc, notifies, finished, refused>>

(* wait may return of its own accord; the predicate is looked at again. *)
SpuriousWakeup(t) ==
    /\ worker_pc[t] = "wait"
    /\ worker_pc' = [worker_pc EXCEPT ![t] = "check"]
    /\ UNCHANGED <<tasks_, stop_num_, stop_mgr_, workers_, exited_workers_, queue_status_times_,
                   task, mgr_pc, dtor_pc, notifies, finished, refused>>

(* Fault: a stop of all is taken for a departure. *)
WorkerLeavesOnAnyStop(t) ==
    /\ worker_pc[t] = "check"
    /\ stop_num_ # 0
    /\ exited_workers_' = exited_workers_ \cup {t}
    /\ stop_num_' = stop_num_ - 1
    /\ worker_pc' = [worker_pc EXCEPT ![t] = "returned"]
    /\ UNCHANGED <<tasks_, stop_mgr_, workers_, queue_status_times_, task, mgr_pc, dtor_pc,
                   notifies, finished, refused>>

(* The pool shrinks: this worker leaves, whatever is queued. *)
WorkerLeaves(t) ==
    /\ worker_pc[t] = "check"
    /\ stop_num_ > 0
    /\ exited_workers_' = exited_workers_ \cup {t}
    /\ stop_num_' = stop_num_ - 1
    /\ worker_pc' = [worker_pc EXCEPT ![t] = "returned"]
    /\ UNCHANGED <<tasks_, stop_mgr_, workers_, queue_status_times_, task, mgr_pc, dtor_pc,
                   notifies, finished, refused>>

(* Fault: the pool stops, whatever is queued. *)
WorkerReturnsAtOnce(t) ==
    /\ worker_pc[t] = "check"
    /\ stop_num_ = THREAD_STOP_ALL
    /\ worker_pc' = [worker_pc EXCEPT ![t] = "returned"]
    /\ UNCHANGED <<tasks_, stop_num_, stop_mgr_, workers_, exited_workers_, queue_status_times_,
                   task, mgr_pc, dtor_pc, notifies, finished, refused>>

(* The pool stops and nothing is queued. *)
WorkerReturns(t) ==
    /\ worker_pc[t] = "check"
    /\ stop_num_ = THREAD_STOP_ALL
    /\ tasks_ = <<>>
    /\ worker_pc' = [worker_pc EXCEPT ![t] = "returned"]
    /\ UNCHANGED <<tasks_, stop_num_, stop_mgr_, workers_, exited_workers_, queue_status_times_,
                   task, mgr_pc, dtor_pc, notifies, finished, refused>>

WorkerTakes(t) ==
    /\ worker_pc[t] = "check"
    /\ stop_num_ <= 0
    /\ tasks_ # <<>>
    /\ task' = [task EXCEPT ![t] = Head(tasks_)]
    /\ tasks_' = Tail(tasks_)
    /\ worker_pc' = [worker_pc EXCEPT ![t] = "run"]
    /\ UNCHANGED <<stop_num_, stop_mgr_, workers_, exited_workers_, queue_status_times_,
                   mgr_pc, dtor_pc, notifies, finished, refused>>

TaskReturns(t) ==
    /\ worker_pc[t] = "run"
    /\ finished' = finished \cup {task[t]}
    /\ task' = [task EXCEPT ![t] = NoTask]
    /\ worker_pc' = [worker_pc EXCEPT ![t] = "check"]
    /\ UNCHANGED <<tasks_, stop_num_, stop_mgr_, workers_, exited_workers_, queue_status_times_,
                   mgr_pc, dtor_pc, notifies, refused>>

-----------------------------------------------------------------------------
(* The manager, which holds mgr_mutex_ except while it waits. *)

MgrStops ==
    /\ mgr_pc = "wait"
    /\ stop_mgr_
    /\ mgr_pc' = "returned"
    /\ UNCHANGED <<tasks_, stop_num_, stop_mgr_, workers_, exited_workers_, queue_status_times_,
                   worker_pc, task, dtor_pc, notifies, finished, refused>>

MgrPeriod ==
    /\ mgr_pc = "wait"
    /\ ~stop_mgr_
    /\ mgr_pc' = "adjust"
    /\ UNCHANGED <<tasks_, stop_num_, stop_mgr_, workers_, exited_workers_, queue_status_times_,
                   worker_pc, task, dtor_pc, notifies, finished, refused>>

(* make_adjust_complete: wait for workers still to leave; join those that have
   left; look at the queue only when there were none. *)
MakeAdjustComplete ==
    /\ mgr_pc = "adjust"
    /\ mgr_pc' = IF stop_num_ <= 0 /\ exited_workers_ = {} THEN "status" ELSE "wait"
    /\ IF stop_num_ > 0
       THEN UNCHANGED <<workers_, exited_workers_, worker_pc>>
       ELSE /\ workers_' = workers_ \ exited_workers_
            /\ exited_workers_' = exited_workers_ \ workers_
            /\ worker_pc' = [t \in Threads |->
                   IF t \in exited_workers_ \cap workers_ THEN "none" ELSE worker_pc[t]]
    /\ UNCHANGED <<tasks_, stop_num_, stop_mgr_, queue_status_times_, task, dtor_pc, notifies,
                   finished, refused>>

(* tasks_.size() is read without queue_mutex_: while a push or a pop may be
   under way, the value is whatever the two ends of the deque give. *)
Racing ==
    \/ \E k \in Tasks : ~Known(k) /\ stop_num_ # THREAD_STOP_ALL
    \/ \E t \in Threads : worker_pc[t] = "check" /\ tasks_ # <<>>

SizeRead == IF Racing THEN 0..(QueueBusyNum + 1) ELSE {Len(tasks_)}

Level(size) ==
    CASE size > QueueBusyNum -> "busy"
      [] size <= QueueBusyNum /\ size < QueueIdleNum -> "idle"
      [] OTHER -> "normal"

(* A counter, which is capped where it stops making a difference. *)
CountUp(n) == IF n < ThreadStatusTimes THEN n + 1 ELSE n

CheckQueueStatus ==
    /\ mgr_pc = "status"
    /\ \E size \in SizeRead :
        /\ queue_status_times_' = [s \in {"busy", "idle"} |->
               IF s = Level(size) THEN CountUp(queue_status_times_[s]) ELSE 0]
        /\ mgr_pc' = IF Level(size) # "normal"
                        /\ CountUp(queue_status_times_[Level(size)]) >= ThreadStatusTimes
                     THEN Level(size) ELSE "wait"
    /\ UNCHANGED <<tasks_, stop_num_, stop_mgr_, workers_, exited_workers_,
                   worker_pc, task, dtor_pc, notifies, finished, refused>>

(* Fault: max_num_ is not looked at. *)
HandleQueueBusyUnbounded ==
    /\ mgr_pc = "busy"
    /\ \E t \in Threads \ workers_ :
        /\ workers_' = workers_ \cup {t}
        /\ worker_pc' = [worker_pc EXCEPT ![t] = "check"]
    /\ mgr_pc' = "wait"
    /\ UNCHANGED <<tasks_, stop_num_, stop_mgr_, exited_workers_, queue_status_times_,
                   task, dtor_pc, notifies, finished, refused>>

(* handle_queue_busy: one more worker, up to max_num_. *)
HandleQueueBusy ==
    /\ mgr_pc = "busy"
    /\ \/ /\ Cardinality(workers_) + THREAD_CHANGE_SETUP <= MaxNum
          /\ \E t \in Threads \ workers_ :
              /\ workers_' = workers_ \cup {t}
              /\ worker_pc' = [worker_pc EXCEPT ![t] = "check"]
       \/ /\ Cardinality(workers_) + THREAD_CHANGE_SETUP > MaxNum
          /\ UNCHANGED <<workers_, worker_pc>>
    /\ mgr_pc' = "wait"
    /\ UNCHANGED <<tasks_, stop_num_, stop_mgr_, exited_workers_, queue_status_times_,
                   task, dtor_pc, notifies, finished, refused>>

(* Fault: the last worker is asked to leave too. *)
RmWorkersToNone == THREAD_CHANGE_SETUP

(* The workers handle_queue_idle asks to leave, in size_t arithmetic. *)
RmWorkers ==
    IF (Cardinality(workers_) - THREAD_CHANGE_SETUP) % SizeT < POOL_MIN_WORKERS
    THEN (Cardinality(workers_) - POOL_MIN_WORKERS) % SizeT
    ELSE THREAD_CHANGE_SETUP

(* handle_queue_idle: one worker fewer, down to POOL_MIN_WORKERS. *)
HandleQueueIdle ==
    /\ mgr_pc = "idle"
    /\ mgr_pc' = IF RmWorkers > 0 THEN "notify" ELSE "wait"
    /\ stop_num_' = IF RmWorkers > 0 /\ stop_num_ = 0 THEN RmWorkers ELSE stop_num_
    /\ UNCHANGED <<tasks_, stop_mgr_, workers_, exited_workers_, queue_status_times_,
                   worker_pc, task, dtor_pc, notifies, finished, refused>>

MgrNotifiesAll ==
    /\ mgr_pc = "notify"
    /\ NotifyAll
    /\ mgr_pc' = "wait"
    /\ UNCHANGED <<tasks_, stop_num_, stop_mgr_, workers_, exited_workers_, queue_status_times_,
                   task, dtor_pc, notifies, finished, refused>>

-----------------------------------------------------------------------------
(* The destructor. *)

(* Fault: the manager is left running. *)
DtorForgetsMgr ==
    /\ dtor_pc = "up"
    /\ dtor_pc' = "stop"
    /\ UNCHANGED <<tasks_, stop_num_, stop_mgr_, workers_, exited_workers_, queue_status_times_,
                   worker_pc, task, mgr_pc, notifies, finished, refused>>

(* With a manager: stop_mgr_ under mgr_mutex_, which the manager lets go of
   only while it waits; without one, on to the workers. *)
DtorBegins ==
    /\ dtor_pc = "up"
    /\ IF Dynamic
       THEN /\ mgr_pc \in {"wait", "returned"}
            /\ stop_mgr_' = TRUE
            /\ dtor_pc' = "join_mgr"
       ELSE /\ dtor_pc' = "stop"
            /\ UNCHANGED stop_mgr_
    /\ UNCHANGED <<tasks_, stop_num_, workers_, exited_workers_, queue_status_times_,
                   worker_pc, task, mgr_pc, notifies, finished, refused>>

DtorJoinsMgr ==
    /\ dtor_pc = "join_mgr"
    /\ mgr_pc = "returned"
    /\ dtor_pc' = "stop"
    /\ UNCHANGED <<tasks_, stop_num_, stop_mgr_, workers_, exited_workers_, queue_status_times_,
                   worker_pc, task, mgr_pc, notifies, finished, refused>>

DtorStopsAll ==
    /\ dtor_pc = "stop"
    /\ stop_num_' = THREAD_STOP_ALL
    /\ dtor_pc' = "notify"
    /\ UNCHANGED <<tasks_, stop_mgr_, workers_, exited_workers_, queue_status_times_,
                   worker_pc, task, mgr_pc, notifies, finished, refused>>

DtorNotifiesAll ==
    /\ dtor_pc = "notify"
    /\ NotifyAll
    /\ dtor_pc' = "join"
    /\ UNCHANGED <<tasks_, stop_num_, stop_mgr_, workers_, exited_workers_, queue_status_times_,
                   task, mgr_pc, notifies, finished, refused>>

DtorJoinsWorkers ==
    /\ dtor_pc = "join"
    /\ \A t \in workers_ : worker_pc[t] = "returned"
    /\ dtor_pc' = "down"
    /\ UNCHANGED <<tasks_, stop_num_, stop_mgr_, workers_, exited_workers_, queue_status_times_,
                   worker_pc, task, mgr_pc, notifies, finished, refused>>

-----------------------------------------------------------------------------
WorkerStep(t) ==
    WorkerWait(t) \/ WorkerLeaves(t) \/ WorkerReturns(t) \/ WorkerTakes(t) \/ TaskReturns(t)

MgrStep ==
    \/ MgrStops
    \/ MgrPeriod
    \/ MakeAdjustComplete
    \/ CheckQueueStatus
    \/ HandleQueueBusy
    \/ HandleQueueIdle
    \/ MgrNotifiesAll

DtorGoesOn == DtorJoinsMgr \/ DtorStopsAll \/ DtorNotifiesAll \/ DtorJoinsWorkers

Next ==
    \/ \E k \in Tasks : Enqueue(k) \/ EnqueueThrows(k)
    \/ NotifyOne
    \/ \E t \in Threads : WorkerStep(t) \/ SpuriousWakeup(t)
    \/ MgrStep
    \/ DtorBegins
    \/ DtorGoesOn

Spec == Init /\ [][Next]_vars

(* The threads are scheduled, and the tasks return; nobody has to enqueue or
   to destroy the pool.  Strong fairness of WorkerTakes: the manager acts once
   in THREAD_MGR_TIMEOUT_S seconds, so it does not for ever send away, one
   after the other, each worker that was about to take a task. *)
Fairness ==
    /\ WF_vars(NotifyOne)
    /\ \A t \in Threads : WF_vars(WorkerStep(t))
    /\ SF_vars(\E t \in Threads : WorkerTakes(t))
    /\ WF_vars(MgrStep)
    /\ WF_vars(DtorGoesOn)

FairSpec == Spec /\ Fairness

-----------------------------------------------------------------------------
(* The properties. *)

Checking == {t \in Threads : worker_pc[t] = "check"}

ToLeave == IF stop_num_ > 0 THEN stop_num_ ELSE 0

(* While a worker sleeps, each queued task and each departure asked for has a
   worker awake for it or a notify still to come: the condition variable,
   notified after the unlock and shared by tasks and departures, loses none.
   Once the destructor joins, nobody sleeps. *)
NoLostWakeup ==
    /\ Waiting # {} /\ mgr_pc # "notify" =>
           Len(tasks_) + ToLeave <= notifies + Cardinality(Checking)
    /\ dtor_pc = "join" => Waiting = {}

(* Growing and shrinking keep the pool between POOL_MIN_WORKERS workers that
   stay and max_num_ threads, however the unlocked size reads went. *)
WorkersBounded ==
    /\ Cardinality(workers_) <= MaxNum
    /\ Cardinality(workers_ \ exited_workers_) >= POOL_MIN_WORKERS + ToLeave

(* "Join the manager first, so that it does not adjust the pool after the
   workers left": a stop of all is for good, and the list is let alone. *)
StopIsFinal ==
    [][stop_num_ = THREAD_STOP_ALL =>
          /\ stop_num_' = THREAD_STOP_ALL
          /\ workers_' = workers_
          /\ exited_workers_' = exited_workers_]_vars

(* The pool keeps its promises about tasks: accepted ones run, in order, once,
   and all of them before the destructor returns. *)
Promise == INSTANCE TaskPool WITH
    running <- Running,
    stopped <- stop_num_ = THREAD_STOP_ALL,
    gone <- dtor_pc = "down"

PoolSpec == Promise!Spec

(* A queued task runs to its end, whatever the manager does to the pool. *)
EveryTaskRuns == \A k \in Tasks : k \in Queued ~> k \in finished

(* The destructor, once called, returns. *)
DtorReturns == dtor_pc # "up" ~> dtor_pc = "down"
=============================================================================
