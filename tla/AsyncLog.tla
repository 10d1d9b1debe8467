------------------------------ MODULE AsyncLog ------------------------------
(***************************************************************************)
(* Logging (init_log, SPDLOG_INFO, SPDLOG_ERROR): the threads of the       *)
(* server post lines to mpmc_blocking_queue, a bounded circular_q under a  *)
(* mutex with two condition variables, and wait while it is full; one      *)
(* thread takes them out and hands them to the RotatingSink.  At exit,     *)
(* when the loops have been joined, ~thread_pool posts a terminate message *)
(* and joins that thread.                                                  *)
(*                                                                         *)
(* The grain is the critical section; a notify comes after the unlock and  *)
(* is a step of its own.                                                   *)
(***************************************************************************)
EXTENDS RotatingSink, FiniteSets

CONSTANTS
    Threads,     \* the threads that log: the loops and the main thread
    Main,        \* the main thread, which runs ~thread_pool
    QueueSize,   \* default_async_q_size
    MaxLines,    \* bound: lines ever logged
    Terminate    \* the message async_msg_type::terminate

ASSUME AsyncLogAssumption ==
    /\ Main \in Threads
    /\ IsFiniteSet(Threads)
    /\ QueueSize \in Nat \ {0}
    /\ MaxLines \in Nat
    /\ Terminate \notin Line \cup {NoLine}

VARIABLES
    v_,             \* the slots of circular_q
    head_,
    tail_,
    overrun_counter_,
    log_pc,         \* where each thread stands in its log call
    dtor_pc,        \* where ~thread_pool stands, "up" before it
    posted          \* lines pushed so far

queueVars == <<v_, head_, tail_, overrun_counter_>>
vars == <<sinkVars, queueVars, log_pc, dtor_pc, posted>>

(* One slot is reserved as the mark of a full queue. *)
max_items_ == QueueSize + 1

Slots == 0..QueueSize

TypeOK ==
    /\ SinkTypeOK
    /\ worker_pc = "notify" => cur \in Line \cup {Terminate}
    /\ v_ \in [Slots -> Line \cup {Terminate, NoLine}]
    /\ head_ \in Slots
    /\ tail_ \in Slots
    /\ overrun_counter_ \in Nat
    /\ log_pc \in [Threads -> {"idle", "post", "wait", "notify"}]
    /\ dtor_pc \in {"up", "post", "join", "down"}
    /\ posted \in Nat

Init ==
    /\ SinkInit
    /\ v_ = [i \in Slots |-> NoLine]
    /\ head_ = 0
    /\ tail_ = 0
    /\ overrun_counter_ = 0
    /\ log_pc = [t \in Threads |-> "idle"]
    /\ dtor_pc = "up"
    /\ posted = 0

-----------------------------------------------------------------------------
(* circular_q *)

(* Fault: the index does not come round. *)
AfterUnwrapped(i) == i + 1

After(i) == (i + 1) % max_items_

QueueEmpty == tail_ = head_

QueueFull == After(tail_) = head_

(* A queue that was full would lose its oldest message. *)
PushBack(item) ==
    /\ v_' = [v_ EXCEPT ![tail_] = item]
    /\ tail_' = After(tail_)
    /\ IF After(tail_) = head_
       THEN /\ head_' = After(head_)
            /\ overrun_counter_' = overrun_counter_ + 1
       ELSE UNCHANGED <<head_, overrun_counter_>>

(* The front is moved out of its slot. *)
PopFront ==
    /\ v_' = [v_ EXCEPT ![head_] = NoLine]
    /\ head_' = After(head_)
    /\ UNCHANGED <<tail_, overrun_counter_>>

Size == IF tail_ >= head_ THEN tail_ - head_ ELSE max_items_ - (head_ - tail_)

(* How far behind the front a slot is; which slots hold a message. *)
Pos(i) == IF head_ <= i THEN i - head_ ELSE i + max_items_ - head_

Occupied == {i \in Slots : Pos(i) < Size}

-----------------------------------------------------------------------------
(* The threads that log. *)

Posting == Cardinality({t \in Threads : log_pc[t] \in {"post", "wait"}})

(* logger::log_ to post_log: only while the pool exists. *)
LogCall(t) ==
    /\ log_pc[t] = "idle"
    /\ dtor_pc = "up"
    /\ posted + Posting < MaxLines
    /\ log_pc' = [log_pc EXCEPT ![t] = "post"]
    /\ UNCHANGED <<sinkVars, queueVars, dtor_pc, posted>>

(* enqueue finds room: a line, or the destructor's terminate message. *)
Enqueue(t) ==
    /\ log_pc[t] = "post"
    /\ ~QueueFull
    /\ \/ /\ dtor_pc = "up"
          /\ posted' = posted + 1
          /\ \E size \in LineSizes : PushBack([id |-> posted + 1, size |-> size])
       \/ /\ dtor_pc # "up"
          /\ PushBack(Terminate)
          /\ UNCHANGED posted
    /\ log_pc' = [log_pc EXCEPT ![t] = "notify"]
    /\ UNCHANGED <<sinkVars, dtor_pc>>

EnqueueWait(t) ==
    /\ log_pc[t] = "post"
    /\ QueueFull
    /\ log_pc' = [log_pc EXCEPT ![t] = "wait"]
    /\ UNCHANGED <<sinkVars, queueVars, dtor_pc, posted>>

(* Fault: no notify. *)
NotifyPushNobody(t) ==
    /\ log_pc[t] = "notify"
    /\ log_pc' = [log_pc EXCEPT ![t] = "idle"]
    /\ UNCHANGED <<sinkVars, queueVars, dtor_pc, posted>>

(* push_cv_.notify_one; the log call returns. *)
NotifyPush(t) ==
    /\ log_pc[t] = "notify"
    /\ log_pc' = [log_pc EXCEPT ![t] = "idle"]
    /\ worker_pc' = IF worker_pc = "wait" THEN "check" ELSE worker_pc
    /\ UNCHANGED <<cur, files, fd_open, stdio, current_size_, new_size, rot_i, faults,
                   queueVars, dtor_pc, posted>>

Waiting == {t \in Threads : log_pc[t] = "wait"}

(* A wait may return of its own accord. *)
SpuriousWake(t) ==
    /\ log_pc[t] = "wait"
    /\ log_pc' = [log_pc EXCEPT ![t] = "post"]
    /\ UNCHANGED <<sinkVars, queueVars, dtor_pc, posted>>

SpuriousWakeWorker ==
    /\ worker_pc = "wait"
    /\ worker_pc' = "check"
    /\ UNCHANGED <<cur, files, fd_open, stdio, current_size_, new_size, rot_i, faults,
                   queueVars, log_pc, dtor_pc, posted>>

-----------------------------------------------------------------------------
(* The logging thread, outside the sink. *)

(* Fault: notify only if the queue was full. *)
DequeueNotifiesFull ==
    /\ worker_pc = "check"
    /\ ~QueueEmpty
    /\ cur' = v_[head_]
    /\ PopFront
    /\ worker_pc' = IF QueueFull \/ v_[head_] = Terminate THEN "notify" ELSE "sink"
    /\ UNCHANGED <<files, fd_open, stdio, current_size_, new_size, rot_i, faults,
                   log_pc, dtor_pc, posted>>

Dequeue ==
    /\ worker_pc = "check"
    /\ ~QueueEmpty
    /\ cur' = v_[head_]
    /\ PopFront
    /\ worker_pc' = "notify"
    /\ UNCHANGED <<files, fd_open, stdio, current_size_, new_size, rot_i, faults,
                   log_pc, dtor_pc, posted>>

DequeueWait ==
    /\ worker_pc = "check"
    /\ QueueEmpty
    /\ worker_pc' = "wait"
    /\ UNCHANGED <<cur, files, fd_open, stdio, current_size_, new_size, rot_i, faults,
                   queueVars, log_pc, dtor_pc, posted>>

(* Fault: no notify. *)
NotifyPopNobody ==
    /\ worker_pc = "notify"
    /\ IF cur = Terminate
       THEN worker_pc' = "ended" /\ cur' = NoLine
       ELSE worker_pc' = "sink" /\ UNCHANGED cur
    /\ UNCHANGED <<files, fd_open, stdio, current_size_, new_size, rot_i, faults,
                   queueVars, log_pc, dtor_pc, posted>>

(* pop_cv_.notify_one, then process_next_msg_ looks at the message. *)
NotifyPop ==
    /\ worker_pc = "notify"
    /\ \/ \E t \in Waiting : log_pc' = [log_pc EXCEPT ![t] = "post"]
       \/ Waiting = {} /\ UNCHANGED log_pc
    /\ IF cur = Terminate
       THEN worker_pc' = "ended" /\ cur' = NoLine
       ELSE worker_pc' = "sink" /\ UNCHANGED cur
    /\ UNCHANGED <<files, fd_open, stdio, current_size_, new_size, rot_i, faults,
                   queueVars, dtor_pc, posted>>

Sink == SinkStep /\ UNCHANGED <<queueVars, log_pc, dtor_pc, posted>>

WorkerStep == Dequeue \/ DequeueWait \/ NotifyPop \/ Sink

-----------------------------------------------------------------------------
(* Fault: the thread is joined without being told to end. *)
DtorBeginJoins ==
    /\ dtor_pc = "up"
    /\ \A t \in Threads : log_pc[t] = "idle"
    /\ dtor_pc' = "join"
    /\ UNCHANGED <<sinkVars, queueVars, log_pc, posted>>

(* The end: the server is destroyed, so its loops are joined and only the
   main thread is left, which destroys the registry and with it the pool. *)
DtorBegin ==
    /\ dtor_pc = "up"
    /\ \A t \in Threads : log_pc[t] = "idle"
    /\ dtor_pc' = "post"
    /\ log_pc' = [log_pc EXCEPT ![Main] = "post"]
    /\ UNCHANGED <<sinkVars, queueVars, posted>>

DtorPosted ==
    /\ dtor_pc = "post"
    /\ log_pc[Main] = "idle"
    /\ dtor_pc' = "join"
    /\ UNCHANGED <<sinkVars, queueVars, log_pc, posted>>

(* The thread is joined; the sink goes too, and its file is closed. *)
DtorJoin ==
    /\ dtor_pc = "join"
    /\ worker_pc = "ended"
    /\ dtor_pc' = "down"
    /\ files' = Flushed
    /\ stdio' = Empty
    /\ fd_open' = FALSE
    /\ UNCHANGED <<worker_pc, cur, current_size_, new_size, rot_i, faults,
                   queueVars, log_pc, posted>>

(* The process starts anew. *)
Started ==
    /\ SinkRestart
    /\ v_' = [i \in Slots |-> NoLine]
    /\ head_' = 0
    /\ tail_' = 0
    /\ overrun_counter_' = 0
    /\ log_pc' = [t \in Threads |-> "idle"]
    /\ dtor_pc' = "up"
    /\ UNCHANGED posted

Restart == dtor_pc = "down" /\ Started /\ UNCHANGED faults

(* It is killed, wherever its threads stand, and started again. *)
Crash == dtor_pc # "down" /\ Fault /\ Started

-----------------------------------------------------------------------------
ThreadStep(t) == LogCall(t) \/ Enqueue(t) \/ EnqueueWait(t) \/ NotifyPush(t)

DtorStep == DtorPosted \/ DtorJoin

Next ==
    \/ \E t \in Threads : ThreadStep(t) \/ SpuriousWake(t)
    \/ WorkerStep
    \/ SpuriousWakeWorker
    \/ DtorBegin
    \/ DtorStep
    \/ Restart
    \/ Crash

Spec == Init /\ [][Next]_vars

(* The kernel schedules the threads, and a system call returns.  Nobody is
   assumed to log, to end the server, or to fail. *)
Fairness ==
    /\ \A t \in Threads : WF_vars(Enqueue(t) \/ EnqueueWait(t) \/ NotifyPush(t))
    /\ WF_vars(WorkerStep)
    /\ WF_vars(DtorStep)

FairSpec == Spec /\ Fairness

-----------------------------------------------------------------------------
(* Neither side sleeps while there is something for it to do and nobody about
   to tell it: the logging thread on lines, nor a thread of the server on room
   -- the mutex is released before the notify (mpmc_blocking_q.h:37, 89), and
   any number of threads may be waiting for the one that is woken. *)
NoLostWakeup ==
    /\ worker_pc = "wait" /\ ~QueueEmpty => \E t \in Threads : log_pc[t] = "notify"
    /\ Waiting # {} =>
           QueueSize - Size <= Cardinality({t \in Threads : log_pc[t] = "post"})
                                 + (IF worker_pc = "notify" THEN 1 ELSE 0)

Increasing(s) == \A i, j \in 1..Len(s) : i < j => s[i] < s[j]

(* Read from the file of the highest number to the current one, the lines are
   in the order in which they were logged and none comes twice, at any moment:
   in the middle of a rotation, after failed renames, after a crash in one. *)
FilesInOrder ==
    /\ Increasing(stdio.lines)
    /\ \A i \in DOMAIN files :
        /\ Increasing(files[i].lines)
        /\ \A m \in Ids(files[i]), n \in Ids(stdio) : m < n
        /\ \A j \in DOMAIN files : j < i => \A m \in Ids(files[i]), n \in Ids(files[j]) : m < n

(* No file grows beyond max_size_ by the lines written to it, whatever fails:
   current_size_ is never less than what is in the file and on its way there.
   A piece of a line that a failing fwrite may leave behind is not counted,
   here or in current_size_. *)
FilesBounded ==
    \A i \in DOMAIN files :
        files[i].size + (IF i = 0 THEN stdio.size ELSE 0) <= MaxSize

InHand == IF worker_pc \in SinkPc \cup {"notify"} /\ cur \in Line THEN {cur.id} ELSE {}

Queued == {v_[i].id : i \in {k \in Occupied : v_[k] \in Line}}

Written == UNION {Ids(files[i]) : i \in DOMAIN files}

Keeper == INSTANCE LogKeeper WITH
    accepted <- posted,
    pending <- Queued \cup InHand,
    kept <- Written \cup Ids(stdio),
    faulty <- faults > 0,
    closed <- dtor_pc = "down"

(* Queue, thread and files together keep the promise of LogKeeper. *)
KeeperSpec == Keeper!Spec

(* A line that is queued comes out of the queue and through the sink. *)
LinesHandled ==
    \A m \in 1..MaxLines : (m \in Queued) ~> (m \notin Queued \cup InHand)

(* A thread that found the queue full gets its message in, however often it
   wakes to a queue that is full again, or the process dies: the block policy
   holds a thread up while the disk takes lines, and while others overtake it,
   which the bound on lines ends and a server that goes on logging need not. *)
LogReturns ==
    \A t \in Threads : (log_pc[t] = "wait") ~> (log_pc[t] \in {"idle", "notify"})

(* The end of the process does not hang on its log. *)
DtorReturns == (dtor_pc \in {"post", "join"}) ~> (dtor_pc \in {"down", "up"})
=============================================================================
