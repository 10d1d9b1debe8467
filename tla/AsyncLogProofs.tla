--------------------------- MODULE AsyncLogProofs ---------------------------
(***************************************************************************)
(* Proofs about the log, for any number of threads, any size of the queue  *)
(* and of the files, any number of files and of faults.                    *)
(***************************************************************************)
EXTENDS AsyncLog, FiniteSetTheorems, SequenceTheorems, TLAPS

USE RotatingSinkAssumption, AsyncLogAssumption

-----------------------------------------------------------------------------
(* The circular queue. *)

LEMMA AfterIs ==
    ASSUME NEW i \in Slots
    PROVE  /\ After(i) = IF i = QueueSize THEN 0 ELSE i + 1
           /\ After(i) \in Slots
<1>1. i \in Nat /\ i <= QueueSize /\ QueueSize \in Nat BY DEF Slots
<1>2. CASE i = QueueSize
  <2>1. (i + 1) % (QueueSize + 1) = 0 BY <1>1, <1>2
  <2> QED BY <2>1, <1>1, <1>2 DEF After, Slots, max_items_
<1>3. CASE i # QueueSize
  <2>1. (i + 1) % (QueueSize + 1) = i + 1 BY <1>1, <1>3
  <2> QED BY <2>1, <1>1, <1>3 DEF After, Slots, max_items_
<1> QED BY <1>2, <1>3

LEMMA PushBackType ==
    ASSUME TypeOK, NEW item \in Line \cup {Terminate}, PushBack(item)
    PROVE  /\ v_' \in [Slots -> Line \cup {Terminate, NoLine}]
           /\ head_' \in Slots
           /\ tail_' \in Slots
           /\ overrun_counter_' \in Nat
BY AfterIs DEF TypeOK, PushBack

LEMMA PopFrontType ==
    ASSUME TypeOK, PopFront
    PROVE  /\ v_' \in [Slots -> Line \cup {Terminate, NoLine}]
           /\ head_' \in Slots
           /\ tail_' \in Slots
           /\ overrun_counter_' \in Nat
BY AfterIs DEF TypeOK, PopFront

-----------------------------------------------------------------------------
(* Types. *)

LEMMA LineIs ==
    ASSUME NEW l \in Line
    PROVE  l.id \in Nat /\ l.size \in 1..MaxSize /\ l # NoLine /\ l # Terminate
<1>1. l.id \in Nat /\ l.size \in LineSizes BY DEF Line
<1>2. l.size \in 1..MaxSize BY <1>1
<1>3. l \in [id : Nat, size : Nat]
  <2>1. l = [id |-> l.id, size |-> l.size] BY DEF Line
  <2> QED BY <1>1, <1>2, <2>1
<1>4. l # NoLine BY <1>3
<1> QED BY <1>1, <1>2, <1>4

LEMMA TextOps ==
    ASSUME NEW t \in Text, NEW u \in Text, NEW l \in Line
    PROVE  /\ Empty \in Text
           /\ WithLine(t, l) \in Text
           /\ Joined(t, u) \in Text
BY LineIs DEF Text, Empty, WithLine, Joined

FilesOK(f) ==
    /\ DOMAIN f \subseteq 0..MaxFiles
    /\ \A i \in DOMAIN f : f[i] \in Text

LEMMA EmptyText == Empty \in Text
BY DEF Text, Empty

LEMMA FileOps ==
    ASSUME NEW f, FilesOK(f)
    PROVE  /\ FilesOK(Opened(f))
           /\ FilesOK(Truncated(f))
           /\ \A i : FilesOK(Without(f, i))
           /\ \A src \in DOMAIN f, target \in 0..MaxFiles : FilesOK(Renamed(f, src, target))
BY EmptyText DEF FilesOK, Opened, Truncated, Without, Renamed

LEMMA FlushedType ==
    ASSUME SinkTypeOK, fd_open => 0 \in DOMAIN files
    PROVE  FilesOK(Flushed) /\ DOMAIN Flushed = DOMAIN files
<1>1. CASE fd_open
  <2>1. files[0] \in Text /\ stdio \in Text BY <1>1 DEF SinkTypeOK
  <2>2. Joined(files[0], stdio) \in Text BY <2>1 DEF Joined, Text
  <2>3. Flushed = [i \in DOMAIN files |-> IF i = 0 THEN Joined(files[0], stdio) ELSE files[i]]
    BY <1>1 DEF Flushed
  <2> QED BY <2>2, <2>3 DEF FilesOK, SinkTypeOK
<1>2. CASE ~fd_open BY <1>2 DEF Flushed, FilesOK, SinkTypeOK
<1> QED BY <1>1, <1>2

(* Where the sink stands in a rotation, and what is open there. *)
Rotating == worker_pc \in {"remove", "rename", "reopen"}

StageOK ==
    /\ fd_open => 0 \in DOMAIN files
    /\ ~fd_open => stdio = Empty
    /\ Rotating => ~fd_open
    /\ ~fd_open /\ ~Rotating /\ dtor_pc # "down" => faults > 0
    /\ worker_pc \in {"remove", "rename"} =>
          /\ 0 \in DOMAIN files
          /\ files[0].size > 0
          /\ rot_i < MaxFiles => rot_i \notin DOMAIN files
    /\ worker_pc = "rename" => rot_i - 1 \in DOMAIN files /\ rot_i \notin DOMAIN files
    /\ worker_pc = "reopen" => 0 \notin DOMAIN files

LEMMA SinkStepType == ASSUME TypeOK, StageOK, Sink PROVE TypeOK'
<1> USE DEF TypeOK, SinkTypeOK, SinkPc
<1>f. /\ FilesOK(files)
      /\ FilesOK(Flushed)
      /\ DOMAIN Flushed = DOMAIN files
  BY FlushedType DEF FilesOK, StageOK
<1>t. FilesOK(Truncated(files)) BY <1>f, FileOps
<1>q. UNCHANGED <<v_, head_, tail_, overrun_counter_, log_pc, dtor_pc, posted>>
  BY DEF Sink, queueVars
<1> SUFFICES SinkTypeOK' /\ (worker_pc' # "notify") BY <1>q
<1>1. CASE SinkFits
  <2>1. cur \in Line BY <1>1 DEF SinkFits
  <2> QED BY <1>1, <2>1, LineIs DEF SinkFits
<1>2. CASE SinkFull
  <2>1. cur \in Line /\ cur.size \in Nat /\ 0 \in DOMAIN files BY <1>2, LineIs DEF SinkFull, StageOK
  <2>2. FilesOK(files') BY <1>2, <1>f DEF SinkFull
  <2>3. new_size' \in Nat
    <3>1. new_size' = cur.size \/ new_size' = current_size_ + cur.size BY <1>2 DEF SinkFull
    <3> QED BY <2>1, <3>1
  <2>4. worker_pc' \in {"remove", "write"} /\ cur' = cur BY <1>2 DEF SinkFull
  <2>5. rot_i' \in 0..MaxFiles /\ (worker_pc' = "remove" => rot_i' >= 1)
    <3>1. CASE Flushed[0].size > 0
      <4>1. rot_i' = MaxFiles BY <1>2, <3>1 DEF SinkFull
      <4>2. MaxFiles \in Nat /\ MaxFiles >= 1 OBVIOUS
      <4> QED BY <4>1, <4>2
    <3>2. CASE ~(Flushed[0].size > 0) BY <1>2, <3>2 DEF SinkFull
    <3> QED BY <3>1, <3>2
  <2>6. fd_open' \in BOOLEAN BY <1>2 DEF SinkFull
  <2>7. stdio' \in Text /\ UNCHANGED <<current_size_, faults>> BY <1>2, EmptyText DEF SinkFull
  <2> QED BY <2>1, <2>2, <2>3, <2>4, <2>5, <2>6, <2>7 DEF FilesOK
<1>3. CASE SinkFullThrows BY <1>3 DEF SinkFullThrows, Fault, Dropped
<1>4. CASE RotateSkip BY <1>4 DEF RotateSkip
<1>5. CASE RemoveTarget
  <2>1. FilesOK(files') BY <1>5, <1>f, FileOps DEF RemoveTarget
  <2> QED BY <1>5, <2>1 DEF RemoveTarget, FilesOK
<1>6. CASE Rename
  <2>1. FilesOK(files') BY <1>6, <1>f, FileOps DEF Rename, StageOK
  <2> QED BY <1>6, <2>1 DEF Rename, FilesOK
<1>7. CASE RenameFails
  <2>1. FilesOK(files') BY <1>7, <1>f, <1>t DEF RenameFails
  <2>2. fd_open' \in BOOLEAN BY <1>7, Zenon DEF RenameFails
  <2>5. current_size_' \in Nat BY <1>7 DEF RenameFails
  <2>3. stdio' = stdio /\ new_size' = new_size /\ rot_i' = rot_i BY <1>7 DEF RenameFails
  <2>4. Fault /\ Dropped BY <1>7, Zenon DEF RenameFails
  <2> QED BY <2>1, <2>2, <2>3, <2>4, <2>5 DEF FilesOK, Fault, Dropped
<1>8. CASE Reopen
  <2>1. FilesOK(files') BY <1>8, <1>t DEF Reopen
  <2> QED BY <1>8, <2>1 DEF Reopen, FilesOK
<1>9. CASE ReopenFails
  <2>1. FilesOK(files') BY <1>9, <1>f, <1>t DEF ReopenFails
  <2> QED BY <1>9, <2>1 DEF ReopenFails, FilesOK, Fault, Dropped
<1>10. CASE Write
  <2>1. stdio' \in Text BY <1>10, TextOps DEF Write
  <2> QED BY <1>10, <2>1 DEF Write
<1>11. CASE WriteFails BY <1>11 DEF WriteFails, Fault, Dropped
<1>12. CASE Flush
  <2>1. FilesOK(files') BY <1>12, <1>f DEF Flush
  <2> QED BY <1>12, <2>1, EmptyText DEF Flush, FilesOK
<1>13. CASE FlushFails BY <1>13 DEF FlushFails, Fault
<1> QED BY <1>1, <1>2, <1>3, <1>4, <1>5, <1>6, <1>7, <1>8, <1>9, <1>10, <1>11, <1>12, <1>13
        DEF Sink, SinkStep

LEMMA ThreadStepType ==
    ASSUME TypeOK, NEW t \in Threads, ThreadStep(t) \/ SpuriousWake(t)
    PROVE  TypeOK'
<1>1. CASE LogCall(t) BY <1>1 DEF LogCall, TypeOK, SinkTypeOK, sinkVars, queueVars
<1>2. CASE Enqueue(t)
  <2>1. PICK item \in Line \cup {Terminate} : PushBack(item)
    <3>1. CASE dtor_pc = "up"
      <4>1. PICK size \in LineSizes : PushBack([id |-> posted + 1, size |-> size])
        BY <1>2, <3>1 DEF Enqueue
      <4>2. [id |-> posted + 1, size |-> size] \in Line BY DEF TypeOK, Line
      <4> QED BY <4>1, <4>2
    <3>2. CASE dtor_pc # "up" BY <1>2, <3>2 DEF Enqueue
    <3> QED BY <3>1, <3>2
  <2>2. UNCHANGED <<sinkVars, dtor_pc>> /\ log_pc' = [log_pc EXCEPT ![t] = "notify"]
    BY <1>2 DEF Enqueue
  <2>3. posted' \in Nat BY <1>2 DEF Enqueue, TypeOK
  <2> QED BY <2>1, <2>2, <2>3, PushBackType DEF TypeOK, SinkTypeOK, sinkVars
<1>3. CASE EnqueueWait(t) BY <1>3 DEF EnqueueWait, TypeOK, SinkTypeOK, sinkVars, queueVars
<1>4. CASE NotifyPush(t) BY <1>4 DEF NotifyPush, TypeOK, SinkTypeOK, SinkPc, queueVars
<1>5. CASE SpuriousWake(t) BY <1>5 DEF SpuriousWake, TypeOK, SinkTypeOK, sinkVars, queueVars
<1> QED BY <1>1, <1>2, <1>3, <1>4, <1>5 DEF ThreadStep

LEMMA StartedType == ASSUME TypeOK, Started, faults' \in 0..MaxFaults PROVE TypeOK'
<1>1. FilesOK(Opened(files)) /\ 0 \in DOMAIN Opened(files)
  BY FileOps DEF TypeOK, SinkTypeOK, FilesOK, Opened
<1>2. Opened(files)[0].size \in Nat BY <1>1 DEF FilesOK, Text
<1>3. /\ v_' \in [Slots -> Line \cup {Terminate, NoLine}]
      /\ head_' \in Slots
      /\ tail_' \in Slots
      /\ overrun_counter_' \in Nat
      /\ log_pc' \in [Threads -> {"idle", "post", "wait", "notify"}]
      /\ dtor_pc' = "up"
      /\ posted' \in Nat
  BY DEF Started, TypeOK, Slots
<1>4. /\ worker_pc' = "check"
      /\ cur' = NoLine
      /\ FilesOK(files')
      /\ fd_open' = TRUE
      /\ stdio' = Empty
      /\ current_size_' \in Nat
      /\ new_size' = 0
      /\ rot_i' = 0
  BY <1>1, <1>2 DEF Started, SinkRestart
<1>5. SinkTypeOK' BY <1>4, EmptyText DEF SinkTypeOK, SinkPc, FilesOK
<1> QED BY <1>3, <1>4, <1>5 DEF TypeOK

(* Whether the terminate message has been posted; what is in the queue and in
   the thread's hands before and after. *)
Ending == dtor_pc # "up" /\ ~(dtor_pc = "post" /\ log_pc[Main] \in {"post", "wait"})

QueueOK ==
    /\ \A i \in Occupied : v_[i] \in Line \cup {Terminate}
    /\ \A i \in Occupied : v_[i] = Terminate => Pos(i) = Size - 1
    /\ ~Ending => \A i \in Occupied : v_[i] # Terminate
    /\ ~Ending => cur # Terminate /\ worker_pc # "ended"
    /\ cur = Terminate \/ worker_pc = "ended" => QueueEmpty
    /\ dtor_pc # "up" => \A t \in Threads \ {Main} : log_pc[t] = "idle"
    /\ dtor_pc \in {"join", "down"} => log_pc[Main] = "idle"
    /\ dtor_pc = "down" => worker_pc = "ended"

LEMMA FrontOccupied ==
    ASSUME TypeOK
    PROVE  /\ QueueEmpty <=> Occupied = {}
           /\ QueueEmpty <=> Size = 0
           /\ ~QueueEmpty => head_ \in Occupied /\ Pos(head_) = 0
           /\ Size \in 0..QueueSize
           /\ QueueFull <=> Size = QueueSize
           /\ \A i \in Slots : Pos(i) \in 0..QueueSize
<1>1. head_ \in Slots /\ tail_ \in Slots BY DEF TypeOK
<1>2. After(tail_) = IF tail_ = QueueSize THEN 0 ELSE tail_ + 1 BY AfterIs, <1>1
<1>3. Size \in 0..QueueSize /\ (QueueEmpty <=> Size = 0) /\ (QueueFull <=> Size = QueueSize)
  BY <1>1, <1>2 DEF Size, Slots, QueueEmpty, QueueFull, max_items_
<1>4. \A i \in Slots : Pos(i) \in 0..QueueSize BY <1>1 DEF Pos, Slots, max_items_
<1>5. Pos(head_) = 0 BY <1>1 DEF Pos, Slots
<1> QED BY <1>1, <1>3, <1>4, <1>5 DEF Occupied

(* How the positions move. *)
LEMMA PopFrontQueue ==
    ASSUME TypeOK, PopFront, ~QueueEmpty
    PROVE  /\ Size' = Size - 1
           /\ Occupied' = Occupied \ {head_}
           /\ \A i \in Occupied' : Pos(i)' = Pos(i) - 1 /\ v_'[i] = v_[i]
<1>1. head_ \in Slots /\ tail_ \in Slots BY DEF TypeOK
<1>2. head_' = (IF head_ = QueueSize THEN 0 ELSE head_ + 1) /\ tail_' = tail_
  BY <1>1, AfterIs DEF PopFront
<1>3. Size' = Size - 1 BY <1>1, <1>2 DEF Size, Slots, QueueEmpty, max_items_
<1>4. \A i \in Slots : Pos(i)' = IF i = head_ THEN QueueSize ELSE Pos(i) - 1
  BY <1>1, <1>2 DEF Pos, Slots, max_items_
<1>5. Size \in 0..QueueSize /\ \A i \in Slots : Pos(i) \in 0..QueueSize BY FrontOccupied
<1>6. Occupied' = {i \in Slots : Pos(i)' < Size'} BY DEF Occupied
<1>7. ASSUME NEW i \in Slots PROVE (Pos(i)' < Size') <=> (Pos(i) < Size /\ i # head_)
  BY <1>3, <1>4, <1>5, <1>7
<1>8. Occupied' = Occupied \ {head_} BY <1>6, <1>7 DEF Occupied
<1>9. ASSUME NEW i \in Occupied' PROVE Pos(i)' = Pos(i) - 1 /\ v_'[i] = v_[i]
  <2>1. i \in Slots /\ i # head_ BY <1>8, <1>9 DEF Occupied
  <2> QED BY <2>1, <1>4 DEF PopFront, TypeOK
<1> QED BY <1>3, <1>8, <1>9

LEMMA PushBackQueue ==
    ASSUME TypeOK, NEW item \in Line \cup {Terminate}, PushBack(item), ~QueueFull
    PROVE  /\ Size' = Size + 1
           /\ tail_ \notin Occupied
           /\ Occupied' = Occupied \cup {tail_}
           /\ \A i \in Slots : Pos(i)' = Pos(i)
           /\ Pos(tail_) = Size
           /\ v_'[tail_] = item
           /\ \A i \in Occupied : v_'[i] = v_[i]
<1>1. head_ \in Slots /\ tail_ \in Slots BY DEF TypeOK
<1>2. tail_' = (IF tail_ = QueueSize THEN 0 ELSE tail_ + 1) /\ head_' = head_
  BY <1>1, AfterIs DEF PushBack, QueueFull
<1>3. Size' = Size + 1
  <2>1. tail_' # head_ BY DEF PushBack, QueueFull
  <2> QED BY <1>1, <1>2, <2>1 DEF Size, Slots, max_items_
<1>4. \A i \in Slots : Pos(i)' = Pos(i) BY <1>2 DEF Pos
<1>5. Pos(tail_) = Size BY <1>1 DEF Pos, Size, Slots, max_items_
<1>6. Size \in 0..QueueSize /\ \A i \in Slots : Pos(i) \in 0..QueueSize BY FrontOccupied
<1>7. ASSUME NEW i \in Slots, Pos(i) = Size PROVE i = tail_
  BY <1>1, <1>7, <1>6 DEF Pos, Size, Slots, max_items_
<1>8. Occupied' = {i \in Slots : Pos(i) < Size + 1} BY <1>3, <1>4 DEF Occupied
<1>9. ASSUME NEW i \in Slots PROVE (Pos(i) < Size + 1) <=> (Pos(i) < Size \/ i = tail_)
  BY <1>1, <1>5, <1>6, <1>7
<1>10. Occupied' = Occupied \cup {tail_} BY <1>1, <1>8, <1>9 DEF Occupied
<1>11. tail_ \notin Occupied BY <1>5, <1>6 DEF Occupied
<1>12. v_'[tail_] = item /\ \A i \in Occupied : v_'[i] = v_[i]
  BY <1>1, <1>11 DEF PushBack, TypeOK, Occupied
<1> QED BY <1>3, <1>4, <1>5, <1>10, <1>11, <1>12

LEMMA OtherStepType ==
    ASSUME TypeOK, StageOK, QueueOK,
           Dequeue \/ DequeueWait \/ NotifyPop \/ SpuriousWakeWorker \/ DtorBegin \/ DtorStep
             \/ Restart \/ Crash
    PROVE  TypeOK'
<1>1. CASE Dequeue
  <2>1. v_[head_] \in Line \cup {Terminate} BY <1>1, FrontOccupied DEF Dequeue, QueueOK
  <2> QED BY <1>1, <2>1, PopFrontType DEF Dequeue, TypeOK, SinkTypeOK, SinkPc
<1>2. CASE DequeueWait BY <1>2 DEF DequeueWait, TypeOK, SinkTypeOK, SinkPc, queueVars
<1>3. CASE NotifyPop
  <2>1. log_pc' \in [Threads -> {"idle", "post", "wait", "notify"}]
    BY <1>3 DEF NotifyPop, TypeOK, Waiting
  <2>2. CASE cur = Terminate
    BY <1>3, <2>1, <2>2 DEF NotifyPop, TypeOK, SinkTypeOK, SinkPc, queueVars
  <2>3. CASE cur # Terminate
    BY <1>3, <2>1, <2>3 DEF NotifyPop, TypeOK, SinkTypeOK, SinkPc, queueVars
  <2> QED BY <2>2, <2>3
<1>4. CASE SpuriousWakeWorker BY <1>4 DEF SpuriousWakeWorker, TypeOK, SinkTypeOK, SinkPc, queueVars
<1>5. CASE DtorBegin BY <1>5 DEF DtorBegin, TypeOK, SinkTypeOK, sinkVars, queueVars
<1>6. CASE DtorPosted BY <1>6 DEF DtorPosted, TypeOK, SinkTypeOK, sinkVars, queueVars
<1>7. CASE DtorJoin
  <2>1. FilesOK(files') BY <1>7, FlushedType DEF DtorJoin, TypeOK, StageOK
  <2> QED BY <1>7, <2>1, EmptyText DEF DtorJoin, TypeOK, SinkTypeOK, SinkPc, queueVars, FilesOK
<1>8. CASE Restart BY <1>8, StartedType DEF Restart, TypeOK, SinkTypeOK
<1>9. CASE Crash
  <2>1. faults' \in 0..MaxFaults BY <1>9 DEF Crash, Fault, TypeOK, SinkTypeOK
  <2> QED BY <1>9, <2>1, StartedType DEF Crash
<1> QED BY <1>1, <1>2, <1>3, <1>4, <1>5, <1>6, <1>7, <1>8, <1>9 DEF DtorStep

LEMMA InitType == ASSUME Init PROVE TypeOK
<1>1. FilesOK(files) BY EmptyText DEF Init, SinkInit, Opened, FilesOK
<1> QED BY <1>1, EmptyText DEF Init, SinkInit, TypeOK, SinkTypeOK, SinkPc, FilesOK, Slots

-----------------------------------------------------------------------------
(* Where a rotation stands is known from the files. *)

LEMMA InitStage == ASSUME Init PROVE StageOK
BY DEF Init, SinkInit, StageOK, Opened, Rotating

LEMMA SinkStepStage == ASSUME TypeOK, StageOK, Sink PROVE StageOK'
<1>t. SinkTypeOK BY DEF TypeOK
<1>q. dtor_pc' = dtor_pc BY DEF Sink
<1>f. DOMAIN Flushed = DOMAIN files BY <1>t, FlushedType DEF StageOK
<1>d. \A i \in DOMAIN files : i \in 0..MaxFiles BY <1>t DEF SinkTypeOK
<1>1. CASE SinkFits BY <1>1, <1>q DEF SinkFits, StageOK, Rotating
<1>2. CASE SinkFull
  <2>1. 0 \in DOMAIN files' BY <1>2, <1>f DEF SinkFull, StageOK
  <2>2. CASE Flushed[0].size > 0
    <3>1. /\ worker_pc' = "remove"
          /\ fd_open' = FALSE
          /\ rot_i' = MaxFiles
          /\ files' = Flushed
          /\ stdio' = Empty
      BY <1>2, <2>2, Zenon DEF SinkFull
    <3>2. ~(rot_i' < MaxFiles) BY <3>1
    <3>3. files'[0].size > 0 BY <2>2, <3>1
    <3> QED BY <2>1, <3>1, <3>2, <3>3 DEF StageOK, Rotating
  <2>3. CASE ~(Flushed[0].size > 0)
    BY <1>2, <2>1, <2>3, <1>q DEF SinkFull, StageOK, Rotating
  <2> QED BY <2>2, <2>3
<1>3. CASE SinkFullThrows
  <2>1. faults' = faults \/ faults' = faults + 1 BY <1>3 DEF SinkFullThrows, Fault
  <2>2. faults \in Nat BY <1>t DEF SinkTypeOK
  <2> QED BY <1>3, <2>1, <2>2, <1>q DEF SinkFullThrows, Dropped, StageOK, Rotating
<1>4. CASE RotateSkip
  <2>1. rot_i \in 1..MaxFiles BY <1>4, <1>t DEF RotateSkip, SinkTypeOK
  <2>2. rot_i # 1 BY <1>4 DEF RotateSkip, StageOK
  <2> QED BY <1>4, <2>1, <2>2, <1>q DEF RotateSkip, StageOK, Rotating
<1>5. CASE RemoveTarget
  <2>1. rot_i \in 1..MaxFiles BY <1>5, <1>t DEF RemoveTarget, SinkTypeOK
  <2>2. /\ DOMAIN files' = DOMAIN files \ {rot_i}
        /\ \A i \in DOMAIN files' : files'[i] = files[i]
    BY <1>5 DEF RemoveTarget, Without
  <2>3. 0 \in DOMAIN files' /\ files'[0] = files[0] /\ files[0].size > 0
    BY <1>5, <2>1, <2>2 DEF RemoveTarget, StageOK
  <2> QED BY <1>5, <2>1, <2>2, <2>3, <1>q DEF RemoveTarget, StageOK, Rotating
<1>6. CASE Rename
  <2>1. rot_i \in 1..MaxFiles BY <1>6, <1>t DEF Rename, SinkTypeOK
  <2>2. DOMAIN files' = (DOMAIN files \ {rot_i - 1}) \cup {rot_i}
    BY <1>6 DEF Rename, Renamed
  <2>3. CASE rot_i = 1 BY <1>6, <2>1, <2>2, <2>3, <1>q DEF Rename, StageOK, Rotating
  <2>4. CASE rot_i # 1
    <3>1. 0 \in DOMAIN files' BY <1>6, <2>1, <2>2, <2>4 DEF Rename, StageOK
    <3>2. files'[0] = files[0] BY <1>6, <2>1, <2>4, <3>1 DEF Rename, Renamed
    <3>3. files[0].size > 0 BY <1>6 DEF Rename, StageOK
    <3>4. rot_i' = rot_i - 1 /\ rot_i' \notin DOMAIN files' BY <1>6, <2>1, <2>2 DEF Rename
    <3> QED BY <1>6, <2>4, <3>1, <3>2, <3>3, <3>4, <1>q DEF Rename, StageOK, Rotating
  <2> QED BY <2>3, <2>4
<1>7. CASE RenameFails
  <2>1. faults' > 0 BY <1>7, <1>t DEF RenameFails, Fault, SinkTypeOK
  <2>2. worker_pc' = "flush" /\ stdio' = stdio BY <1>7 DEF RenameFails, Dropped
  <2>3. stdio = Empty BY <1>7 DEF RenameFails, StageOK, Rotating
  <2>4. CASE fd_open' = TRUE /\ files' = Truncated(files)
    BY <2>1, <2>2, <2>3, <2>4, <1>q DEF StageOK, Rotating, Truncated
  <2>5. CASE fd_open' = fd_open
    <3>1. fd_open = FALSE BY <1>7, <1>t DEF RenameFails, StageOK, Rotating, SinkTypeOK
    <3> QED BY <2>1, <2>2, <2>3, <2>5, <3>1, <1>q DEF StageOK, Rotating
  <2> QED BY <1>7, <2>4, <2>5, Zenon DEF RenameFails
<1>8. CASE Reopen BY <1>8, <1>q DEF Reopen, StageOK, Rotating, Truncated
<1>9. CASE ReopenFails
  <2>1. faults' > 0 BY <1>9, <1>t DEF ReopenFails, Fault, SinkTypeOK
  <2> QED BY <1>9, <2>1, <1>q DEF ReopenFails, Dropped, StageOK, Rotating
<1>10. CASE Write BY <1>10, <1>q DEF Write, StageOK, Rotating
<1>11. CASE WriteFails BY <1>11, <1>q DEF WriteFails, Dropped, StageOK, Rotating
<1>12. CASE Flush BY <1>12, <1>f, <1>q DEF Flush, StageOK, Rotating
<1>13. CASE FlushFails BY <1>13, <1>q DEF FlushFails, StageOK, Rotating
<1> QED BY <1>1, <1>2, <1>3, <1>4, <1>5, <1>6, <1>7, <1>8, <1>9, <1>10, <1>11, <1>12, <1>13
        DEF Sink, SinkStep

LEMMA OtherStepStage ==
    ASSUME TypeOK, StageOK, QueueOK, [Next]_vars, ~Sink PROVE StageOK'
<1>t. SinkTypeOK BY DEF TypeOK
<1>1. ASSUME NEW t \in Threads, ThreadStep(t) \/ SpuriousWake(t) PROVE StageOK'
  <2>1. /\ UNCHANGED <<cur, files, fd_open, stdio, rot_i, faults, dtor_pc>>
        /\ worker_pc' # worker_pc => worker_pc = "wait" /\ worker_pc' = "check"
    BY <1>1 DEF ThreadStep, LogCall, Enqueue, EnqueueWait, NotifyPush, SpuriousWake, sinkVars
  <2> QED BY <2>1 DEF StageOK, Rotating
<1>2. CASE Dequeue \/ DequeueWait \/ NotifyPop \/ SpuriousWakeWorker
  <2>1. /\ UNCHANGED <<files, fd_open, stdio, rot_i, faults, dtor_pc>>
        /\ worker_pc' \in {"notify", "wait", "ended", "sink", "check"}
        /\ worker_pc \in {"notify", "wait", "ended", "sink", "check"}
    BY <1>2 DEF Dequeue, DequeueWait, NotifyPop, SpuriousWakeWorker
  <2> QED BY <2>1 DEF StageOK, Rotating
<1>3. CASE DtorBegin \/ DtorPosted
  <2>1. /\ UNCHANGED <<worker_pc, files, fd_open, stdio, rot_i, faults>>
        /\ dtor_pc # "down"
    BY <1>3 DEF DtorBegin, DtorPosted, sinkVars
  <2> QED BY <2>1 DEF StageOK, Rotating
<1>4. CASE DtorJoin
  <2>1. DOMAIN files' = DOMAIN files BY <1>4, <1>t, FlushedType DEF DtorJoin, StageOK
  <2> QED BY <1>4 DEF DtorJoin, StageOK, Rotating
<1>5. CASE Restart \/ Crash
  <2>1. Started BY <1>5 DEF Restart, Crash
  <2> QED BY <2>1 DEF Started, SinkRestart, StageOK, Rotating, Opened
<1>6. CASE UNCHANGED vars BY <1>6 DEF vars, sinkVars, StageOK, Rotating
<1> QED BY <1>1, <1>2, <1>3, <1>4, <1>5, <1>6 DEF Next, WorkerStep, DtorStep

-----------------------------------------------------------------------------
(* The terminate message is the last in the queue, and is posted once. *)

LEMMA InitQueue == ASSUME Init PROVE QueueOK
BY DEF Init, SinkInit, QueueOK, Occupied, Pos, Size, Slots, Ending

(* QueueOK is about these, and of the thread's place about its end. *)
LEMMA QueueKept ==
    ASSUME QueueOK,
           UNCHANGED <<v_, head_, tail_, dtor_pc>>,
           log_pc[Main] \in {"post", "wait"} <=> log_pc'[Main] \in {"post", "wait"},
           dtor_pc # "up" => \A t \in Threads \ {Main} : log_pc'[t] = "idle",
           dtor_pc \in {"join", "down"} => log_pc'[Main] = "idle",
           cur' = Terminate => cur = Terminate,
           worker_pc' = "ended" => worker_pc = "ended" \/ cur = Terminate,
           worker_pc = "ended" => worker_pc' = "ended"
    PROVE  QueueOK'
<1>1. /\ Occupied' = Occupied
      /\ \A i : Pos(i)' = Pos(i)
      /\ Size' = Size
      /\ QueueEmpty' = QueueEmpty
  BY DEF Occupied, Pos, Size, QueueEmpty, Slots
<1>2. Ending' = Ending BY DEF Ending
<1> QED BY <1>1, <1>2 DEF QueueOK

LEMMA SinkStepQueue == ASSUME TypeOK, QueueOK, Sink PROVE QueueOK'
<1>1. worker_pc \in SinkPc /\ worker_pc' # "ended" /\ cur' \in {cur, NoLine}
  BY DEF Sink, SinkStep, SinkFits, SinkFull, SinkFullThrows, RotateSkip, RemoveTarget, Rename,
         RenameFails, Reopen, ReopenFails, Write, WriteFails, Flush, FlushFails, Dropped, SinkPc
<1>2. worker_pc # "ended" BY <1>1 DEF SinkPc
<1>3. UNCHANGED <<v_, head_, tail_, dtor_pc, log_pc>> BY DEF Sink, queueVars
<1>4. cur' = Terminate => cur = Terminate BY <1>1
<1> QED BY <1>1, <1>2, <1>3, <1>4, QueueKept DEF QueueOK

LEMMA ThreadStepQueue ==
    ASSUME TypeOK, QueueOK, NEW t \in Threads, ThreadStep(t) \/ SpuriousWake(t)
    PROVE  QueueOK'
<1>p. log_pc \in [Threads -> {"idle", "post", "wait", "notify"}] BY DEF TypeOK
<1>m. Main \in Threads OBVIOUS
<1>1. CASE LogCall(t)
  <2>1. dtor_pc = "up" /\ dtor_pc' = dtor_pc /\ ~Ending /\ ~Ending'
    BY <1>1 DEF LogCall, Ending
  <2>2. UNCHANGED <<v_, head_, tail_, cur, worker_pc>> BY <1>1 DEF LogCall, sinkVars, queueVars
  <2>3. /\ Occupied' = Occupied
        /\ \A i : Pos(i)' = Pos(i)
        /\ Size' = Size
        /\ QueueEmpty' = QueueEmpty
    BY <2>2 DEF Occupied, Pos, Size, QueueEmpty, Slots
  <2> QED BY <2>1, <2>2, <2>3 DEF QueueOK
<1>2. CASE Enqueue(t)
  <2>1. UNCHANGED <<cur, worker_pc, dtor_pc>> BY <1>2 DEF Enqueue, sinkVars
  <2>2. log_pc' = [log_pc EXCEPT ![t] = "notify"] /\ log_pc[t] = "post" /\ ~QueueFull
    BY <1>2 DEF Enqueue
  <2>3. dtor_pc # "up" => t = Main /\ dtor_pc = "post" /\ ~Ending
    BY <2>2 DEF QueueOK, TypeOK, Ending
  <2>4. ~Ending BY <2>3 DEF Ending
  <2>5. cur # Terminate /\ worker_pc # "ended" BY <2>4 DEF QueueOK
  <2>6. PICK item \in Line \cup {Terminate} :
          PushBack(item) /\ (item = Terminate <=> dtor_pc # "up")
    <3>1. CASE dtor_pc = "up"
      <4>1. PICK size \in LineSizes : PushBack([id |-> posted + 1, size |-> size])
        BY <1>2, <3>1 DEF Enqueue
      <4>2. [id |-> posted + 1, size |-> size] \in Line BY DEF TypeOK, Line
      <4>3. [id |-> posted + 1, size |-> size] # Terminate BY <4>2
      <4> QED BY <4>1, <4>2, <4>3, <3>1
    <3>2. CASE dtor_pc # "up" BY <1>2, <3>2 DEF Enqueue
    <3> QED BY <3>1, <3>2
  <2>7. Ending' <=> dtor_pc # "up"
    <3>1. dtor_pc' = dtor_pc BY <2>1
    <3>2. CASE dtor_pc = "up" BY <3>1, <3>2 DEF Ending
    <3>3. CASE dtor_pc # "up"
      <4>1. log_pc'[Main] = "notify" BY <3>3, <2>2, <2>3, <1>p
      <4> QED BY <3>1, <3>3, <4>1 DEF Ending
    <3> QED BY <3>2, <3>3
  <2>8. /\ Size' = Size + 1
        /\ tail_ \notin Occupied
        /\ Occupied' = Occupied \cup {tail_}
        /\ \A i \in Slots : Pos(i)' = Pos(i)
        /\ Pos(tail_) = Size
        /\ v_'[tail_] = item
        /\ \A i \in Occupied : v_'[i] = v_[i]
    BY <2>2, <2>6, PushBackQueue
  <2>9. \A i \in Occupied' : v_'[i] \in Line \cup {Terminate} BY <2>6, <2>8 DEF QueueOK
  <2>10. \A i \in Occupied : v_[i] # Terminate BY <2>4 DEF QueueOK
  <2>11. ASSUME NEW i \in Occupied', v_'[i] = Terminate
         PROVE  Pos(i)' = Size' - 1 /\ dtor_pc # "up"
    <3>1. i = tail_ BY <2>8, <2>10, <2>11
    <3>2. item = Terminate BY <2>8, <2>11, <3>1
    <3>3. tail_ \in Slots /\ Size \in Nat BY FrontOccupied DEF TypeOK
    <3> QED BY <2>6, <2>8, <3>1, <3>2, <3>3
  <2>12. dtor_pc' # "up" => \A u \in Threads \ {Main} : log_pc'[u] = "idle"
    BY <2>1, <2>2, <2>3, <1>p DEF QueueOK
  <2>13. dtor_pc' \notin {"join", "down"} BY <2>1, <2>3
  <2> QED BY <2>1, <2>5, <2>7, <2>9, <2>11, <2>12, <2>13 DEF QueueOK
<1>3. CASE EnqueueWait(t) \/ SpuriousWake(t)
  <2>1. /\ UNCHANGED <<v_, head_, tail_, dtor_pc, cur, worker_pc>>
        /\ log_pc[t] \in {"post", "wait"}
        /\ log_pc' = [log_pc EXCEPT ![t] = "wait"] \/ log_pc' = [log_pc EXCEPT ![t] = "post"]
    BY <1>3 DEF EnqueueWait, SpuriousWake, sinkVars, queueVars
  <2>2. dtor_pc # "up" => t = Main /\ dtor_pc = "post" BY <2>1 DEF QueueOK, TypeOK
  <2>3. /\ log_pc[Main] \in {"post", "wait"} <=> log_pc'[Main] \in {"post", "wait"}
        /\ dtor_pc # "up" => \A u \in Threads \ {Main} : log_pc'[u] = "idle"
    BY <2>1, <2>2, <1>p, <1>m DEF QueueOK
  <2>4. dtor_pc \notin {"join", "down"} BY <2>2
  <2> QED BY <2>1, <2>3, <2>4, QueueKept
<1>4. CASE NotifyPush(t)
  <2>1. /\ UNCHANGED <<v_, head_, tail_, dtor_pc, cur>>
        /\ log_pc[t] = "notify"
        /\ log_pc' = [log_pc EXCEPT ![t] = "idle"]
        /\ worker_pc' = IF worker_pc = "wait" THEN "check" ELSE worker_pc
    BY <1>4 DEF NotifyPush, queueVars
  <2>2. /\ log_pc[Main] \in {"post", "wait"} <=> log_pc'[Main] \in {"post", "wait"}
        /\ dtor_pc # "up" => \A u \in Threads \ {Main} : log_pc'[u] = "idle"
        /\ dtor_pc \in {"join", "down"} => log_pc'[Main] = "idle"
    BY <2>1, <1>p, <1>m DEF QueueOK
  <2> QED BY <2>1, <2>2, QueueKept
<1> QED BY <1>1, <1>2, <1>3, <1>4 DEF ThreadStep

LEMMA OtherStepQueue ==
    ASSUME TypeOK, QueueOK, [Next]_vars, ~Sink,
           \A t \in Threads : ~ThreadStep(t) /\ ~SpuriousWake(t)
    PROVE  QueueOK'
<1>p. log_pc \in [Threads -> {"idle", "post", "wait", "notify"}] BY DEF TypeOK
<1>m. Main \in Threads OBVIOUS
<1>1. CASE Dequeue
  <2>1. /\ worker_pc = "check"
        /\ ~QueueEmpty
        /\ cur' = v_[head_]
        /\ PopFront
        /\ worker_pc' = "notify"
        /\ UNCHANGED <<log_pc, dtor_pc>>
    BY <1>1 DEF Dequeue
  <2>2. /\ Size' = Size - 1
        /\ Occupied' = Occupied \ {head_}
        /\ \A i \in Occupied' : Pos(i)' = Pos(i) - 1 /\ v_'[i] = v_[i]
    BY <2>1, PopFrontQueue
  <2>3. /\ head_ \in Occupied
        /\ Pos(head_) = 0
        /\ Size \in Nat
        /\ \A i \in Slots : Pos(i) \in Nat
    BY <2>1, FrontOccupied
  <2>4. Ending' = Ending BY <2>1 DEF Ending
  <2>5. TypeOK' BY <1>1, <2>3, PopFrontType DEF Dequeue, TypeOK, SinkTypeOK, SinkPc, QueueOK
  <2>6. cur' = Terminate => QueueEmpty'
    <3>1. SUFFICES ASSUME v_[head_] = Terminate PROVE QueueEmpty' BY <2>1
    <3>2. Size = 1 BY <2>3, <3>1 DEF QueueOK
    <3>3. Size' = 0 BY <2>2, <3>2
    <3>4. (QueueEmpty <=> Size = 0)'
      <4>1. TypeOK' => head_' \in Slots /\ tail_' \in Slots BY DEF TypeOK, Slots
      <4> QED BY <2>5, <4>1 DEF QueueEmpty, Size, Slots, max_items_
    <3> QED BY <3>3, <3>4
  <2>7. ~Ending => cur' # Terminate BY <2>1, <2>3 DEF QueueOK
  <2>8. \A i \in Occupied' : v_'[i] = Terminate => Pos(i)' = Size' - 1
    BY <2>2, <2>3 DEF QueueOK, Occupied
  <2>9. \A i \in Occupied' : v_'[i] \in Line \cup {Terminate} BY <2>2 DEF QueueOK
  <2>10. dtor_pc # "down" BY <2>1 DEF QueueOK
  <2> QED BY <2>1, <2>2, <2>4, <2>6, <2>7, <2>8, <2>9, <2>10 DEF QueueOK
<1>2. CASE DequeueWait \/ SpuriousWakeWorker
  <2>1. /\ UNCHANGED <<v_, head_, tail_, dtor_pc, cur, log_pc>>
        /\ worker_pc # "ended" /\ worker_pc' # "ended"
    BY <1>2 DEF DequeueWait, SpuriousWakeWorker, queueVars
  <2> QED BY <2>1, QueueKept DEF QueueOK
<1>3. CASE NotifyPop
  <2>1. /\ UNCHANGED <<v_, head_, tail_, dtor_pc>>
        /\ worker_pc = "notify"
        /\ worker_pc' = "ended" => cur = Terminate
        /\ cur' \in {cur, NoLine}
        /\ \/ \E t \in Waiting : log_pc' = [log_pc EXCEPT ![t] = "post"]
           \/ UNCHANGED log_pc
    BY <1>3 DEF NotifyPop, queueVars
  <2>2. /\ log_pc[Main] \in {"post", "wait"} <=> log_pc'[Main] \in {"post", "wait"}
        /\ dtor_pc # "up" => \A u \in Threads \ {Main} : log_pc'[u] = "idle"
        /\ dtor_pc \in {"join", "down"} => log_pc'[Main] = "idle"
    <3>1. CASE UNCHANGED log_pc BY <3>1 DEF QueueOK
    <3>2. CASE \E t \in Waiting : log_pc' = [log_pc EXCEPT ![t] = "post"]
      <4>1. PICK t \in Waiting : log_pc' = [log_pc EXCEPT ![t] = "post"] BY <3>2
      <4>2. t \in Threads /\ log_pc[t] = "wait" BY DEF Waiting
      <4> QED BY <4>1, <4>2, <1>p, <1>m DEF QueueOK
    <3> QED BY <2>1, <3>1, <3>2
  <2>3. cur' = Terminate => cur = Terminate BY <2>1
  <2> QED BY <2>1, <2>2, <2>3, QueueKept
<1>4. CASE DtorBegin
  <2>1. /\ dtor_pc = "up" /\ dtor_pc' = "post"
        /\ log_pc' = [log_pc EXCEPT ![Main] = "post"]
        /\ \A t \in Threads : log_pc[t] = "idle"
        /\ UNCHANGED <<v_, head_, tail_, cur, worker_pc>>
    BY <1>4 DEF DtorBegin, sinkVars, queueVars
  <2>2. ~Ending /\ ~Ending' BY <2>1, <1>p, <1>m DEF Ending
  <2>3. /\ Occupied' = Occupied
        /\ \A i : Pos(i)' = Pos(i)
        /\ Size' = Size
        /\ QueueEmpty' = QueueEmpty
    BY <2>1 DEF Occupied, Pos, Size, QueueEmpty, Slots
  <2>4. \A t \in Threads \ {Main} : log_pc'[t] = "idle" BY <2>1, <1>p
  <2> QED BY <2>1, <2>2, <2>3, <2>4 DEF QueueOK
<1>5. CASE DtorPosted \/ DtorJoin
  <2>1. /\ UNCHANGED <<v_, head_, tail_, cur, worker_pc, log_pc>>
        /\ \/ dtor_pc = "post" /\ log_pc[Main] = "idle" /\ dtor_pc' = "join"
           \/ dtor_pc = "join" /\ dtor_pc' = "down" /\ worker_pc = "ended"
    BY <1>5 DEF DtorPosted, DtorJoin, sinkVars, queueVars
  <2>2. Ending /\ Ending' BY <2>1 DEF Ending
  <2>3. /\ Occupied' = Occupied
        /\ \A i : Pos(i)' = Pos(i)
        /\ Size' = Size
        /\ QueueEmpty' = QueueEmpty
    BY <2>1 DEF Occupied, Pos, Size, QueueEmpty, Slots
  <2> QED BY <2>1, <2>2, <2>3 DEF QueueOK
<1>6. CASE Restart \/ Crash
  <2>1. Started BY <1>6 DEF Restart, Crash
  <2>2. Occupied' = {} /\ QueueEmpty'
    BY <2>1 DEF Started, Occupied, Pos, Size, QueueEmpty, Slots
  <2>3. dtor_pc' = "up" /\ cur' = NoLine /\ worker_pc' = "check"
    BY <2>1 DEF Started, SinkRestart
  <2> QED BY <2>2, <2>3 DEF QueueOK
<1>7. CASE UNCHANGED vars BY <1>7, QueueKept DEF vars, sinkVars, queueVars, QueueOK
<1> QED BY <1>1, <1>2, <1>3, <1>4, <1>5, <1>6, <1>7 DEF Next, WorkerStep, DtorStep

TypeInv == TypeOK /\ StageOK /\ QueueOK

LEMMA TypeStep == ASSUME TypeInv, [Next]_vars PROVE TypeInv'
<1> USE DEF TypeInv
<1>1. CASE Sink BY <1>1, SinkStepType, SinkStepStage, SinkStepQueue
<1>2. CASE ~Sink
  <2>1. StageOK' BY <1>2, OtherStepStage
  <2>2. CASE \E t \in Threads : ThreadStep(t) \/ SpuriousWake(t)
    BY <2>1, <2>2, ThreadStepType, ThreadStepQueue
  <2>3. CASE ~(\E t \in Threads : ThreadStep(t) \/ SpuriousWake(t))
    <3>1. QueueOK' BY <1>2, <2>3, OtherStepQueue
    <3>2. CASE UNCHANGED vars
      <4>1. UNCHANGED sinkVars /\ UNCHANGED queueVars /\ UNCHANGED <<log_pc, dtor_pc, posted>>
        BY <3>2 DEF vars
      <4>2. SinkTypeOK' BY <4>1 DEF TypeOK, sinkVars, SinkTypeOK
      <4>3. worker_pc' = worker_pc /\ cur' = cur BY <4>1 DEF sinkVars
      <4>4. TypeOK' BY <4>1, <4>2, <4>3 DEF queueVars, TypeOK
      <4> QED BY <2>1, <3>1, <4>4
    <3>3. CASE ~UNCHANGED vars
      <4>1. Next BY <3>3
      <4>2. Dequeue \/ DequeueWait \/ NotifyPop \/ SpuriousWakeWorker \/ DtorBegin \/ DtorStep
              \/ Restart \/ Crash
        BY <1>2, <2>3, <4>1, Zenon DEF Next, WorkerStep
      <4>3. TypeOK' BY <4>2, OtherStepType
      <4> QED BY <2>1, <3>1, <4>3
    <3> QED BY <2>1, <3>1, <3>2, <3>3
  <2> QED BY <2>2, <2>3
<1> QED BY <1>1, <1>2

(* Every variable keeps its type: the queue's indexes stay inside it, the
   logging thread has a line in its hands where it needs one, files beyond the
   last number never come up. *)
THEOREM TypeCorrect == Spec => [](TypeOK /\ StageOK /\ QueueOK)
<1>1. Init => TypeInv BY InitType, InitStage, InitQueue DEF TypeInv
<1>2. TypeInv /\ [Next]_vars => TypeInv' BY TypeStep
<1>3. TypeInv => TypeOK /\ StageOK /\ QueueOK BY DEF TypeInv
<1> QED BY <1>1, <1>2, <1>3, PTL DEF Spec

-----------------------------------------------------------------------------
(* How much is in the files, and how much will be. *)

BytesOK ==
    /\ \A i \in DOMAIN files : files[i].size <= MaxSize
    /\ fd_open => /\ files[0].size + stdio.size <= current_size_
                  /\ files[0].size + stdio.size <= MaxSize
    /\ worker_pc = "write" /\ fd_open =>
          /\ files[0].size + stdio.size + cur.size <= new_size
          /\ files[0].size + stdio.size + cur.size <= MaxSize
    /\ Rotating => new_size = cur.size

LEMMA InitBytes == ASSUME Init PROVE BytesOK
BY DEF Init, SinkInit, BytesOK, Opened, Empty, Rotating

LEMMA SinkTypes ==
    ASSUME TypeOK, StageOK
    PROVE  /\ \A i \in DOMAIN files : files[i].size \in Nat
           /\ stdio.size \in Nat
           /\ current_size_ \in Nat
           /\ new_size \in Nat
           /\ worker_pc \in SinkPc \ {"flush"} => cur.size \in 1..MaxSize /\ cur \in Line
           /\ fd_open => 0 \in DOMAIN files
           /\ MaxSize \in Nat
BY LineIs DEF TypeOK, SinkTypeOK, StageOK, Text

LEMMA FlushedBytes ==
    ASSUME TypeOK, StageOK, BytesOK
    PROVE  /\ DOMAIN Flushed = DOMAIN files
           /\ \A i \in DOMAIN Flushed : Flushed[i].size <= MaxSize
           /\ fd_open => Flushed[0].size = files[0].size + stdio.size
<1>1. CASE fd_open
  <2>1. Flushed = [i \in DOMAIN files |-> IF i = 0 THEN Joined(files[0], stdio) ELSE files[i]]
    BY <1>1 DEF Flushed
  <2>2. Joined(files[0], stdio).size = files[0].size + stdio.size BY DEF Joined
  <2> QED BY <1>1, <2>1, <2>2, SinkTypes DEF BytesOK
<1>2. CASE ~fd_open BY <1>2 DEF Flushed, BytesOK
<1> QED BY <1>1, <1>2

LEMMA TruncatedBytes ==
    ASSUME BytesOK
    PROVE  /\ \A i \in DOMAIN Truncated(files) : Truncated(files)[i].size <= MaxSize
           /\ Truncated(files)[0].size = 0
BY DEF BytesOK, Truncated, Empty

LEMMA SinkStepBytes == ASSUME TypeOK, StageOK, BytesOK, Sink PROVE BytesOK'
<1>s. /\ \A i \in DOMAIN files : files[i].size \in Nat
      /\ stdio.size \in Nat
      /\ current_size_ \in Nat
      /\ new_size \in Nat
      /\ worker_pc \in SinkPc \ {"flush"} => cur.size \in 1..MaxSize /\ cur \in Line
      /\ fd_open => 0 \in DOMAIN files
      /\ MaxSize \in Nat
  BY SinkTypes
<1>e. Empty.size = 0 BY DEF Empty
<1>1. CASE SinkFits BY <1>1, <1>s DEF SinkFits, BytesOK, Rotating, SinkPc
<1>2. CASE SinkFull
  <2>1. /\ DOMAIN files' = DOMAIN files
        /\ \A i \in DOMAIN files' : files'[i].size <= MaxSize
        /\ files'[0].size = files[0].size + stdio.size
        /\ stdio'.size = 0 /\ fd_open /\ 0 \in DOMAIN files
        /\ cur' = cur /\ current_size_' = current_size_
        /\ cur.size \in 1..MaxSize
    BY <1>2, <1>s, <1>e, FlushedBytes DEF SinkFull, SinkPc
  <2>2. CASE Flushed[0].size > 0
    <3>1. worker_pc' = "remove" /\ fd_open' = FALSE /\ new_size' = cur.size
      BY <1>2, <2>2, Zenon DEF SinkFull
    <3> QED BY <2>1, <3>1 DEF BytesOK, Rotating
  <2>3. CASE ~(Flushed[0].size > 0)
    <3>1. worker_pc' = "write" /\ new_size' = current_size_ + cur.size /\ fd_open' = fd_open
      BY <1>2, <2>3, Zenon DEF SinkFull
    <3>2. files'[0].size = 0 BY <1>2, <1>s, <2>1, <2>3 DEF SinkFull
    <3> QED BY <1>s, <2>1, <3>1, <3>2 DEF BytesOK, Rotating
  <2> QED BY <2>2, <2>3
<1>3. CASE SinkFullThrows BY <1>3 DEF SinkFullThrows, Dropped, BytesOK, Rotating
<1>4. CASE RotateSkip BY <1>4 DEF RotateSkip, BytesOK, StageOK, Rotating
<1>5. CASE RemoveTarget
  <2>1. \A i \in DOMAIN files' : files'[i].size <= MaxSize
    BY <1>5 DEF RemoveTarget, Without, BytesOK
  <2> QED BY <1>5, <2>1 DEF RemoveTarget, BytesOK, StageOK, Rotating
<1>6. CASE Rename
  <2>1. \A i \in DOMAIN files' : files'[i].size <= MaxSize
    BY <1>6 DEF Rename, Renamed, BytesOK, StageOK
  <2> QED BY <1>6, <2>1 DEF Rename, BytesOK, StageOK, Rotating
<1>7. CASE RenameFails
  <2>1. worker_pc' = "flush" /\ stdio' = stdio /\ stdio = Empty /\ ~fd_open
    BY <1>7 DEF RenameFails, Dropped, StageOK, Rotating
  <2>2. CASE files' = Truncated(files) /\ fd_open' = TRUE /\ current_size_' = 0
    BY <1>s, <1>e, <2>1, <2>2, TruncatedBytes DEF BytesOK, Rotating
  <2>3. CASE files' \in {files, Truncated(files)} /\ UNCHANGED <<fd_open, current_size_>>
    BY <2>1, <2>3, TruncatedBytes DEF BytesOK, Rotating
  <2> QED BY <1>7, <2>2, <2>3, Zenon DEF RenameFails
<1>8. CASE Reopen
  <2>1. stdio' = Empty /\ cur' = cur /\ new_size' = new_size /\ current_size_' = current_size_
        /\ worker_pc' = "write" /\ files' = Truncated(files) /\ new_size = cur.size
        /\ cur.size \in 1..MaxSize
    BY <1>8, <1>s DEF Reopen, StageOK, BytesOK, Rotating, SinkPc
  <2> QED BY <1>s, <1>e, <2>1, TruncatedBytes DEF BytesOK, Rotating
<1>9. CASE ReopenFails
  <2>1. /\ worker_pc' = "flush" /\ fd_open' = fd_open /\ ~fd_open
        /\ files' \in {files, Truncated(files)}
    BY <1>9 DEF ReopenFails, Dropped, StageOK, Rotating
  <2> QED BY <2>1, TruncatedBytes DEF BytesOK, Rotating
<1>10. CASE Write
  <2>1. /\ worker_pc = "write" /\ worker_pc' = "flush" /\ current_size_' = new_size
        /\ files' = files /\ fd_open' = fd_open
        /\ stdio' = IF fd_open THEN WithLine(stdio, cur) ELSE stdio
    BY <1>10 DEF Write
  <2>2. fd_open => stdio'.size = stdio.size + cur.size BY <2>1 DEF WithLine
  <2>3. cur.size \in 1..MaxSize BY <1>s, <2>1 DEF SinkPc
  <2> QED BY <1>s, <2>1, <2>2, <2>3 DEF BytesOK, Rotating
<1>11. CASE WriteFails BY <1>11 DEF WriteFails, Dropped, BytesOK, Rotating
<1>12. CASE Flush
  <2>1. /\ DOMAIN files' = DOMAIN files
        /\ \A i \in DOMAIN files' : files'[i].size <= MaxSize
        /\ fd_open => files'[0].size = files[0].size + stdio.size
    BY <1>12, FlushedBytes DEF Flush
  <2> QED BY <1>12, <1>s, <1>e, <2>1 DEF Flush, BytesOK, Rotating
<1>13. CASE FlushFails BY <1>13 DEF FlushFails, BytesOK, Rotating
<1> QED BY <1>1, <1>2, <1>3, <1>4, <1>5, <1>6, <1>7, <1>8, <1>9, <1>10, <1>11, <1>12, <1>13
        DEF Sink, SinkStep

LEMMA OtherStepBytes ==
    ASSUME TypeOK, StageOK, BytesOK, [Next]_vars, ~Sink PROVE BytesOK'
<1>1. ASSUME NEW t \in Threads, ThreadStep(t) \/ SpuriousWake(t) PROVE BytesOK'
  <2>1. /\ UNCHANGED <<cur, files, fd_open, stdio, current_size_, new_size>>
        /\ worker_pc' # worker_pc => worker_pc = "wait" /\ worker_pc' = "check"
    BY <1>1 DEF ThreadStep, LogCall, Enqueue, EnqueueWait, NotifyPush, SpuriousWake, sinkVars
  <2> QED BY <2>1 DEF BytesOK, Rotating
<1>2. CASE Dequeue \/ DequeueWait \/ NotifyPop \/ SpuriousWakeWorker
  <2>1. /\ UNCHANGED <<files, fd_open, stdio, current_size_>>
        /\ worker_pc' \in {"notify", "wait", "ended", "sink", "check"}
    BY <1>2 DEF Dequeue, DequeueWait, NotifyPop, SpuriousWakeWorker
  <2> QED BY <2>1 DEF BytesOK, Rotating
<1>3. CASE DtorBegin \/ DtorPosted
  <2>1. UNCHANGED sinkVars BY <1>3 DEF DtorBegin, DtorPosted
  <2> QED BY <2>1 DEF BytesOK, Rotating, sinkVars
<1>4. CASE DtorJoin BY <1>4, FlushedBytes DEF DtorJoin, BytesOK, Rotating
<1>5. CASE Restart \/ Crash
  <2>1. Started BY <1>5 DEF Restart, Crash
  <2>2. files' = Opened(files) /\ stdio' = Empty /\ current_size_' = files'[0].size
        /\ worker_pc' = "check"
    BY <2>1 DEF Started, SinkRestart
  <2>3. \A i \in DOMAIN files' : files'[i].size \in Nat /\ files'[i].size <= MaxSize
    BY <2>2, SinkTypes DEF Opened, Empty, BytesOK
  <2>4. 0 \in DOMAIN files' BY <2>2 DEF Opened
  <2>5. stdio'.size = 0 BY <2>2 DEF Empty
  <2> QED BY <2>2, <2>3, <2>4, <2>5 DEF BytesOK, Rotating
<1>6. CASE UNCHANGED vars BY <1>6 DEF vars, sinkVars, BytesOK, Rotating
<1> QED BY <1>1, <1>2, <1>3, <1>4, <1>5, <1>6 DEF Next, WorkerStep, DtorStep

(* No file grows beyond max_size_ by the lines written to it, whatever fails and
   whenever the process is killed: current_size_ bounds what is in the file and
   in the stream. *)
THEOREM FilesBoundedAlways == Spec => []FilesBounded
<1> DEFINE Inv == TypeInv /\ BytesOK
<1>1. Init => Inv BY InitType, InitStage, InitQueue, InitBytes DEF TypeInv
<1>2. Inv /\ [Next]_vars => Inv'
  <2> SUFFICES ASSUME Inv, [Next]_vars PROVE Inv' OBVIOUS
  <2>1. TypeInv' BY TypeStep
  <2>2. BytesOK' BY SinkStepBytes, OtherStepBytes DEF TypeInv
  <2> QED BY <2>1, <2>2
<1>3. Inv => FilesBounded
  <2> SUFFICES ASSUME Inv, NEW i \in DOMAIN files
               PROVE  files[i].size + (IF i = 0 THEN stdio.size ELSE 0) <= MaxSize
    BY DEF FilesBounded
  <2>1. files[i].size \in Nat /\ files[i].size <= MaxSize BY SinkTypes DEF TypeInv, BytesOK
  <2>2. CASE i = 0 /\ fd_open BY <2>2 DEF BytesOK
  <2>3. CASE i = 0 /\ ~fd_open
    <3>1. stdio.size = 0 BY <2>3 DEF TypeInv, StageOK, Empty
    <3> QED BY <2>1, <2>3, <3>1
  <2>4. CASE i # 0 BY <2>1, <2>4
  <2> QED BY <2>2, <2>3, <2>4
<1> QED BY <1>1, <1>2, <1>3, PTL DEF Spec

-----------------------------------------------------------------------------
(* Waking up. *)

PostSet == {t \in Threads : log_pc[t] = "post"}

LEMMA PostSetIs ==
    ASSUME TypeOK
    PROVE  IsFiniteSet(PostSet) /\ Cardinality(PostSet) \in Nat
<1>1. IsFiniteSet(PostSet) BY FS_Subset DEF PostSet
<1> QED BY <1>1, FS_CardinalityType

LEMMA PostSetJoins ==
    ASSUME TypeOK, NEW t \in Threads, log_pc[t] # "post",
           log_pc' = [log_pc EXCEPT ![t] = "post"]
    PROVE  Cardinality(PostSet') = Cardinality(PostSet) + 1
<1>1. PostSet' = PostSet \cup {t} /\ t \notin PostSet BY DEF PostSet, TypeOK
<1> QED BY <1>1, PostSetIs, FS_AddElement

LEMMA PostSetLeaves ==
    ASSUME TypeOK, NEW t \in Threads, log_pc[t] = "post", NEW s, s # "post",
           log_pc' = [log_pc EXCEPT ![t] = s]
    PROVE  Cardinality(PostSet') = Cardinality(PostSet) - 1
<1>1. PostSet' = PostSet \ {t} /\ t \in PostSet BY DEF PostSet, TypeOK
<1> QED BY <1>1, PostSetIs, FS_RemoveElement

Notifying == IF worker_pc = "notify" THEN 1 ELSE 0

(* NoLostWakeup with its parts named. *)
LEMMA WakeupParts ==
    NoLostWakeup <=>
        /\ worker_pc = "wait" /\ ~QueueEmpty => \E t \in Threads : log_pc[t] = "notify"
        /\ Waiting # {} => QueueSize - Size <= Cardinality(PostSet) + Notifying
BY DEF NoLostWakeup, PostSet, Notifying

(* A step that leaves the queue alone and wakes nobody up. *)
LEMMA WakeupKept ==
    ASSUME NoLostWakeup, UNCHANGED <<head_, tail_, log_pc>>,
           worker_pc' = "wait" => worker_pc = "wait" \/ QueueEmpty,
           worker_pc = "notify" => worker_pc' = "notify" \/ Waiting = {},
           TypeOK
    PROVE  NoLostWakeup'
<1>1. Size' = Size /\ QueueEmpty' = QueueEmpty /\ Waiting' = Waiting /\ PostSet' = PostSet
  BY DEF Size, QueueEmpty, Waiting, PostSet
<1>2. worker_pc' = "wait" /\ ~QueueEmpty' => \E t \in Threads : log_pc'[t] = "notify"
  BY <1>1, WakeupParts
<1>3. Size \in Int /\ Cardinality(PostSet) \in Nat /\ QueueSize \in Nat
  BY FrontOccupied, PostSetIs
<1>4. Waiting' # {} => QueueSize - Size' <= Cardinality(PostSet') + Notifying'
  <2> SUFFICES ASSUME Waiting # {}
               PROVE  QueueSize - Size <= Cardinality(PostSet) + Notifying'
    BY <1>1
  <2>1. QueueSize - Size <= Cardinality(PostSet) + Notifying BY WakeupParts
  <2>2. Notifying \in {0, 1} /\ Notifying' \in {0, 1} /\ (Notifying = 1 => Notifying' = 1)
    BY DEF Notifying
  <2> QED BY <1>3, <2>1, <2>2
<1>5. (NoLostWakeup <=>
        /\ worker_pc = "wait" /\ ~QueueEmpty => \E t \in Threads : log_pc[t] = "notify"
        /\ Waiting # {} => QueueSize - Size <= Cardinality(PostSet) + Notifying)'
  BY DEF NoLostWakeup, PostSet, Notifying
<1> QED BY <1>2, <1>4, <1>5

LEMMA WakeupStep == ASSUME TypeInv, NoLostWakeup, [Next]_vars PROVE NoLostWakeup'
<1>p. log_pc \in [Threads -> {"idle", "post", "wait", "notify"}] BY DEF TypeInv, TypeOK
<1>t. TypeOK /\ QueueOK BY DEF TypeInv
<1>n. Size \in 0..QueueSize /\ Cardinality(PostSet) \in Nat /\ QueueSize \in Nat
      /\ Notifying \in {0, 1}
  BY <1>t, FrontOccupied, PostSetIs DEF Notifying
<1>w. /\ worker_pc = "wait" /\ ~QueueEmpty => \E t \in Threads : log_pc[t] = "notify"
      /\ Waiting # {} => QueueSize - Size <= Cardinality(PostSet) + Notifying
  BY WakeupParts
<1> SUFFICES
      /\ worker_pc' = "wait" /\ ~QueueEmpty' => \E t \in Threads : log_pc'[t] = "notify"
      /\ Waiting' # {} => QueueSize - Size' <= Cardinality(PostSet') + Notifying'
  BY DEF NoLostWakeup, PostSet, Notifying
<1>1. ASSUME NEW t \in Threads, LogCall(t) \/ SpuriousWake(t)
      PROVE  /\ worker_pc' = "wait" /\ ~QueueEmpty' => \E u \in Threads : log_pc'[u] = "notify"
             /\ Waiting' # {} => QueueSize - Size' <= Cardinality(PostSet') + Notifying'
  <2>1. /\ log_pc' = [log_pc EXCEPT ![t] = "post"]
        /\ log_pc[t] \in {"idle", "wait"}
        /\ UNCHANGED <<worker_pc, head_, tail_>>
    BY <1>1 DEF LogCall, SpuriousWake, sinkVars, queueVars
  <2>2. Size' = Size /\ QueueEmpty' = QueueEmpty /\ Notifying' = Notifying
    BY <2>1 DEF Size, QueueEmpty, Notifying
  <2>3. Cardinality(PostSet') = Cardinality(PostSet) + 1 BY <1>t, <2>1, PostSetJoins
  <2>4. Waiting' \subseteq Waiting BY <1>p, <2>1 DEF Waiting
  <2>5. \A u \in Threads : log_pc[u] = "notify" => log_pc'[u] = "notify" BY <1>p, <2>1
  <2> QED BY <1>w, <1>n, <2>1, <2>2, <2>3, <2>4, <2>5
<1>2. ASSUME NEW t \in Threads, Enqueue(t)
      PROVE  /\ worker_pc' = "wait" /\ ~QueueEmpty' => \E u \in Threads : log_pc'[u] = "notify"
             /\ Waiting' # {} => QueueSize - Size' <= Cardinality(PostSet') + Notifying'
  <2>1. /\ log_pc' = [log_pc EXCEPT ![t] = "notify"]
        /\ log_pc[t] = "post"
        /\ ~QueueFull
        /\ worker_pc' = worker_pc
    BY <1>2 DEF Enqueue, sinkVars
  <2>2. PICK item \in Line \cup {Terminate} : PushBack(item)
    <3>1. CASE dtor_pc = "up"
      <4>1. PICK size \in LineSizes : PushBack([id |-> posted + 1, size |-> size])
        BY <1>2, <3>1 DEF Enqueue
      <4>2. [id |-> posted + 1, size |-> size] \in Line BY <1>t DEF TypeOK, Line
      <4> QED BY <4>1, <4>2
    <3>2. CASE dtor_pc # "up" BY <1>2, <3>2 DEF Enqueue
    <3> QED BY <3>1, <3>2
  <2>3. Size' = Size + 1 BY <1>t, <2>1, <2>2, PushBackQueue
  <2>4. Cardinality(PostSet') = Cardinality(PostSet) - 1 BY <1>t, <2>1, PostSetLeaves
  <2>5. Waiting' \subseteq Waiting /\ Notifying' = Notifying BY <1>p, <2>1 DEF Waiting, Notifying
  <2>6. log_pc'[t] = "notify" BY <1>p, <2>1
  <2> QED BY <1>w, <1>n, <2>3, <2>4, <2>5, <2>6
<1>3. ASSUME NEW t \in Threads, EnqueueWait(t)
      PROVE  /\ worker_pc' = "wait" /\ ~QueueEmpty' => \E u \in Threads : log_pc'[u] = "notify"
             /\ Waiting' # {} => QueueSize - Size' <= Cardinality(PostSet') + Notifying'
  <2>1. /\ log_pc' = [log_pc EXCEPT ![t] = "wait"]
        /\ log_pc[t] = "post"
        /\ QueueFull
        /\ UNCHANGED <<worker_pc, head_, tail_>>
    BY <1>3 DEF EnqueueWait, sinkVars, queueVars
  <2>2. Size' = QueueSize
    <3>1. Size = QueueSize BY <1>t, <2>1, FrontOccupied
    <3> QED BY <2>1, <3>1 DEF Size
  <2>3. Cardinality(PostSet') = Cardinality(PostSet) - 1 /\ PostSet # {}
    BY <1>t, <2>1, PostSetLeaves DEF PostSet
  <2>4. Cardinality(PostSet) # 0 BY <1>t, <2>3, PostSetIs, FS_EmptySet
  <2>5. Notifying' = Notifying /\ QueueEmpty' = QueueEmpty BY <2>1 DEF Notifying, QueueEmpty
  <2>6. \A u \in Threads : log_pc[u] = "notify" => log_pc'[u] = "notify" BY <1>p, <2>1
  <2> QED BY <1>w, <1>n, <2>1, <2>2, <2>3, <2>4, <2>5, <2>6
<1>4. ASSUME NEW t \in Threads, NotifyPush(t)
      PROVE  /\ worker_pc' = "wait" /\ ~QueueEmpty' => \E u \in Threads : log_pc'[u] = "notify"
             /\ Waiting' # {} => QueueSize - Size' <= Cardinality(PostSet') + Notifying'
  <2>1. /\ log_pc' = [log_pc EXCEPT ![t] = "idle"]
        /\ log_pc[t] = "notify"
        /\ worker_pc' = IF worker_pc = "wait" THEN "check" ELSE worker_pc
        /\ UNCHANGED <<head_, tail_>>
    BY <1>4 DEF NotifyPush, queueVars
  <2>2. worker_pc' # "wait" /\ Notifying' = Notifying BY <2>1 DEF Notifying
  <2>3. Size' = Size BY <2>1 DEF Size
  <2>4. PostSet' = PostSet /\ Waiting' = Waiting BY <1>p, <2>1 DEF PostSet, Waiting
  <2> QED BY <1>w, <2>2, <2>3, <2>4
<1>5. CASE Dequeue
  <2>1. /\ ~QueueEmpty /\ PopFront
        /\ worker_pc = "check" /\ worker_pc' = "notify" /\ log_pc' = log_pc
    BY <1>5 DEF Dequeue
  <2>2. Size' = Size - 1 BY <1>t, <2>1, PopFrontQueue
  <2>3. Notifying = 0 /\ Notifying' = 1 BY <2>1 DEF Notifying
  <2>4. PostSet' = PostSet /\ Waiting' = Waiting BY <2>1 DEF PostSet, Waiting
  <2> QED BY <1>w, <1>n, <2>1, <2>2, <2>3, <2>4
<1>6. CASE NotifyPop
  <2>1. /\ worker_pc = "notify" /\ worker_pc' \in {"ended", "sink"}
        /\ UNCHANGED <<head_, tail_>>
        /\ \/ \E t \in Waiting : log_pc' = [log_pc EXCEPT ![t] = "post"]
           \/ Waiting = {} /\ UNCHANGED log_pc
    BY <1>6 DEF NotifyPop, queueVars
  <2>2. Size' = Size /\ Notifying = 1 /\ Notifying' = 0 BY <2>1 DEF Size, Notifying
  <2>3. CASE Waiting = {} /\ UNCHANGED log_pc BY <2>1, <2>3 DEF Waiting
  <2>4. CASE \E t \in Waiting : log_pc' = [log_pc EXCEPT ![t] = "post"]
    <3>1. PICK t \in Waiting : log_pc' = [log_pc EXCEPT ![t] = "post"] BY <2>4
    <3>2. t \in Threads /\ log_pc[t] = "wait" BY DEF Waiting
    <3>3. Cardinality(PostSet') = Cardinality(PostSet) + 1 BY <1>t, <3>1, <3>2, PostSetJoins
    <3> QED BY <1>w, <1>n, <2>1, <2>2, <3>3
  <2> QED BY <2>1, <2>3, <2>4
<1>7. CASE DtorBegin \/ Restart \/ Crash
  <2>1. \A u \in Threads : log_pc'[u] # "wait"
    BY <1>7, <1>p DEF DtorBegin, Restart, Crash, Started
  <2>2. Waiting' = {} BY <2>1 DEF Waiting
  <2>3. CASE DtorBegin
    <3>1. QueueEmpty' = QueueEmpty /\ worker_pc' = worker_pc
      BY <2>3 DEF DtorBegin, sinkVars, queueVars, QueueEmpty
    <3>2. ~(\E u \in Threads : log_pc[u] = "notify") BY <2>3 DEF DtorBegin
    <3> QED BY <1>w, <2>2, <3>1, <3>2
  <2>4. CASE Restart \/ Crash
    <3>1. worker_pc' = "check" BY <2>4 DEF Restart, Crash, Started, SinkRestart
    <3> QED BY <2>2, <3>1
  <2> QED BY <1>7, <2>3, <2>4
<1>8. CASE Sink \/ DequeueWait \/ SpuriousWakeWorker \/ DtorPosted \/ DtorJoin \/ UNCHANGED vars
  <2>1. /\ UNCHANGED <<head_, tail_, log_pc>>
        /\ worker_pc' = "wait" => worker_pc = "wait" \/ QueueEmpty
        /\ worker_pc = "notify" => worker_pc' = "notify"
    <3>1. CASE Sink
      <4>1. worker_pc \in SinkPc /\ worker_pc' \in SinkPc \cup {"check"}
        BY <3>1 DEF Sink, SinkStep, SinkFits, SinkFull, SinkFullThrows, RotateSkip, RemoveTarget,
               Rename, RenameFails, Reopen, ReopenFails, Write, WriteFails, Flush, FlushFails,
               Dropped, SinkPc
      <4> QED BY <3>1, <4>1 DEF Sink, queueVars, SinkPc
    <3>2. CASE DequeueWait \/ SpuriousWakeWorker
      BY <3>2 DEF DequeueWait, SpuriousWakeWorker, queueVars
    <3>3. CASE DtorPosted \/ DtorJoin
      BY <3>3 DEF DtorPosted, DtorJoin, sinkVars, queueVars
    <3>4. CASE UNCHANGED vars BY <3>4 DEF vars, sinkVars, queueVars
    <3> QED BY <1>8, <3>1, <3>2, <3>3, <3>4
  <2>2. NoLostWakeup' BY <1>t, <2>1, WakeupKept
  <2> QED BY <2>2 DEF NoLostWakeup, PostSet, Notifying
<1> QED BY <1>1, <1>2, <1>3, <1>4, <1>5, <1>6, <1>7, <1>8
        DEF Next, ThreadStep, WorkerStep, DtorStep

(* No wake-up is lost: for any number of threads and any length of the queue,
   nobody waits on a condition that holds unless a notify is still to come. *)
THEOREM WakeupsKept == Spec => []NoLostWakeup
<1> DEFINE Inv == TypeInv /\ NoLostWakeup
<1>1. Init => Inv
  <2>1. Init => TypeInv BY InitType, InitStage, InitQueue DEF TypeInv
  <2>2. Init => NoLostWakeup BY DEF Init, SinkInit, NoLostWakeup, Waiting
  <2> QED BY <2>1, <2>2
<1>2. Inv /\ [Next]_vars => Inv' BY TypeStep, WakeupStep
<1>3. Inv => NoLostWakeup OBVIOUS
<1> QED BY <1>1, <1>2, <1>3, PTL DEF Spec

-----------------------------------------------------------------------------
(* The lines in the texts. *)

(* Sequences of ordinals, their lengths named. *)
LEMMA Concatenation ==
    ASSUME NEW a \in Seq(Nat), NEW b \in Seq(Nat)
    PROVE  /\ Len(a) \in Nat /\ Len(b) \in Nat
           /\ Len(a \o b) = Len(a) + Len(b)
           /\ \A k \in 1..Len(a) : (a \o b)[k] = a[k]
           /\ \A k \in 1..Len(b) : (a \o b)[Len(a) + k] = b[k]
           /\ \A k \in 1..(Len(a) + Len(b)) : k \in 1..Len(a) \/ k - Len(a) \in 1..Len(b)
<1> DEFINE s == a \o b
<1>1. Len(a) \in Nat /\ Len(b) \in Nat BY LenProperties
<1>2. PICK p \in Nat : p = Len(a) BY <1>1
<1>3. PICK q \in Nat : q = Len(b) BY <1>1
<1>4. /\ Len(s) = p + q
      /\ \A i \in 1..(p + q) : s[i] = IF i <= p THEN a[i] ELSE b[i - p]
  BY <1>2, <1>3, ConcatProperties
<1> HIDE DEF s
<1>5. \A k \in 1..p : s[k] = a[k] BY <1>4
<1>6. ASSUME NEW k \in 1..q PROVE s[p + k] = b[k]
  <2>1. p + k \in 1..(p + q) /\ ~(p + k <= p) /\ (p + k) - p = k OBVIOUS
  <2>2. s[p + k] = b[(p + k) - p] BY <1>4, <2>1
  <2> QED BY <2>1, <2>2
<1>7. \A k \in 1..(p + q) : k \in 1..p \/ k - p \in 1..q OBVIOUS
<1> USE DEF s
<1> QED BY <1>2, <1>3, <1>4, <1>5, <1>6, <1>7

LEMMA IdsWithLine ==
    ASSUME NEW t \in Text, NEW l \in Line
    PROVE  /\ Ids(t) \subseteq Nat
           /\ Ids(WithLine(t, l)) = Ids(t) \cup {l.id}
<1>1. t.lines \in Seq(Nat) /\ l.id \in Nat BY LineIs DEF Text
<1>2. Ids(t) \subseteq Nat BY <1>1 DEF Ids
<1>3. Ids(WithLine(t, l)) = Ids(t) \cup {l.id}
  <2>1. WithLine(t, l).lines = Append(t.lines, l.id) BY DEF WithLine
  <2>2. /\ Len(Append(t.lines, l.id)) = Len(t.lines) + 1
        /\ \A k \in 1..Len(t.lines) : Append(t.lines, l.id)[k] = t.lines[k]
        /\ Append(t.lines, l.id)[Len(t.lines) + 1] = l.id
    BY <1>1
  <2>3. 1..(Len(t.lines) + 1) = 1..Len(t.lines) \cup {Len(t.lines) + 1} BY <1>1
  <2> QED BY <2>1, <2>2, <2>3 DEF Ids
<1> QED BY <1>2, <1>3

LEMMA IdsJoined ==
    ASSUME NEW t \in Text, NEW u \in Text
    PROVE  Ids(Joined(t, u)) = Ids(t) \cup Ids(u)
<1>1. t.lines \in Seq(Nat) /\ u.lines \in Seq(Nat) BY DEF Text
<1>4. Ids(Joined(t, u)) = Ids(t) \cup Ids(u)
  <2> DEFINE s == t.lines \o u.lines
  <2>1. Joined(t, u).lines = s BY DEF Joined
  <2>a. PICK p \in Nat : p = Len(t.lines) BY <1>1, LenProperties
  <2>b. PICK q \in Nat : q = Len(u.lines) BY <1>1, LenProperties
  <2>2. /\ Len(t.lines) = p /\ Len(u.lines) = q /\ Len(s) = p + q
        /\ \A k \in 1..p : s[k] = t.lines[k]
        /\ \A k \in 1..q : s[p + k] = u.lines[k]
        /\ \A k \in 1..(p + q) : k \in 1..p \/ k - p \in 1..q
    BY <1>1, <2>a, <2>b, Concatenation
  <2> HIDE DEF s
  <2>3. Ids(t) = {t.lines[k] : k \in 1..p} /\ Ids(u) = {u.lines[k] : k \in 1..q} BY <2>2 DEF Ids
  <2>4. ASSUME NEW k \in 1..(p + q) PROVE s[k] \in Ids(t) \cup Ids(u)
    <3>1. CASE k \in 1..p BY <2>2, <2>3, <3>1
    <3>2. CASE k - p \in 1..q
      <4>1. PICK h \in 1..q : h = k - p BY <3>2
      <4>2. k = p + h BY <4>1
      <4> QED BY <2>2, <2>3, <4>2
    <3> QED BY <2>2, <3>1, <3>2
  <2>5. ASSUME NEW k \in 1..p PROVE t.lines[k] \in {s[h] : h \in 1..(p + q)}
    <3>1. k \in 1..(p + q) OBVIOUS
    <3> QED BY <2>2, <3>1
  <2>6. ASSUME NEW k \in 1..q PROVE u.lines[k] \in {s[h] : h \in 1..(p + q)}
    <3>1. p + k \in 1..(p + q) OBVIOUS
    <3> QED BY <2>2, <3>1
  <2>7. Ids(t) \cup Ids(u) \subseteq {s[h] : h \in 1..(p + q)} BY <2>3, <2>5, <2>6
  <2>8. {s[h] : h \in 1..(p + q)} \subseteq Ids(t) \cup Ids(u) BY <2>4
  <2>9. Ids(Joined(t, u)) = {s[h] : h \in 1..(p + q)} BY <2>1, <2>2 DEF Ids
  <2> QED BY <2>7, <2>8, <2>9
<1> QED BY <1>4

LEMMA EmptyIds == Ids(Empty) = {} /\ Increasing(Empty.lines)
BY DEF Ids, Empty, Increasing

LEMMA IncreasingWithLine ==
    ASSUME NEW t \in Text, NEW l \in Line, Increasing(t.lines), \A m \in Ids(t) : m < l.id
    PROVE  Increasing(WithLine(t, l).lines)
<1>1. t.lines \in Seq(Nat) /\ l.id \in Nat BY LineIs DEF Text
<1>2. Increasing(WithLine(t, l).lines)
  <2>1. WithLine(t, l).lines = Append(t.lines, l.id) BY DEF WithLine
  <2>2. /\ Len(Append(t.lines, l.id)) = Len(t.lines) + 1
        /\ \A k \in 1..Len(t.lines) : Append(t.lines, l.id)[k] = t.lines[k]
        /\ Append(t.lines, l.id)[Len(t.lines) + 1] = l.id
    BY <1>1
  <2>3. Len(t.lines) \in Nat BY <1>1
  <2>4. \A k \in 1..Len(t.lines) : t.lines[k] < l.id BY DEF Ids
  <2> QED BY <2>1, <2>2, <2>3, <2>4 DEF Increasing
<1> QED BY <1>2

LEMMA IncreasingJoined ==
    ASSUME NEW t \in Text, NEW u \in Text, Increasing(t.lines), Increasing(u.lines),
           \A m \in Ids(t), n \in Ids(u) : m < n
    PROVE  Increasing(Joined(t, u).lines)
<1>1. t.lines \in Seq(Nat) /\ u.lines \in Seq(Nat) BY DEF Text
<1>3. Increasing(Joined(t, u).lines)
  <2> DEFINE s == t.lines \o u.lines
  <2>1. Joined(t, u).lines = s BY DEF Joined
  <2>a. PICK p \in Nat : p = Len(t.lines) BY <1>1, LenProperties
  <2>b. PICK q \in Nat : q = Len(u.lines) BY <1>1, LenProperties
  <2>2. /\ Len(t.lines) = p /\ Len(u.lines) = q /\ Len(s) = p + q
        /\ \A k \in 1..p : s[k] = t.lines[k]
        /\ \A k \in 1..q : s[p + k] = u.lines[k]
        /\ \A k \in 1..(p + q) : k \in 1..p \/ k - p \in 1..q
    BY <1>1, <2>a, <2>b, Concatenation
  <2> HIDE DEF s
  <2>3. /\ \A k \in 1..p : t.lines[k] \in Ids(t)
        /\ \A k \in 1..q : u.lines[k] \in Ids(u)
    BY <2>2 DEF Ids
  <2> SUFFICES ASSUME NEW i \in 1..(p + q), NEW j \in 1..(p + q), i < j PROVE s[i] < s[j]
    BY <2>1, <2>2 DEF Increasing
  <2>4. CASE i \in 1..p /\ j \in 1..p BY <2>2, <2>4 DEF Increasing
  <2>5. CASE i - p \in 1..q /\ j - p \in 1..q
    <3>1. PICK h \in 1..q, k \in 1..q : i = p + h /\ j = p + k /\ h < k
      <4>1. PICK h \in 1..q : h = i - p BY <2>5
      <4>2. PICK k \in 1..q : k = j - p BY <2>5
      <4>3. i = p + h /\ j = p + k /\ h < k BY <4>1, <4>2
      <4> QED BY <4>3
    <3> QED BY <2>2, <3>1 DEF Increasing
  <2>6. CASE i \in 1..p /\ j - p \in 1..q
    <3>1. PICK k \in 1..q : k = j - p BY <2>6
    <3>2. j = p + k BY <3>1
    <3> QED BY <2>2, <2>3, <2>6, <3>2
  <2>7. ~(i - p \in 1..q /\ j \in 1..p) OBVIOUS
  <2> QED BY <2>2, <2>4, <2>5, <2>6, <2>7
<1> QED BY <1>3

-----------------------------------------------------------------------------
(* The order of the lines, from the oldest file to the back of the queue. *)

LinesOf(f) == UNION {Ids(f[i]) : i \in DOMAIN f}

Disk == LinesOf(files) \cup Ids(stdio)

Hand == IF cur \in Line THEN {cur.id} ELSE {}

FilesOrdered(f) ==
    /\ \A i \in DOMAIN f : Increasing(f[i].lines)
    /\ \A i, j \in DOMAIN f : j < i => \A m \in Ids(f[i]), n \in Ids(f[j]) : m < n

NoBytesWithoutLine(f) == \A i \in DOMAIN f : f[i].size > 0 => Ids(f[i]) # {}

DiskOrdered ==
    /\ FilesOrdered(files)
    /\ Increasing(stdio.lines)
    /\ \A m \in LinesOf(files), n \in Ids(stdio) : m < n
    /\ NoBytesWithoutLine(files)
    /\ stdio.size > 0 => Ids(stdio) # {}

QueueOrdered ==
    /\ \A i, j \in Occupied :
           v_[i] \in Line /\ v_[j] \in Line /\ Pos(i) < Pos(j) => v_[i].id < v_[j].id
    /\ \A m \in Queued : m <= posted

StagesOrdered ==
    /\ \A m \in Disk, n \in Hand \cup Queued : m < n
    /\ \A m \in Hand, n \in Queued : m < n
    /\ \A m \in Disk \cup Hand : m <= posted

OrderOK == DiskOrdered /\ QueueOrdered /\ StagesOrdered

LEMMA LinesOfIs == \A f, m : m \in LinesOf(f) <=> \E i \in DOMAIN f : m \in Ids(f[i])
BY DEF LinesOf

LEMMA SameLines ==
    ASSUME NEW f, FilesOrdered(f), NoBytesWithoutLine(f)
    PROVE  /\ LinesOf(Opened(f)) = LinesOf(f)
           /\ LinesOf(Truncated(f)) \subseteq LinesOf(f)
           /\ FilesOrdered(Opened(f)) /\ NoBytesWithoutLine(Opened(f))
           /\ FilesOrdered(Truncated(f)) /\ NoBytesWithoutLine(Truncated(f))
<1>e. Ids(Empty) = {} /\ Increasing(Empty.lines) /\ ~(Empty.size > 0)
  BY EmptyIds DEF Empty
<1>1. /\ DOMAIN Opened(f) = DOMAIN f \cup {0}
      /\ \A i \in DOMAIN Opened(f) : Opened(f)[i] = IF i \in DOMAIN f THEN f[i] ELSE Empty
  BY DEF Opened
<1>2. /\ DOMAIN Truncated(f) = DOMAIN f \cup {0}
      /\ \A i \in DOMAIN Truncated(f) : Truncated(f)[i] = IF i = 0 THEN Empty ELSE f[i]
  BY DEF Truncated
<1>3. LinesOf(Opened(f)) = LinesOf(f)
  <2>1. \A m : m \in LinesOf(Opened(f)) <=> m \in LinesOf(f) BY <1>e, <1>1, LinesOfIs
  <2> QED BY <2>1
<1>4. LinesOf(Truncated(f)) \subseteq LinesOf(f) BY <1>e, <1>2, LinesOfIs
<1>5. FilesOrdered(Opened(f)) BY <1>e, <1>1 DEF FilesOrdered
<1>6. FilesOrdered(Truncated(f)) BY <1>e, <1>2 DEF FilesOrdered
<1>7. NoBytesWithoutLine(Opened(f)) BY <1>e, <1>1 DEF NoBytesWithoutLine
<1>8. NoBytesWithoutLine(Truncated(f)) BY <1>e, <1>2 DEF NoBytesWithoutLine
<1> QED BY <1>3, <1>4, <1>5, <1>6, <1>7, <1>8

LEMMA WithoutLines ==
    ASSUME NEW f, FilesOrdered(f), NoBytesWithoutLine(f), NEW h
    PROVE  /\ LinesOf(Without(f, h)) \subseteq LinesOf(f)
           /\ FilesOrdered(Without(f, h)) /\ NoBytesWithoutLine(Without(f, h))
<1>1. /\ DOMAIN Without(f, h) = DOMAIN f \ {h}
      /\ \A i \in DOMAIN Without(f, h) : Without(f, h)[i] = f[i]
  BY DEF Without
<1>2. LinesOf(Without(f, h)) \subseteq LinesOf(f) BY <1>1, LinesOfIs
<1>3. FilesOrdered(Without(f, h)) BY <1>1 DEF FilesOrdered
<1>4. NoBytesWithoutLine(Without(f, h)) BY <1>1 DEF NoBytesWithoutLine
<1> QED BY <1>2, <1>3, <1>4

LEMMA RenamedLines ==
    ASSUME NEW f, FilesOK(f), FilesOrdered(f), NoBytesWithoutLine(f), NEW h \in Int,
           h - 1 \in DOMAIN f, h \notin DOMAIN f
    PROVE  /\ LinesOf(Renamed(f, h - 1, h)) = LinesOf(f)
           /\ FilesOrdered(Renamed(f, h - 1, h)) /\ NoBytesWithoutLine(Renamed(f, h - 1, h))
<1> DEFINE g == Renamed(f, h - 1, h)
<1>1. /\ DOMAIN g = (DOMAIN f \ {h - 1}) \cup {h}
      /\ \A i \in DOMAIN g : g[i] = IF i = h THEN f[h - 1] ELSE f[i]
  BY DEF Renamed
<1> HIDE DEF g
<1>2. DOMAIN f \subseteq Int BY DEF FilesOK
<1>3. \A m : m \in LinesOf(g) <=> m \in LinesOf(f)
  <2> SUFFICES ASSUME NEW m PROVE m \in LinesOf(g) <=> m \in LinesOf(f) OBVIOUS
  <2>1. ASSUME NEW i \in DOMAIN g, m \in Ids(g[i]) PROVE m \in LinesOf(f)
    BY <1>1, <2>1, LinesOfIs
  <2>2. ASSUME NEW i \in DOMAIN f, m \in Ids(f[i]) PROVE m \in LinesOf(g)
    <3>1. CASE i = h - 1
      <4>1. h \in DOMAIN g /\ g[h] = f[i] BY <1>1, <3>1
      <4> QED BY <2>2, <4>1, LinesOfIs
    <3>2. CASE i # h - 1
      <4>1. i \in DOMAIN g /\ g[i] = f[i] BY <1>1, <3>2
      <4> QED BY <2>2, <4>1, LinesOfIs
    <3> QED BY <3>1, <3>2
  <2> QED BY <2>1, <2>2, LinesOfIs
<1>4. ASSUME NEW i \in DOMAIN g, NEW j \in DOMAIN g, j < i, NEW m \in Ids(g[i]), NEW n \in Ids(g[j])
      PROVE  m < n
  <2>1. CASE i = h
    <3>1. g[i] = f[h - 1] /\ j \in DOMAIN f /\ g[j] = f[j] /\ j # h - 1 /\ j \in Int
      BY <1>1, <1>2, <1>4, <2>1
    <3>2. j < h - 1 BY <1>4, <2>1, <3>1
    <3> QED BY <3>1, <3>2, <1>4 DEF FilesOrdered
  <2>2. CASE j = h
    <3>1. g[j] = f[h - 1] /\ i \in DOMAIN f /\ g[i] = f[i] /\ i # h - 1 /\ i \in Int
      BY <1>1, <1>2, <1>4, <2>2
    <3>2. h - 1 < i BY <1>4, <2>2, <3>1
    <3> QED BY <3>1, <3>2, <1>4 DEF FilesOrdered
  <2>3. CASE i # h /\ j # h
    <3>1. i \in DOMAIN f /\ j \in DOMAIN f /\ g[i] = f[i] /\ g[j] = f[j] BY <1>1, <2>3
    <3> QED BY <3>1, <1>4 DEF FilesOrdered
  <2> QED BY <2>1, <2>2, <2>3
<1>5. \A i \in DOMAIN g : Increasing(g[i].lines) BY <1>1 DEF FilesOrdered
<1>6. FilesOrdered(g) BY <1>4, <1>5 DEF FilesOrdered
<1>7. NoBytesWithoutLine(g) BY <1>1 DEF NoBytesWithoutLine
<1>8. LinesOf(g) = LinesOf(f) BY <1>3
<1> QED BY <1>6, <1>7, <1>8 DEF g

LEMMA FlushedLines ==
    ASSUME TypeOK, StageOK, DiskOrdered
    PROVE  /\ LinesOf(Flushed) = LinesOf(files) \cup Ids(stdio)
           /\ FilesOrdered(Flushed) /\ NoBytesWithoutLine(Flushed)
<1>1. CASE fd_open
  <2>1. files[0] \in Text /\ stdio \in Text /\ 0 \in DOMAIN files
    BY <1>1 DEF TypeOK, SinkTypeOK, StageOK
  <2>2. Flushed = [i \in DOMAIN files |-> IF i = 0 THEN Joined(files[0], stdio) ELSE files[i]]
    BY <1>1 DEF Flushed
  <2> DEFINE g == Flushed
  <2>3. /\ DOMAIN g = DOMAIN files
        /\ g[0] = Joined(files[0], stdio)
        /\ \A i \in DOMAIN files : i # 0 => g[i] = files[i]
    BY <2>1, <2>2
  <2>4. Ids(g[0]) = Ids(files[0]) \cup Ids(stdio)
    <3>2. Ids(Joined(files[0], stdio)) = Ids(files[0]) \cup Ids(stdio) BY <2>1, IdsJoined
    <3> QED BY <2>3, <3>2
  <2> HIDE DEF g
  <2>5. \A m : m \in LinesOf(g) <=> m \in LinesOf(files) \cup Ids(stdio)
    <3> SUFFICES ASSUME NEW m PROVE m \in LinesOf(g) <=> m \in LinesOf(files) \cup Ids(stdio)
      OBVIOUS
    <3>1. ASSUME NEW i \in DOMAIN g, m \in Ids(g[i]) PROVE m \in LinesOf(files) \cup Ids(stdio)
      BY <2>1, <2>3, <2>4, <3>1, LinesOfIs
    <3>2. ASSUME NEW i \in DOMAIN files, m \in Ids(files[i]) PROVE m \in LinesOf(g)
      <4>1. m \in Ids(g[i]) BY <2>3, <2>4, <3>2
      <4> QED BY <2>3, <4>1, LinesOfIs
    <3>3. m \in Ids(stdio) => m \in LinesOf(g) BY <2>1, <2>3, <2>4, LinesOfIs
    <3> QED BY <3>1, <3>2, <3>3, LinesOfIs
  <2>6. Increasing(g[0].lines)
    <3>1. \A m \in Ids(files[0]), n \in Ids(stdio) : m < n
      BY <2>1, LinesOfIs DEF DiskOrdered
    <3>2. Increasing(files[0].lines) /\ Increasing(stdio.lines)
      BY <2>1 DEF DiskOrdered, FilesOrdered
    <3> QED BY <2>1, <2>3, <3>1, <3>2, IncreasingJoined
  <2>7. ASSUME NEW i \in DOMAIN g, NEW j \in DOMAIN g, j < i,
               NEW m \in Ids(g[i]), NEW n \in Ids(g[j])
        PROVE  m < n
    <3>1. i # 0 /\ g[i] = files[i] /\ i \in DOMAIN files /\ j \in DOMAIN files
      <4>1. i \in 0..MaxFiles /\ j \in 0..MaxFiles BY <2>3 DEF TypeOK, SinkTypeOK
      <4>2. i # 0 BY <2>7, <4>1
      <4> QED BY <2>3, <4>2
    <3>2. m \in LinesOf(files) BY <3>1, LinesOfIs
    <3>3. n \in Ids(files[j]) \/ n \in Ids(stdio) BY <2>3, <2>4, <3>1
    <3> QED BY <2>7, <3>1, <3>2, <3>3 DEF DiskOrdered, FilesOrdered
  <2>8. FilesOrdered(g)
    <3>1. \A i \in DOMAIN g : Increasing(g[i].lines)
      BY <2>3, <2>6 DEF DiskOrdered, FilesOrdered
    <3> QED BY <2>7, <3>1 DEF FilesOrdered
  <2>9. NoBytesWithoutLine(g)
    <3>1. g[0].size > 0 => Ids(g[0]) # {}
      <4>1. g[0].size = files[0].size + stdio.size BY <2>3 DEF Joined
      <4>2. files[0].size \in Nat /\ stdio.size \in Nat BY <2>1 DEF Text
      <4>3. g[0].size > 0 => files[0].size > 0 \/ stdio.size > 0 BY <4>1, <4>2
      <4> QED BY <2>1, <2>4, <4>3 DEF DiskOrdered, NoBytesWithoutLine
    <3> QED BY <2>3, <3>1 DEF DiskOrdered, NoBytesWithoutLine
  <2>10. LinesOf(g) = LinesOf(files) \cup Ids(stdio) BY <2>5
  <2> QED BY <2>8, <2>9, <2>10 DEF g
<1>2. CASE ~fd_open
  <2>1. Flushed = files /\ Ids(stdio) = {} BY <1>2, EmptyIds DEF Flushed, StageOK
  <2> QED BY <2>1 DEF DiskOrdered
<1> QED BY <1>1, <1>2

(* What a step of the sink does to the lines. *)
Moves == Disk' = Disk /\ Hand' = Hand /\ faults' = faults

Keeps == cur \in Line /\ Disk' = Disk \cup {cur.id} /\ Hand' = {} /\ faults' = faults

Forgets ==
    /\ Disk' \subseteq Disk /\ Hand' = Hand /\ faults' = faults
    /\ \A m \in Disk \ Disk' : (\E n \in Disk' : m < n) /\ (\A n \in Disk' : m < n)

Loses == Disk' \subseteq Disk /\ Hand' \subseteq Hand /\ faults' > 0

LEMMA SinkEffect ==
    ASSUME TypeInv, DiskOrdered, \A m \in Disk, n \in Hand : m < n, Sink
    PROVE  /\ DiskOrdered'
           /\ Moves \/ Keeps \/ Forgets \/ Loses
<1>t. TypeOK /\ StageOK /\ SinkTypeOK BY DEF TypeInv, TypeOK
<1>o. FilesOrdered(files) /\ NoBytesWithoutLine(files) BY DEF DiskOrdered
<1>f. FilesOK(files) BY <1>t DEF FilesOK, SinkTypeOK
<1>e. Ids(Empty) = {} /\ Increasing(Empty.lines) /\ ~(Empty.size > 0)
  BY EmptyIds DEF Empty
<1>l. NoLine \notin Line BY LineIs
<1>d. ASSUME UNCHANGED <<files, stdio>> PROVE DiskOrdered' /\ Disk' = Disk
  BY <1>d DEF DiskOrdered, Disk
<1>r. ASSUME files' \in {files, Truncated(files)}, stdio' = stdio, stdio = Empty
      PROVE  DiskOrdered' /\ Disk' \subseteq Disk
  <2>1. /\ FilesOrdered(files') /\ NoBytesWithoutLine(files')
        /\ LinesOf(files') \subseteq LinesOf(files)
    BY <1>o, <1>r, SameLines
  <2>2. Ids(stdio') = {} /\ Increasing(stdio'.lines) /\ ~(stdio'.size > 0) BY <1>e, <1>r
  <2> QED BY <2>1, <2>2 DEF DiskOrdered, Disk
<1>g. ASSUME files' = Flushed, stdio' = Empty \/ (stdio' = stdio /\ stdio = Empty)
      PROVE  DiskOrdered' /\ Disk' = Disk
  <2>1. /\ FilesOrdered(files') /\ NoBytesWithoutLine(files')
        /\ LinesOf(files') = LinesOf(files) \cup Ids(stdio)
    BY <1>t, <1>g, FlushedLines
  <2>2. Ids(stdio') = {} /\ Increasing(stdio'.lines) /\ ~(stdio'.size > 0) BY <1>e, <1>g
  <2> QED BY <2>1, <2>2 DEF DiskOrdered, Disk
<1>1. CASE SinkFits BY <1>1, <1>d DEF SinkFits, Moves, Hand
<1>2. CASE SinkFull
  <2>1. files' = Flushed /\ stdio' = Empty /\ cur' = cur /\ faults' = faults
    BY <1>2 DEF SinkFull
  <2> QED BY <2>1, <1>g DEF Moves, Hand
<1>3. CASE SinkFullThrows \/ ReopenFails \/ WriteFails
  <2>1. faults' > 0
    <3>1. faults \in Nat BY <1>t DEF SinkTypeOK
    <3>2. CASE SinkFullThrows /\ ~fd_open
      <4>1. worker_pc = "sink" /\ faults' = faults BY <3>2 DEF SinkFullThrows
      <4>2. dtor_pc # "down" BY <4>1 DEF TypeInv, QueueOK
      <4> QED BY <1>t, <3>2, <4>1, <4>2 DEF StageOK, Rotating
    <3>3. CASE (SinkFullThrows /\ fd_open) \/ ReopenFails \/ WriteFails
      <4>1. faults' = faults + 1
        BY <3>3, Zenon DEF SinkFullThrows, ReopenFails, WriteFails, Fault
      <4> QED BY <3>1, <4>1
    <3> QED BY <1>3, <3>2, <3>3
  <2>2. cur' = NoLine /\ stdio' = stdio
    BY <1>3, Zenon DEF SinkFullThrows, ReopenFails, WriteFails, Dropped
  <2>3. CASE ReopenFails
    <3>1. stdio = Empty /\ files' \in {files, Truncated(files)}
      BY <1>t, <2>3 DEF ReopenFails, StageOK, Rotating
    <3> QED BY <1>r, <1>l, <2>1, <2>2, <3>1 DEF Loses, Hand
  <2>4. CASE SinkFullThrows \/ WriteFails
    <3>1. UNCHANGED <<files, stdio>> BY <2>4 DEF SinkFullThrows, WriteFails
    <3> QED BY <1>d, <1>l, <2>1, <2>2, <3>1 DEF Loses, Hand
  <2> QED BY <1>3, <2>3, <2>4
<1>4. CASE RotateSkip BY <1>4, <1>d DEF RotateSkip, Moves, Hand
<1>5. CASE RemoveTarget
  <2>1. /\ files' = Without(files, rot_i)
        /\ UNCHANGED <<cur, stdio, faults>>
        /\ rot_i \in 1..MaxFiles
        /\ stdio = Empty
        /\ 0 \in DOMAIN files /\ files[0].size > 0
        /\ rot_i < MaxFiles => rot_i \notin DOMAIN files
    BY <1>5, <1>t DEF RemoveTarget, StageOK, Rotating, SinkTypeOK
  <2>2. /\ FilesOrdered(files') /\ NoBytesWithoutLine(files')
        /\ LinesOf(files') \subseteq LinesOf(files)
    BY <1>o, <2>1, WithoutLines
  <2>3. /\ DOMAIN files' = DOMAIN files \ {rot_i}
        /\ \A i \in DOMAIN files' : files'[i] = files[i]
    BY <2>1 DEF Without
  <2>4. DiskOrdered' /\ Disk' \subseteq Disk /\ Disk' = LinesOf(files') /\ Disk = LinesOf(files)
    BY <1>e, <2>1, <2>2 DEF DiskOrdered, Disk
  <2>5. ASSUME NEW m \in Disk \ Disk' PROVE (\E n \in Disk' : m < n) /\ (\A n \in Disk' : m < n)
    <3>1. PICK i \in DOMAIN files : m \in Ids(files[i]) BY <2>4, <2>5, LinesOfIs
    <3>2. i = rot_i BY <2>3, <2>4, <2>5, <3>1, LinesOfIs
    <3>3. rot_i = MaxFiles BY <2>1, <3>2
    <3>4. \A j \in DOMAIN files' : j < rot_i
      <4>1. \A j \in DOMAIN files' : j \in 0..MaxFiles /\ j # rot_i
        BY <1>f, <2>3 DEF FilesOK
      <4> QED BY <3>3, <4>1
    <3>5. \A n \in Disk' : m < n
      <4> SUFFICES ASSUME NEW n \in Disk' PROVE m < n OBVIOUS
      <4>1. PICK j \in DOMAIN files' : n \in Ids(files'[j]) BY <2>4, LinesOfIs
      <4>2. j < i /\ j \in DOMAIN files /\ n \in Ids(files[j]) BY <2>3, <3>2, <3>4, <4>1
      <4> QED BY <1>o, <3>1, <4>2 DEF FilesOrdered
    <3>6. Disk' # {}
      <4>1. 0 \in DOMAIN files' /\ files'[0] = files[0] BY <2>1, <2>3
      <4>2. Ids(files'[0]) # {} BY <1>o, <2>1, <4>1 DEF NoBytesWithoutLine
      <4> QED BY <2>4, <4>1, <4>2, LinesOfIs
    <3> QED BY <3>5, <3>6
  <2> QED BY <2>1, <2>4, <2>5 DEF Forgets, Hand
<1>6. CASE Rename
  <2>1. /\ files' = Renamed(files, rot_i - 1, rot_i)
        /\ UNCHANGED <<cur, stdio, faults>>
        /\ rot_i - 1 \in DOMAIN files /\ rot_i \notin DOMAIN files
        /\ rot_i \in Int
        /\ stdio = Empty
    BY <1>6, <1>t DEF Rename, StageOK, Rotating, SinkTypeOK
  <2>2. /\ FilesOrdered(files') /\ NoBytesWithoutLine(files')
        /\ LinesOf(files') = LinesOf(files)
    BY <1>o, <1>f, <2>1, RenamedLines
  <2> QED BY <1>e, <2>1, <2>2 DEF DiskOrdered, Disk, Moves, Hand
<1>7. CASE RenameFails
  <2>1. faults' > 0 BY <1>7, <1>t DEF RenameFails, Fault, SinkTypeOK
  <2>2. cur' = NoLine /\ stdio' = stdio /\ stdio = Empty
    BY <1>7, <1>t DEF RenameFails, Dropped, StageOK, Rotating
  <2>3. files' \in {files, Truncated(files)} BY <1>7 DEF RenameFails
  <2> QED BY <1>r, <1>l, <2>1, <2>2, <2>3 DEF Loses, Hand
<1>8. CASE Reopen
  <2>1. /\ files' = Truncated(files) /\ UNCHANGED <<cur, stdio, faults>>
        /\ stdio = Empty /\ 0 \notin DOMAIN files
    BY <1>8, <1>t DEF Reopen, StageOK, Rotating
  <2>2. Truncated(files) = Opened(files) BY <2>1 DEF Truncated, Opened
  <2>3. LinesOf(files') = LinesOf(files) BY <1>o, <2>1, <2>2, SameLines
  <2>4. DiskOrdered' BY <1>r, <2>1
  <2> QED BY <2>1, <2>3, <2>4 DEF Moves, Hand, Disk
<1>10. CASE Write
  <2>1. /\ cur \in Line /\ cur' = NoLine /\ files' = files /\ faults' = faults
        /\ worker_pc = "write"
        /\ stdio' = IF fd_open THEN WithLine(stdio, cur) ELSE stdio
    BY <1>10, <1>t DEF Write, SinkTypeOK, SinkPc
  <2>2. CASE fd_open
    <3>1. stdio' = WithLine(stdio, cur) /\ stdio \in Text BY <1>t, <2>1, <2>2 DEF SinkTypeOK
    <3>2. Ids(stdio') = Ids(stdio) \cup {cur.id} BY <2>1, <3>1, IdsWithLine
    <3>3. \A m \in LinesOf(files) \cup Ids(stdio) : m < cur.id BY <2>1 DEF Disk, Hand
    <3>4. Increasing(stdio'.lines)
      BY <2>1, <3>1, <3>3, IncreasingWithLine DEF DiskOrdered
    <3>5. DiskOrdered' BY <1>o, <2>1, <3>2, <3>3, <3>4 DEF DiskOrdered
    <3>6. Disk' = Disk \cup {cur.id} BY <2>1, <3>2 DEF Disk
    <3>7. Hand' = {} BY <1>l, <2>1 DEF Hand
    <3> QED BY <2>1, <3>5, <3>6, <3>7 DEF Keeps
  <2>3. CASE ~fd_open
    <3>1. dtor_pc # "down" BY <2>1 DEF TypeInv, QueueOK
    <3>2. faults' > 0 BY <1>t, <2>1, <2>3, <3>1 DEF StageOK, Rotating
    <3>3. UNCHANGED <<files, stdio>> BY <2>1, <2>3
    <3> QED BY <1>d, <1>l, <2>1, <3>2, <3>3 DEF Loses, Hand
  <2> QED BY <2>2, <2>3
<1>12. CASE Flush
  <2>1. /\ files' = Flushed /\ UNCHANGED <<cur, faults>>
        /\ stdio' = Empty \/ (stdio' = stdio /\ stdio = Empty)
    BY <1>12, <1>t DEF Flush, StageOK
  <2> QED BY <1>g, <2>1 DEF Moves, Hand
<1>13. CASE FlushFails
  <2>1. UNCHANGED <<files, stdio, cur>> /\ faults' > 0
    BY <1>13, <1>t DEF FlushFails, Fault, SinkTypeOK
  <2> QED BY <1>d, <2>1 DEF Loses, Hand
<1> QED BY <1>1, <1>2, <1>3, <1>4, <1>5, <1>6, <1>7, <1>8, <1>10, <1>12, <1>13
        DEF Sink, SinkStep

LEMMA QueuedIs ==
    /\ \A m : m \in Queued <=> \E i \in Occupied : v_[i] \in Line /\ v_[i].id = m
    /\ \A m : m \in Hand <=> cur \in Line /\ m = cur.id
BY DEF Queued, Hand

LEMMA OrderNats ==
    ASSUME TypeOK
    PROVE  Queued \subseteq Nat /\ Hand \subseteq Nat /\ Disk \subseteq Nat
<1>1. Queued \subseteq Nat /\ Hand \subseteq Nat BY LineIs DEF Queued, Hand
<1>2. \A t \in Text : Ids(t) \subseteq Nat
  <2> SUFFICES ASSUME NEW t \in Text PROVE Ids(t) \subseteq Nat OBVIOUS
  <2>1. t.lines \in Seq(Nat) BY DEF Text
  <2> QED BY <2>1 DEF Ids
<1>3. Disk \subseteq Nat BY <1>2 DEF Disk, LinesOf, TypeOK, SinkTypeOK
<1> QED BY <1>1, <1>3

(* The thread has the line in its hands only where InHand says so. *)
LEMMA HandIs == ASSUME TypeOK PROVE InHand = Hand /\ Written = LinesOf(files)
<1>1. worker_pc \notin SinkPc \cup {"notify"} => cur \notin Line
  <2>1. worker_pc \notin SinkPc \cup {"notify"} => cur = NoLine
    BY DEF TypeOK, SinkTypeOK, SinkPc
  <2> QED BY <2>1, LineIs
<1> QED BY <1>1 DEF InHand, Hand, Written, LinesOf

(* A step that leaves queue and ordinals alone. *)
LEMMA OrderKept ==
    ASSUME OrderOK, UNCHANGED <<v_, head_, tail_, posted>>, DiskOrdered',
           Disk' \subseteq Disk \cup Hand, Hand' \subseteq Hand,
           Hand' = {} \/ Disk' \subseteq Disk
    PROVE  OrderOK' /\ Queued' = Queued
<1>1. Occupied' = Occupied /\ (\A i : Pos(i)' = Pos(i)) /\ Queued' = Queued
  <2>1. Occupied' = Occupied /\ \A i : Pos(i)' = Pos(i) BY DEF Occupied, Pos, Size, Slots
  <2> QED BY <2>1 DEF Queued
<1>2. QueueOrdered' BY <1>1 DEF OrderOK, QueueOrdered
<1>3. StagesOrdered' BY <1>1 DEF OrderOK, StagesOrdered
<1> QED BY <1>1, <1>2, <1>3 DEF OrderOK

LEMMA EnqueueOrder ==
    ASSUME TypeInv, OrderOK, NEW t \in Threads, Enqueue(t)
    PROVE  /\ OrderOK'
           /\ \/ /\ dtor_pc = "up" /\ posted' = posted + 1
                 /\ Queued' = Queued \cup {posted + 1}
              \/ UNCHANGED posted /\ Queued' = Queued
<1>t. TypeOK BY DEF TypeInv
<1>u. UNCHANGED <<files, stdio, cur>> BY DEF Enqueue, sinkVars
<1>h. Disk' = Disk /\ Hand' = Hand /\ DiskOrdered'
  BY <1>u DEF Disk, Hand, DiskOrdered, OrderOK
<1>n. Queued \subseteq Nat /\ Hand \subseteq Nat /\ Disk \subseteq Nat /\ posted \in Nat
  BY <1>t, OrderNats DEF TypeOK
<1>f. ~QueueFull BY DEF Enqueue
<1>p. ASSUME NEW item \in Line \cup {Terminate}, PushBack(item)
      PROVE  /\ tail_ \notin Occupied
             /\ Occupied' = Occupied \cup {tail_}
             /\ \A i \in Occupied' : Pos(i)' = Pos(i)
             /\ \A i \in Occupied : Pos(i) < Pos(tail_)
             /\ v_'[tail_] = item
             /\ \A i \in Occupied : v_'[i] = v_[i]
             /\ \A i \in Occupied' : Pos(i) \in Nat
  <2>1. /\ tail_ \notin Occupied
        /\ Occupied' = Occupied \cup {tail_}
        /\ \A i \in Slots : Pos(i)' = Pos(i)
        /\ Pos(tail_) = Size
        /\ v_'[tail_] = item
        /\ \A i \in Occupied : v_'[i] = v_[i]
    BY <1>t, <1>f, <1>p, PushBackQueue
  <2>2. Occupied' \subseteq Slots BY <1>t, <2>1 DEF TypeOK, Occupied
  <2>3. \A i \in Occupied : Pos(i) < Pos(tail_) BY <2>1 DEF Occupied
  <2>4. \A i \in Slots : Pos(i) \in Nat BY <1>t, FrontOccupied
  <2> QED BY <2>1, <2>2, <2>3, <2>4
<1>1. CASE dtor_pc = "up"
  <2>1. PICK size \in LineSizes : PushBack([id |-> posted + 1, size |-> size])
    BY <1>1 DEF Enqueue
  <2>2. posted' = posted + 1 BY <1>1 DEF Enqueue
  <2>3. PICK item \in Line : item.id = posted + 1 /\ PushBack(item)
    <3>1. [id |-> posted + 1, size |-> size] \in Line BY <1>n DEF Line
    <3> QED BY <2>1, <3>1
  <2>4. /\ tail_ \notin Occupied
        /\ Occupied' = Occupied \cup {tail_}
        /\ \A i \in Occupied' : Pos(i)' = Pos(i)
        /\ \A i \in Occupied : Pos(i) < Pos(tail_)
        /\ v_'[tail_] = item
        /\ \A i \in Occupied : v_'[i] = v_[i]
        /\ \A i \in Occupied' : Pos(i) \in Nat
    BY <1>p, <2>3
  <2>5. \A m : m \in Queued' <=> m \in Queued \cup {posted + 1}
    <3>1. \A m : m \in Queued' <=> \E i \in Occupied' : v_'[i] \in Line /\ v_'[i].id = m
      BY DEF Queued
    <3> QED BY <2>3, <2>4, <3>1, QueuedIs
  <2>6. QueueOrdered'
    <3>1. ASSUME NEW i \in Occupied', NEW j \in Occupied',
                 v_'[i] \in Line, v_'[j] \in Line, Pos(i)' < Pos(j)'
          PROVE  v_'[i].id < v_'[j].id
      <4>1. i # tail_
        <5>1. ASSUME i = tail_ PROVE FALSE
          <6>1. Pos(tail_) < Pos(j) BY <2>4, <3>1, <5>1
          <6>2. j \in Occupied \/ j = tail_ BY <2>4
          <6> QED BY <2>4, <6>1, <6>2
        <5> QED BY <5>1
      <4>2. i \in Occupied /\ v_'[i] = v_[i] BY <2>4, <4>1
      <4>3. CASE j = tail_
        <5>1. v_[i].id \in Queued BY <3>1, <4>2, QueuedIs
        <5>2. v_[i].id <= posted BY <5>1 DEF OrderOK, QueueOrdered
        <5>3. v_[i].id < posted + 1
          <6>1. PICK m \in Nat : m = v_[i].id BY <1>n, <5>1
          <6> QED BY <1>n, <5>2, <6>1
        <5>4. v_'[j].id = posted + 1 BY <2>3, <2>4, <4>3
        <5> QED BY <4>2, <5>3, <5>4
      <4>4. CASE j # tail_
        <5>1. j \in Occupied /\ v_'[j] = v_[j] BY <2>4, <4>4
        <5> QED BY <2>4, <3>1, <4>2, <5>1 DEF OrderOK, QueueOrdered
      <4> QED BY <4>3, <4>4
    <3>2. ASSUME NEW m \in Queued' PROVE m <= posted'
      <4>1. m \in Queued => m <= posted /\ m \in Nat BY <1>n DEF OrderOK, QueueOrdered
      <4>2. m \in Queued \/ m = posted + 1 BY <2>5
      <4> QED BY <1>n, <2>2, <4>1, <4>2
    <3> QED BY <3>1, <3>2 DEF QueueOrdered
  <2>7. StagesOrdered'
    <3>1. \A m \in Disk \cup Hand : m <= posted BY DEF OrderOK, StagesOrdered
    <3>2. \A m \in Disk \cup Hand : m < posted + 1 /\ m <= posted + 1 BY <1>n, <3>1
    <3> QED BY <1>h, <2>2, <2>5, <3>2 DEF OrderOK, StagesOrdered
  <2>8. Queued' = Queued \cup {posted + 1} BY <2>5
  <2> QED BY <1>1, <1>h, <2>2, <2>6, <2>7, <2>8 DEF OrderOK
<1>2. CASE dtor_pc # "up"
  <2>1. PushBack(Terminate) /\ posted' = posted BY <1>2 DEF Enqueue
  <2>2. /\ tail_ \notin Occupied
        /\ Occupied' = Occupied \cup {tail_}
        /\ \A i \in Occupied' : Pos(i)' = Pos(i)
        /\ \A i \in Occupied : Pos(i) < Pos(tail_)
        /\ v_'[tail_] = Terminate
        /\ \A i \in Occupied : v_'[i] = v_[i]
    BY <1>p, <2>1
  <2>3. Terminate \notin Line OBVIOUS
  <2>4. \A m : m \in Queued' <=> m \in Queued
    <3>1. \A m : m \in Queued' <=> \E i \in Occupied' : v_'[i] \in Line /\ v_'[i].id = m
      BY DEF Queued
    <3> QED BY <2>2, <2>3, <3>1, QueuedIs
  <2>5. Queued' = Queued BY <2>4
  <2>6. QueueOrdered'
    <3>1. ASSUME NEW i \in Occupied', NEW j \in Occupied',
                 v_'[i] \in Line, v_'[j] \in Line, Pos(i)' < Pos(j)'
          PROVE  v_'[i].id < v_'[j].id
      <4>1. /\ i \in Occupied /\ v_'[i] = v_[i] /\ Pos(i)' = Pos(i)
            /\ j \in Occupied /\ v_'[j] = v_[j] /\ Pos(j)' = Pos(j)
        BY <2>2, <2>3, <3>1
      <4> QED BY <3>1, <4>1 DEF OrderOK, QueueOrdered
    <3> QED BY <2>1, <2>5, <3>1 DEF OrderOK, QueueOrdered
  <2>7. StagesOrdered' BY <1>h, <2>1, <2>5 DEF OrderOK, StagesOrdered
  <2> QED BY <1>h, <2>1, <2>5, <2>6, <2>7 DEF OrderOK
<1> QED BY <1>1, <1>2

LEMMA DequeueOrder ==
    ASSUME TypeInv, OrderOK, Dequeue
    PROVE  OrderOK' /\ Disk' = Disk /\ Queued' \cup Hand' = Queued \cup Hand
<1>t. TypeOK BY DEF TypeInv
<1>1. /\ worker_pc = "check" /\ ~QueueEmpty /\ PopFront /\ cur' = v_[head_]
      /\ UNCHANGED <<files, stdio, posted>>
  BY DEF Dequeue
<1>2. /\ Occupied' = Occupied \ {head_}
      /\ \A i \in Occupied' : Pos(i)' = Pos(i) - 1 /\ v_'[i] = v_[i]
  BY <1>t, <1>1, PopFrontQueue
<1>3. head_ \in Occupied /\ Pos(head_) = 0 /\ \A i \in Slots : Pos(i) \in Nat
  BY <1>t, <1>1, FrontOccupied
<1>4. Hand = {}
  <2>1. cur = NoLine BY <1>t, <1>1 DEF TypeOK, SinkTypeOK
  <2> QED BY <2>1, LineIs DEF Hand
<1>5. \A m : m \in Queued' <=> \E i \in Occupied' : v_'[i] \in Line /\ v_'[i].id = m
  BY DEF Queued
<1>6. \A m : m \in Hand' <=> v_[head_] \in Line /\ m = v_[head_].id BY <1>1 DEF Hand
<1>7. \A m : m \in Queued' \cup Hand' <=> m \in Queued BY <1>2, <1>3, <1>5, <1>6, QueuedIs
<1>8. Disk' = Disk /\ DiskOrdered' BY <1>1 DEF Disk, DiskOrdered, OrderOK
<1>9. \A i \in Occupied' : i \in Slots /\ i # head_ /\ Pos(i) # 0
  <2> SUFFICES ASSUME NEW i \in Occupied' PROVE i \in Slots /\ i # head_ /\ Pos(i) # 0 OBVIOUS
  <2>1. i \in Slots /\ i # head_ BY <1>2 DEF Occupied
  <2>2. head_ \in 0..QueueSize /\ i \in 0..QueueSize BY <1>t, <2>1 DEF TypeOK, Slots
  <2>3. Pos(i) # 0 BY <2>1, <2>2 DEF Pos, max_items_
  <2> QED BY <2>1, <2>3
<1>10. ASSUME NEW m \in Hand', NEW n \in Queued' PROVE m < n
  <2>1. PICK i \in Occupied' : v_'[i] \in Line /\ v_'[i].id = n BY <1>5
  <2>2. v_[head_] \in Line /\ m = v_[head_].id BY <1>6
  <2>3. Pos(head_) < Pos(i) BY <1>3, <1>9
  <2>4. i \in Occupied /\ v_[i] = v_'[i] BY <1>2
  <2> QED BY <1>3, <2>1, <2>2, <2>3, <2>4 DEF OrderOK, QueueOrdered
<1>11. StagesOrdered'
  <2>1. \A m \in Disk, n \in Queued : m < n BY DEF OrderOK, StagesOrdered
  <2>2. \A m \in Queued : m <= posted BY DEF OrderOK, QueueOrdered
  <2>3. \A m \in Disk : m <= posted BY DEF OrderOK, StagesOrdered
  <2> QED BY <1>1, <1>7, <1>8, <1>10, <2>1, <2>2, <2>3 DEF StagesOrdered
<1>12. QueueOrdered'
  <2>1. ASSUME NEW i \in Occupied', NEW j \in Occupied',
               v_'[i] \in Line, v_'[j] \in Line, Pos(i)' < Pos(j)'
        PROVE  v_'[i].id < v_'[j].id
    <3>1. Pos(i) < Pos(j) BY <1>2, <1>3, <1>9, <2>1
    <3>2. i \in Occupied /\ j \in Occupied /\ v_'[i] = v_[i] /\ v_'[j] = v_[j] BY <1>2
    <3> QED BY <2>1, <3>1, <3>2 DEF OrderOK, QueueOrdered
  <2>2. \A m \in Queued' : m <= posted' BY <1>1, <1>7 DEF OrderOK, QueueOrdered
  <2> QED BY <2>1, <2>2 DEF QueueOrdered
<1>13. Queued' \cup Hand' = Queued \cup Hand BY <1>4, <1>7
<1> QED BY <1>8, <1>11, <1>12, <1>13 DEF OrderOK

LEMMA StartedOrder ==
    ASSUME TypeInv, OrderOK, Started
    PROVE  /\ OrderOK' /\ Queued' = {} /\ Hand' = {}
           /\ Disk' = LinesOf(files)
<1>1. /\ files' = Opened(files) /\ stdio' = Empty /\ cur' = NoLine /\ posted' = posted
      /\ head_' = 0 /\ tail_' = 0
  BY DEF Started, SinkRestart
<1>2. Occupied' = {} BY <1>1 DEF Occupied, Pos, Size, Slots
<1>3. Queued' = {} /\ Hand' = {} BY <1>1, <1>2, LineIs DEF Queued, Hand
<1>4. /\ LinesOf(files') = LinesOf(files)
      /\ FilesOrdered(files') /\ NoBytesWithoutLine(files')
  BY <1>1, SameLines DEF OrderOK, DiskOrdered
<1>5. Ids(stdio') = {} /\ Increasing(stdio'.lines) /\ ~(stdio'.size > 0)
  BY <1>1, EmptyIds DEF Empty
<1>6. DiskOrdered' /\ Disk' = LinesOf(files) BY <1>4, <1>5 DEF DiskOrdered, Disk
<1>7. \A m \in Disk' : m <= posted' BY <1>1, <1>6 DEF OrderOK, StagesOrdered, Disk
<1> QED BY <1>2, <1>3, <1>6, <1>7 DEF OrderOK, QueueOrdered, StagesOrdered

LEMMA InitOrder == ASSUME Init PROVE OrderOK
<1>1. files = [i \in {0} |-> Empty] /\ stdio = Empty /\ cur = NoLine /\ head_ = 0 /\ tail_ = 0
  BY DEF Init, SinkInit, Opened
<1>2. Ids(Empty) = {} /\ Increasing(Empty.lines) /\ ~(Empty.size > 0) BY EmptyIds DEF Empty
<1>3. Occupied = {} BY <1>1 DEF Occupied, Pos, Size, Slots
<1>4. Queued = {} /\ Hand = {} /\ Disk = {}
  BY <1>1, <1>2, <1>3, LineIs DEF Queued, Hand, Disk, LinesOf
<1>5. FilesOrdered(files) /\ NoBytesWithoutLine(files) /\ LinesOf(files) = {}
  BY <1>1, <1>2 DEF FilesOrdered, NoBytesWithoutLine, LinesOf
<1> QED BY <1>1, <1>2, <1>3, <1>4, <1>5
        DEF OrderOK, DiskOrdered, QueueOrdered, StagesOrdered

(* After the end the file is closed. *)
DownOK == dtor_pc = "down" => ~fd_open

LEMMA DownStep == ASSUME TypeInv, DownOK, [Next]_vars PROVE DownOK'
<1>1. CASE Sink
  <2>1. worker_pc # "ended" /\ dtor_pc' = dtor_pc
    BY <1>1 DEF Sink, SinkStep, SinkFits, SinkFull, SinkFullThrows, RotateSkip, RemoveTarget,
           Rename, RenameFails, Reopen, ReopenFails, Write, WriteFails, Flush, FlushFails
  <2> QED BY <2>1 DEF DownOK, TypeInv, QueueOK
<1>2. CASE DtorJoin BY <1>2 DEF DtorJoin, DownOK
<1>3. CASE Restart \/ Crash BY <1>3 DEF Restart, Crash, Started, DownOK
<1>4. CASE DtorBegin \/ DtorPosted BY <1>4 DEF DtorBegin, DtorPosted, DownOK
<1>5. CASE Dequeue \/ DequeueWait \/ NotifyPop \/ SpuriousWakeWorker
  BY <1>5 DEF Dequeue, DequeueWait, NotifyPop, SpuriousWakeWorker, DownOK
<1>6. ASSUME NEW t \in Threads, ThreadStep(t) \/ SpuriousWake(t) PROVE DownOK'
  BY <1>6 DEF ThreadStep, LogCall, Enqueue, EnqueueWait, NotifyPush, SpuriousWake, sinkVars, DownOK
<1>7. CASE UNCHANGED vars BY <1>7 DEF vars, sinkVars, DownOK
<1> QED BY <1>1, <1>2, <1>3, <1>4, <1>5, <1>6, <1>7 DEF Next, WorkerStep, DtorStep

OrderInv == TypeInv /\ DownOK /\ OrderOK

(* A step that moves no line. *)
LEMMA QuietStep ==
    ASSUME OrderOK, UNCHANGED <<v_, head_, tail_, posted, files, stdio>>,
           Hand' = Hand
    PROVE  OrderOK' /\ Queued' = Queued /\ Disk' = Disk
<1>1. DiskOrdered' /\ Disk' = Disk BY DEF OrderOK, DiskOrdered, Disk
<1> QED BY <1>1, OrderKept

LEMMA QuietSteps ==
    ASSUME TypeInv, OrderOK,
           \/ \E t \in Threads : LogCall(t) \/ EnqueueWait(t) \/ NotifyPush(t) \/ SpuriousWake(t)
           \/ DequeueWait \/ NotifyPop \/ SpuriousWakeWorker
           \/ DtorBegin \/ DtorPosted
           \/ UNCHANGED vars
    PROVE  /\ OrderOK' /\ Queued' = Queued /\ Disk' = Disk /\ Hand' = Hand
           /\ UNCHANGED <<posted, faults>>
           /\ (dtor_pc' = "down") = (dtor_pc = "down")
<1>1. /\ UNCHANGED <<v_, head_, tail_, posted, files, stdio, faults>>
      /\ cur' = cur \/ (cur = Terminate /\ cur' = NoLine)
      /\ (dtor_pc' = "down") = (dtor_pc = "down")
  <2>1. ASSUME NEW t \in Threads,
               LogCall(t) \/ EnqueueWait(t) \/ NotifyPush(t) \/ SpuriousWake(t)
        PROVE  UNCHANGED <<v_, head_, tail_, posted, files, stdio, faults, cur, dtor_pc>>
    BY <2>1 DEF LogCall, EnqueueWait, NotifyPush, SpuriousWake, sinkVars, queueVars
  <2>2. CASE NotifyPop BY <2>2 DEF NotifyPop, queueVars
  <2>3. CASE DequeueWait \/ SpuriousWakeWorker
    BY <2>3 DEF DequeueWait, SpuriousWakeWorker, queueVars
  <2>4. CASE DtorBegin \/ DtorPosted BY <2>4 DEF DtorBegin, DtorPosted, sinkVars, queueVars
  <2>5. CASE UNCHANGED vars BY <2>5 DEF vars, sinkVars, queueVars
  <2> QED BY <2>1, <2>2, <2>3, <2>4, <2>5
<1>2. Hand' = Hand
  <2>1. Terminate \notin Line /\ NoLine \notin Line BY LineIs
  <2> QED BY <1>1, <2>1 DEF Hand
<1> QED BY <1>1, <1>2, QuietStep

LEMMA OrderStep == ASSUME OrderInv, [Next]_vars PROVE OrderInv'
<1>1. TypeInv' BY TypeStep DEF OrderInv
<1>2. DownOK' BY DownStep DEF OrderInv
<1>3. OrderOK'
  <2>t. TypeInv /\ OrderOK BY DEF OrderInv
  <2>1. CASE Sink
    <3>1. \A m \in Disk, n \in Hand : m < n BY DEF OrderInv, OrderOK, StagesOrdered
    <3>2. DiskOrdered' /\ (Moves \/ Keeps \/ Forgets \/ Loses)
      BY <2>t, <2>1, <3>1, SinkEffect DEF OrderOK
    <3>3. UNCHANGED <<v_, head_, tail_, posted>> BY <2>1 DEF Sink, queueVars
    <3>4. /\ Disk' \subseteq Disk \cup Hand /\ Hand' \subseteq Hand
          /\ Hand' = {} \/ Disk' \subseteq Disk
      BY <3>2 DEF Moves, Keeps, Forgets, Loses, Hand
    <3> QED BY <2>t, <3>2, <3>3, <3>4, OrderKept
  <2>2. CASE Dequeue BY <2>t, <2>2, DequeueOrder
  <2>3. CASE \E t \in Threads : Enqueue(t) BY <2>t, <2>3, EnqueueOrder
  <2>4. CASE Restart \/ Crash BY <2>t, <2>4, StartedOrder DEF Restart, Crash
  <2>5. CASE DtorJoin
    <3>1. files' = Flushed /\ stdio' = Empty /\ cur' = cur /\ UNCHANGED <<v_, head_, tail_, posted>>
      BY <2>5 DEF DtorJoin, queueVars
    <3>2. /\ LinesOf(files') = Disk
          /\ FilesOrdered(files') /\ NoBytesWithoutLine(files')
      BY <2>t, <3>1, FlushedLines DEF TypeInv, OrderOK, Disk
    <3>3. Ids(stdio') = {} /\ Increasing(stdio'.lines) /\ ~(stdio'.size > 0)
      BY <3>1, EmptyIds DEF Empty
    <3>4. DiskOrdered' /\ Disk' = Disk
      <4>1. Disk' = LinesOf(files') \cup Ids(stdio') BY DEF Disk
      <4> QED BY <3>2, <3>3, <4>1 DEF DiskOrdered
    <3>5. Hand' = Hand BY <3>1 DEF Hand
    <3> QED BY <2>t, <3>1, <3>4, <3>5, OrderKept
  <2>6. CASE \/ \E t \in Threads : LogCall(t) \/ EnqueueWait(t) \/ NotifyPush(t) \/ SpuriousWake(t)
             \/ DequeueWait \/ NotifyPop \/ SpuriousWakeWorker
             \/ DtorBegin \/ DtorPosted
             \/ UNCHANGED vars
    BY <2>t, <2>6, QuietSteps
  <2> QED BY <2>1, <2>2, <2>3, <2>4, <2>5, <2>6 DEF Next, ThreadStep, WorkerStep, DtorStep
<1> QED BY <1>1, <1>2, <1>3 DEF OrderInv

LEMMA OrderInit == ASSUME Init PROVE OrderInv
<1>1. TypeInv BY InitType, InitStage, InitQueue DEF TypeInv
<1>2. DownOK BY DEF Init, DownOK
<1> QED BY <1>1, <1>2, InitOrder DEF OrderInv

(* The files hold the lines in the order in which they were logged, each once:
   through rotations that fail in the middle, crashes and restarts, for files
   of any number and size. *)
THEOREM FilesInOrderAlways == Spec => []FilesInOrder
<1>1. Init => OrderInv BY OrderInit
<1>2. OrderInv /\ [Next]_vars => OrderInv' BY OrderStep
<1>3. OrderInv => FilesInOrder
  <2> SUFFICES ASSUME OrderInv PROVE FilesInOrder OBVIOUS
  <2>1. DiskOrdered BY DEF OrderInv, OrderOK
  <2>2. ASSUME NEW i \in DOMAIN files, NEW m \in Ids(files[i]), NEW n \in Ids(stdio) PROVE m < n
    BY <2>1, <2>2, LinesOfIs DEF DiskOrdered
  <2> QED BY <2>1, <2>2 DEF FilesInOrder, DiskOrdered, FilesOrdered
<1> QED BY <1>1, <1>2, <1>3, PTL DEF Spec

(* The queue, the thread and the files implement LogKeeper: an accepted line is
   kept in order or something failed, rotation forgets only the oldest, and the
   process ends in good order only when nothing is pending. *)
THEOREM KeeperRefinement == Spec => KeeperSpec
<1> DEFINE pend == Queued \cup InHand
           kep == Written \cup Ids(stdio)
           fau == faults > 0
           clo == dtor_pc = "down"
<1>1. Init => Keeper!Init
  <2> SUFFICES ASSUME Init PROVE Keeper!Init OBVIOUS
  <2>1. OrderInv BY OrderInit
  <2>2. InHand = Hand /\ Written = LinesOf(files) BY <2>1, HandIs DEF OrderInv, TypeInv
  <2>3. Queued = {} /\ Hand = {} /\ Disk = {}
    <3>1. files = [i \in {0} |-> Empty] /\ stdio = Empty /\ cur = NoLine /\ head_ = 0 /\ tail_ = 0
      BY DEF Init, SinkInit, Opened
    <3>2. Occupied = {} BY <3>1 DEF Occupied, Pos, Size, Slots
    <3> QED BY <3>1, <3>2, EmptyIds, LineIs DEF Queued, Hand, Disk, LinesOf
  <2>4. posted = 0 /\ faults = 0 /\ dtor_pc = "up" BY DEF Init, SinkInit
  <2>5. pend = {} /\ kep = {} BY <2>2, <2>3 DEF Disk
  <2>6. fau = FALSE /\ clo = FALSE BY <2>4
  <2> QED BY <2>4, <2>5, <2>6 DEF Keeper!Init
<1>2. OrderInv /\ OrderInv' /\ [Next]_vars => [Keeper!Next]_Keeper!vars
  <2> SUFFICES ASSUME OrderInv, OrderInv', [Next]_vars PROVE [Keeper!Next]_Keeper!vars
    OBVIOUS
  <2>t. TypeInv /\ TypeOK /\ OrderOK /\ TypeOK' BY DEF OrderInv, TypeInv
  <2>h. InHand = Hand /\ Written = LinesOf(files) BY <2>t, HandIs
  <2>i. InHand' = Hand' /\ Written' = LinesOf(files')
    <3>1. (TypeOK => InHand = Hand /\ Written = LinesOf(files))' BY HandIs, PTL
    <3> QED BY <2>t, <3>1
  <2>k. /\ pend = Queued \cup Hand /\ pend' = Queued' \cup Hand'
        /\ kep = Disk /\ kep' = Disk'
    BY <2>h, <2>i DEF Disk
  <2>1. CASE Sink
    <3>1. \A m \in Disk, n \in Hand : m < n BY <2>t DEF OrderOK, StagesOrdered
    <3>2. Moves \/ Keeps \/ Forgets \/ Loses
      BY <2>t, <2>1, <3>1, SinkEffect DEF OrderOK
    <3>3. UNCHANGED <<v_, head_, tail_, posted, dtor_pc>> BY <2>1 DEF Sink, queueVars
    <3>4. Queued' = Queued BY <3>3 DEF Queued, Occupied, Pos, Size, Slots
    <3>5. CASE Moves
      <4>1. UNCHANGED Keeper!vars BY <2>k, <3>3, <3>4, <3>5 DEF Moves, Keeper!vars
      <4> QED BY <4>1
    <3>6. CASE Keeps
      <4>1. Hand = {cur.id} /\ cur.id \in Nat BY <3>6, LineIs DEF Keeps, Hand
      <4>2. \A n \in Queued : cur.id < n BY <2>t, <4>1 DEF OrderOK, StagesOrdered
      <4>3. Queued \subseteq Nat BY <2>t, OrderNats
      <4>4. cur.id \in pend /\ \A n \in pend : cur.id <= n
        <5>1. \A n \in Queued : cur.id <= n BY <4>1, <4>2, <4>3
        <5>2. cur.id <= cur.id BY <4>1
        <5> QED BY <2>k, <4>1, <5>1, <5>2
      <4>5. cur.id \notin Queued BY <4>1, <4>2
      <4>6. pend' = pend \ {cur.id} BY <2>k, <3>4, <3>6, <4>1, <4>5 DEF Keeps
      <4>7. kep' = kep \cup {cur.id} BY <2>k, <3>6 DEF Keeps
      <4>8. fau' = fau /\ clo' = clo /\ posted' = posted BY <3>3, <3>6 DEF Keeps
      <4>9. Keeper!Keep(cur.id) BY <4>4, <4>6, <4>7, <4>8 DEF Keeper!Keep
      <4> QED BY <4>4, <4>9 DEF Keeper!Next
    <3>7. CASE Forgets
      <4>1. /\ kep' \subseteq kep
            /\ \A m \in kep \ kep' : \E n \in kep' : m < n
            /\ \A m \in kep \ kep', n \in kep' : m < n
        BY <2>k, <3>7 DEF Forgets
      <4>2. pend' = pend /\ fau' = fau /\ clo' = clo /\ posted' = posted
        BY <2>k, <3>3, <3>4, <3>7 DEF Forgets
      <4>3. Keeper!Forget BY <4>1, <4>2 DEF Keeper!Forget
      <4> QED BY <4>3 DEF Keeper!Next
    <3>8. CASE Loses
      <4>1. /\ fau' = TRUE /\ kep' \subseteq kep /\ pend' \subseteq pend
            /\ clo' = clo /\ posted' = posted
        BY <2>k, <3>3, <3>4, <3>8 DEF Loses
      <4>2. Keeper!Lose BY <4>1 DEF Keeper!Lose
      <4> QED BY <4>2 DEF Keeper!Next
    <3> QED BY <3>2, <3>5, <3>6, <3>7, <3>8
  <2>2. CASE Dequeue
    <3>1. Disk' = Disk /\ Queued' \cup Hand' = Queued \cup Hand BY <2>t, <2>2, DequeueOrder
    <3>2. UNCHANGED <<posted, faults, dtor_pc>> BY <2>2 DEF Dequeue
    <3>3. UNCHANGED Keeper!vars BY <2>k, <3>1, <3>2 DEF Keeper!vars
    <3> QED BY <3>3
  <2>3. ASSUME NEW t \in Threads, Enqueue(t) PROVE [Keeper!Next]_Keeper!vars
    <3>1. \/ /\ dtor_pc = "up" /\ posted' = posted + 1
             /\ Queued' = Queued \cup {posted + 1}
          \/ UNCHANGED posted /\ Queued' = Queued
      BY <2>t, <2>3, EnqueueOrder
    <3>2. UNCHANGED <<faults, dtor_pc, files, stdio, cur>> BY <2>3 DEF Enqueue, sinkVars
    <3>3. kep' = kep /\ Hand' = Hand /\ fau' = fau /\ clo' = clo
      BY <2>k, <3>2 DEF Disk, LinesOf, Hand
    <3>4. CASE dtor_pc = "up" /\ posted' = posted + 1 /\ Queued' = Queued \cup {posted + 1}
      <4>1. ~clo /\ pend' = pend \cup {posted + 1} BY <2>k, <3>3, <3>4
      <4>2. Keeper!Accept BY <3>3, <3>4, <4>1 DEF Keeper!Accept
      <4> QED BY <4>2 DEF Keeper!Next
    <3>5. CASE UNCHANGED posted /\ Queued' = Queued
      <4>1. pend' = pend BY <2>k, <3>3, <3>5
      <4>2. UNCHANGED Keeper!vars BY <3>3, <3>5, <4>1 DEF Keeper!vars
      <4> QED BY <4>2
    <3> QED BY <3>1, <3>4, <3>5
  <2>4. CASE Restart
    <3>1. Started /\ dtor_pc = "down" /\ faults' = faults BY <2>4 DEF Restart
    <3>2. Queued' = {} /\ Hand' = {} /\ Disk' = LinesOf(files)
      BY <2>t, <3>1, StartedOrder
    <3>3. stdio = Empty BY <2>t, <3>1 DEF OrderInv, DownOK, TypeInv, StageOK
    <3>4. Disk' = Disk BY <3>2, <3>3, EmptyIds DEF Disk
    <3>5. Occupied = {} /\ cur = NoLine
      <4>1. worker_pc = "ended" /\ QueueEmpty BY <2>t, <3>1 DEF TypeInv, QueueOK
      <4> QED BY <2>t, <4>1, FrontOccupied DEF TypeOK, SinkTypeOK
    <3>6. Queued = {} /\ Hand = {} BY <3>5, LineIs DEF Queued, Hand
    <3>7. /\ pend' = pend /\ kep' = kep /\ fau' = fau /\ clo' = FALSE /\ posted' = posted
      <4>1. dtor_pc' = "up" /\ posted' = posted BY <3>1 DEF Started
      <4> QED BY <2>k, <3>1, <3>2, <3>4, <3>6, <4>1
    <3>8. Keeper!Reopen BY <3>7 DEF Keeper!Reopen
    <3> QED BY <3>8 DEF Keeper!Next
  <2>5. CASE Crash
    <3>1. Started /\ dtor_pc # "down" /\ faults' = faults + 1 /\ faults \in Nat
      BY <2>t, <2>5 DEF Crash, Fault, TypeOK, SinkTypeOK
    <3>2. Queued' = {} /\ Hand' = {} /\ Disk' = LinesOf(files)
      BY <2>t, <3>1, StartedOrder
    <3>3. /\ fau' = TRUE /\ kep' \subseteq kep /\ pend' \subseteq pend
          /\ clo' = clo /\ posted' = posted
      <4>1. dtor_pc' = "up" /\ posted' = posted BY <3>1 DEF Started
      <4>2. fau' = TRUE BY <3>1
      <4> QED BY <2>k, <3>1, <3>2, <4>1, <4>2 DEF Disk
    <3>4. Keeper!Lose BY <3>3 DEF Keeper!Lose
    <3> QED BY <3>4 DEF Keeper!Next
  <2>6. CASE DtorJoin
    <3>1. /\ dtor_pc = "join" /\ worker_pc = "ended" /\ dtor_pc' = "down"
          /\ files' = Flushed /\ stdio' = Empty
          /\ UNCHANGED <<v_, head_, tail_, posted, cur, faults>>
      BY <2>6 DEF DtorJoin, queueVars
    <3>2. Disk' = Disk
      <4>1. LinesOf(files') = LinesOf(files) \cup Ids(stdio)
        BY <2>t, <3>1, FlushedLines DEF TypeInv, OrderOK
      <4>2. Disk' = LinesOf(files') \cup Ids(stdio') BY DEF Disk
      <4> QED BY <3>1, <4>1, <4>2, EmptyIds DEF Disk
    <3>3. Occupied = {} /\ cur = NoLine
      <4>1. QueueEmpty BY <2>t, <3>1 DEF TypeInv, QueueOK
      <4> QED BY <2>t, <3>1, <4>1, FrontOccupied DEF TypeOK, SinkTypeOK
    <3>4. Queued = {} /\ Hand = {} BY <3>3, LineIs DEF Queued, Hand
    <3>5. Queued' = {} /\ Hand' = {}
      <4>1. Queued' = Queued /\ Hand' = Hand
        BY <3>1 DEF Queued, Occupied, Pos, Size, Slots, Hand
      <4> QED BY <3>4, <4>1
    <3>6. pend = {} /\ pend' = pend /\ kep' = kep /\ fau' = fau /\ clo' = TRUE /\ posted' = posted
      BY <2>k, <3>1, <3>2, <3>4, <3>5
    <3>7. Keeper!Close BY <3>6 DEF Keeper!Close
    <3> QED BY <3>7 DEF Keeper!Next
  <2>7. CASE \/ \E t \in Threads : LogCall(t) \/ EnqueueWait(t) \/ NotifyPush(t) \/ SpuriousWake(t)
             \/ DequeueWait \/ NotifyPop \/ SpuriousWakeWorker
             \/ DtorBegin \/ DtorPosted
             \/ UNCHANGED vars
    <3>1. /\ Queued' = Queued /\ Disk' = Disk /\ Hand' = Hand
          /\ UNCHANGED <<posted, faults>>
          /\ (dtor_pc' = "down") = (dtor_pc = "down")
      BY <2>t, <2>7, QuietSteps
    <3>2. UNCHANGED Keeper!vars BY <2>k, <3>1 DEF Keeper!vars
    <3> QED BY <3>2
  <2> QED BY <2>1, <2>2, <2>3, <2>4, <2>5, <2>6, <2>7
          DEF Next, ThreadStep, WorkerStep, DtorStep
<1> QED BY <1>1, <1>2, OrderInit, OrderStep, PTL DEF Spec, KeeperSpec, Keeper!Spec
=============================================================================
