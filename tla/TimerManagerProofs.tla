------------------------- MODULE TimerManagerProofs -------------------------
(***************************************************************************)
(* Proofs about TimerManager, for every set of ids, every horizon and      *)
(* every bound on copies: the heap always holds the node of each deadline  *)
(* that counts, so the lazy heap implements TimerSpec, get_top is right    *)
(* and a pass leaves nothing of the past behind.                           *)
(***************************************************************************)
EXTENDS TimerManager, TLAPS

(* Types are preserved by every operation. *)
LEMMA TypeStep == TypeOK /\ [Next]_vars => TypeOK'
<1> SUFFICES ASSUME TypeOK, [Next]_vars PROVE TypeOK'
  OBVIOUS
<1> USE TimerAssumption DEF TypeOK, Times, TimerNode
<1>1. ASSUME NEW id \in Ids, NEW expire \in Times, AddTimer(id, expire) PROVE TypeOK'
  BY <1>1 DEF AddTimer
<1>2. ASSUME NEW id \in Ids, RmTimer(id) PROVE TypeOK'
  BY <1>2 DEF RmTimer
<1>3. CASE HandleExpiredBegin
  BY <1>3 DEF HandleExpiredBegin
<1>4. ASSUME NEW n \in TimerNode, HandleExpiredPop(n) PROVE TypeOK'
  <2>1. timer_queue_' \in [TimerNode -> Nat]
    BY <1>4 DEF HandleExpiredPop, IsTop, InQueue
  <2>2. n[1] \in Ids
    OBVIOUS
  <2>3. timer_map_' \in [Ids -> Times \cup {NoTimer}]
    BY <1>4, <2>2 DEF HandleExpiredPop
  <2>4. expired' \in Seq(Ids)
    <3>1. expired' = Append(expired, n[1]) \/ expired' = expired
      BY <1>4 DEF HandleExpiredPop
    <3>2. expired \in Seq(Ids)
      BY DEF TypeOK
    <3> HIDE DEF TypeOK
    <3>3. Append(expired, n[1]) \in Seq(Ids)
      BY <2>2, <3>2
    <3> QED BY <3>1, <3>2, <3>3
  <2> QED BY <1>4, <2>1, <2>3, <2>4 DEF HandleExpiredPop
<1>5. CASE HandleExpiredEnd
  BY <1>5 DEF HandleExpiredEnd
<1>6. CASE Tick
  BY <1>6 DEF Tick
<1>7. CASE UNCHANGED vars
  BY <1>7 DEF vars
<1> QED BY <1>1, <1>2, <1>3, <1>4, <1>5, <1>6, <1>7 DEF Next, HandleExpiredStep

(* Every state of every behaviour has the types TypeOK names. *)
THEOREM TypeCorrect == Spec => []TypeOK
<1>1. Init => TypeOK
  BY TimerAssumption DEF Init, TypeOK, Times, TimerNode
<1> QED BY <1>1, TypeStep, PTL DEF Spec

-----------------------------------------------------------------------------
(* A pop that loses a node in use also takes its id out of the map; every
   other operation only adds nodes or takes ids out. *)
LEMMA MapInQueueStep == TypeOK /\ MapInQueue /\ [Next]_vars => MapInQueue'
<1> SUFFICES ASSUME TypeOK, MapInQueue, [Next]_vars PROVE MapInQueue'
  OBVIOUS
<1> USE TimerAssumption DEF TypeOK, MapInQueue, InQueue, Times, TimerNode
<1>1. ASSUME NEW id \in Ids, NEW expire \in Times, AddTimer(id, expire) PROVE MapInQueue'
  BY <1>1 DEF AddTimer
<1>2. ASSUME NEW id \in Ids, RmTimer(id) PROVE MapInQueue'
  BY <1>2 DEF RmTimer
<1>3. CASE HandleExpiredBegin
  BY <1>3 DEF HandleExpiredBegin
<1>4. ASSUME NEW n \in TimerNode, HandleExpiredPop(n) PROVE MapInQueue'
  <2>1. CASE Current(n)
    BY <1>4, <2>1 DEF HandleExpiredPop, Current
  <2>2. CASE ~Current(n)
    <3> SUFFICES ASSUME NEW id \in Ids, timer_map_[id] # NoTimer
                 PROVE  timer_queue_'[<<id, timer_map_[id]>>] > 0
      BY <1>4, <2>2 DEF HandleExpiredPop
    <3>1. <<id, timer_map_[id]>> # n
      BY <2>2 DEF Current
    <3>2. timer_queue_'[<<id, timer_map_[id]>>] = timer_queue_[<<id, timer_map_[id]>>]
      BY <1>4, <3>1 DEF HandleExpiredPop
    <3> QED BY <3>2
  <2> QED BY <2>1, <2>2
<1>5. CASE HandleExpiredEnd
  BY <1>5 DEF HandleExpiredEnd
<1>6. CASE Tick
  BY <1>6 DEF Tick
<1>7. CASE UNCHANGED vars
  BY <1>7 DEF vars
<1> QED BY <1>1, <1>2, <1>3, <1>4, <1>5, <1>6, <1>7 DEF Next, HandleExpiredStep

(* No armed id is ever without a node in the heap (timeutil.h:67-138). *)
THEOREM ArmedIdsAreInHeap == Spec => []MapInQueue
<1>1. Init => MapInQueue
  BY DEF Init, MapInQueue
<1> QED BY <1>1, TypeCorrect, MapInQueueStep, PTL DEF Spec

-----------------------------------------------------------------------------
(* get_top's result does not depend on the stale nodes in the heap
   (timeutil.h:147-163). *)
THEOREM GetTopCorrect == Spec => []GetTopIsEarliest
<1>1. ASSUME TypeOK, MapInQueue PROVE GetTopIsEarliest
  <2> USE <1>1 DEF TypeOK, TimerNode
  <2> DEFINE earliest(id) == id \in QueueSize
                /\ \A o \in QueueSize : timer_map_[id] <= timer_map_[o]
  <2>1. \A id \in QueueSize : <<id, timer_map_[id]>> \in CurrentNodes
    BY DEF QueueSize, CurrentNodes, MapInQueue, Current
  <2>2. \A n \in CurrentNodes : n[1] \in QueueSize /\ timer_map_[n[1]] = n[2]
    BY TimerAssumption DEF QueueSize, CurrentNodes, Current, Times
  <2>3. ASSUME NEW n \in GetTop PROVE earliest(n[1])
    BY <2>1, <2>2 DEF GetTop
  <2>4. ASSUME NEW id \in Ids, earliest(id) PROVE <<id, timer_map_[id]>> \in GetTop
    BY <2>1, <2>2, <2>4 DEF GetTop
  <2>5. ASSUME NEW id \in Ids, earliest(id) PROVE \E n \in GetTop : n[1] = id
    <3> DEFINE n == <<id, timer_map_[id]>>
    <3>1. n \in GetTop /\ n[1] = id
      BY <2>4, <2>5
    <3> QED BY <3>1
  <2> QED BY <2>3, <2>5 DEF GetTopIsEarliest, QueueSize
<1> QED BY <1>1, TypeCorrect, ArmedIdsAreInHeap, PTL

(* A pass ends only when the heap holds deadlines to come (timeutil.h:118-138). *)
THEOREM PassPurges == Spec => PassPurgesPast
<1> DEFINE Purge == pc = "expiring" /\ pc' = "idle" =>
                      \A n \in TimerNode : InQueue(n)' => now < n[2]
<1>1. TypeOK /\ [Next]_vars => [Purge]_vars
  <2> SUFFICES ASSUME TypeOK, [Next]_vars, pc = "expiring", pc' = "idle",
                      NEW n \in TimerNode, InQueue(n)'
               PROVE  now < n[2]
    OBVIOUS
  <2>1. HandleExpiredEnd
    BY DEF Next, HandleExpiredStep, AddTimer, RmTimer, HandleExpiredBegin, HandleExpiredPop,
           Tick, vars
  <2>2. InQueue(n)
    BY <2>1 DEF HandleExpiredEnd, InQueue
  <2>3. PICK m \in TimerNode : IsTop(m) /\ now < m[2]
    BY <2>1, <2>2 DEF HandleExpiredEnd, Empty
  <2>4. m[2] <= n[2]
    BY <2>2, <2>3 DEF IsTop
  <2> QED BY <2>3, <2>4, TimerAssumption DEF TypeOK, TimerNode, Times
<1> QED BY <1>1, TypeCorrect, PTL DEF Spec, PassPurgesPast

-----------------------------------------------------------------------------
(* One step of the heap is one step of the promise, or none. *)
LEMMA RefinementStep == TypeOK /\ MapInQueue /\ [Next]_vars => [Abs!Next]_(Abs!vars)
<1> SUFFICES ASSUME TypeOK, MapInQueue, [Next]_vars PROVE [Abs!Next]_(Abs!vars)
  OBVIOUS
<1> USE TimerAssumption DEF TypeOK, Times, TimerNode
<1>1. ASSUME NEW id \in Ids, NEW expire \in Times, AddTimer(id, expire)
      PROVE  Abs!Arm(id, expire)
  BY <1>1 DEF AddTimer, Abs!Arm
<1>2. ASSUME NEW id \in Ids, RmTimer(id) PROVE Abs!Disarm(id)
  BY <1>2 DEF RmTimer, Abs!Disarm
<1>3. CASE HandleExpiredBegin
  <2>1. Abs!Begin
    BY <1>3 DEF HandleExpiredBegin, Abs!Begin
  <2> QED BY <2>1 DEF Abs!Next
<1>4. ASSUME NEW n \in TimerNode, HandleExpiredPop(n) PROVE [Abs!Next]_(Abs!vars)
  <2>1. CASE Current(n)
    <3>1. ASSUME NEW o \in Ids, timer_map_[o] # NoTimer PROVE n[2] <= timer_map_[o]
      <4> DEFINE d == <<o, timer_map_[o]>>
      <4>1. d \in TimerNode /\ InQueue(d)
        BY <3>1 DEF MapInQueue
      <4>2. n[2] <= d[2]
        BY <1>4, <4>1 DEF HandleExpiredPop, IsTop
      <4> QED BY <4>2
    <3>2. n[1] \in Ids /\ timer_map_[n[1]] = n[2] /\ n[2] \in Times
      BY <2>1 DEF Current
    <3>3. Abs!Report(n[1])
      BY <1>4, <2>1, <3>1, <3>2 DEF HandleExpiredPop, Abs!Report
    <3> QED BY <3>2, <3>3 DEF Abs!Next
  <2>2. CASE ~Current(n)
    BY <1>4, <2>2 DEF HandleExpiredPop, Abs!vars
  <2> QED BY <2>1, <2>2
<1>5. CASE HandleExpiredEnd
  <2>1. ASSUME NEW o \in Ids, timer_map_[o] # NoTimer PROVE now < timer_map_[o]
    <3> DEFINE d == <<o, timer_map_[o]>>
    <3>1. d \in TimerNode /\ InQueue(d)
      BY <2>1 DEF MapInQueue
    <3>2. PICK m \in TimerNode : IsTop(m) /\ now < m[2]
      BY <1>5, <3>1 DEF HandleExpiredEnd, Empty
    <3>3. m[2] <= timer_map_[o]
      BY <3>1, <3>2 DEF IsTop
    <3> QED BY <2>1, <3>2, <3>3
  <2>2. Abs!End
    BY <1>5, <2>1 DEF HandleExpiredEnd, Abs!End
  <2> QED BY <2>2 DEF Abs!Next
<1>6. CASE Tick
  <2>1. Abs!Tick
    BY <1>6 DEF Tick, Abs!Tick
  <2> QED BY <2>1 DEF Abs!Next
<1>7. CASE UNCHANGED vars
  BY <1>7 DEF vars, Abs!vars
<1> QED BY <1>1, <1>2, <1>3, <1>4, <1>5, <1>6, <1>7
        DEF Next, HandleExpiredStep, Abs!Next, Abs!Times

(* The lazy heap implements the promise of TimerSpec: the last deadline of an
   id counts, a removed id never fires, a pass reports exactly what is due,
   earliest first. *)
THEOREM TimerRefinement == Spec => AbsSpec
<1>1. Init => Abs!Init
  BY DEF Init, Abs!Init
<1> QED BY <1>1, TypeCorrect, ArmedIdsAreInHeap, RefinementStep, PTL DEF Spec, AbsSpec, Abs!Spec
=============================================================================
