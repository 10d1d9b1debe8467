---------------------------- MODULE TimerManager ----------------------------
(***************************************************************************)
(* TimerManager (timeutil.h): a min-heap of (id, deadline) nodes from      *)
(* which nothing is ever deleted in place, and a map from id to the one    *)
(* deadline that counts.  An update pushes a second node; a removal erases *)
(* the map entry only; the pass over the expired timers pops every node    *)
(* whose deadline has passed and reports it only if the map still agrees.  *)
(*                                                                         *)
(* One TimerManager belongs to one ConnLoop and is used by its thread      *)
(* only, so no operation overlaps a pass; only the clock moves meanwhile.  *)
(***************************************************************************)
EXTENDS Integers, Sequences

CONSTANTS
    Ids,         \* ids of timers: file descriptors
    MaxTime,     \* bound of the clock and of the deadlines
    MaxCopies,   \* bound: equal nodes the heap may hold
    NoTimer      \* not a time: the id has no entry in timer_map_

ASSUME TimerAssumption ==
    /\ MaxTime \in Nat
    /\ MaxCopies \in Nat \ {0}
    /\ NoTimer \notin 0..MaxTime

Times == 0..MaxTime

(* A node of the heap; a[1] is TimerNode::id, a[2] its expire_. *)
TimerNode == Ids \X Times

VARIABLES
    clock,         \* SteadyClock::now()
    timer_queue_,  \* the heap, as the number of copies of each node
    timer_map_,    \* id -> the deadline that counts
    pc,            \* "idle", or "expiring" inside handle_expired_timers
    now,           \* the local of handle_expired_timers
    expired        \* the vector it fills

vars == <<clock, timer_queue_, timer_map_, pc, now, expired>>

TypeOK ==
    /\ clock \in Times
    /\ timer_queue_ \in [TimerNode -> Nat]
    /\ timer_map_ \in [Ids -> Times \cup {NoTimer}]
    /\ pc \in {"idle", "expiring"}
    /\ now \in Times
    /\ expired \in Seq(Ids)

(* A new ConnLoop's manager: nothing in the heap, nothing in the map. *)
Init ==
    /\ clock = 0
    /\ timer_queue_ = [n \in TimerNode |-> 0]
    /\ timer_map_ = [id \in Ids |-> NoTimer]
    /\ pc = "idle"
    /\ now = 0
    /\ expired = <<>>

-----------------------------------------------------------------------------
InQueue(n) == timer_queue_[n] > 0

Empty == \A n \in TimerNode : ~InQueue(n)

(* A node top() may return: which one of equal deadlines is up to the heap. *)
IsTop(n) ==
    /\ InQueue(n)
    /\ \A m \in TimerNode : InQueue(m) => n[2] <= m[2]

(* Fault: an id in the map is enough, whatever its deadline. *)
CurrentById(n) == timer_map_[n[1]] # NoTimer

(* The map still agrees with the node: it has not been updated or removed. *)
Current(n) == timer_map_[n[1]] = n[2]

(* Fault: updating an armed id only changes the map. *)
AddTimerMapOnly(id, expire) ==
    /\ pc = "idle"
    /\ timer_queue_[<<id, expire>>] < MaxCopies
    /\ timer_queue_' = [timer_queue_ EXCEPT
           ![<<id, expire>>] = IF timer_map_[id] = NoTimer THEN @ + 1 ELSE @]
    /\ timer_map_' = [timer_map_ EXCEPT ![id] = expire]
    /\ UNCHANGED <<clock, pc, now, expired>>

(* add_timer, both overloads, and update_timer, which calls it. *)
AddTimer(id, expire) ==
    /\ pc = "idle"
    /\ timer_queue_[<<id, expire>>] < MaxCopies
    /\ timer_queue_' = [timer_queue_ EXCEPT ![<<id, expire>>] = @ + 1]
    /\ timer_map_' = [timer_map_ EXCEPT ![id] = expire]
    /\ UNCHANGED <<clock, pc, now, expired>>

(* rm_timer: the nodes stay in the heap. *)
RmTimer(id) ==
    /\ pc = "idle"
    /\ timer_map_' = [timer_map_ EXCEPT ![id] = NoTimer]
    /\ UNCHANGED <<clock, timer_queue_, pc, now, expired>>

(* The loop clears its vector and calls handle_expired_timers, which reads
   the clock once. *)
HandleExpiredBegin ==
    /\ pc = "idle"
    /\ pc' = "expiring"
    /\ now' = clock
    /\ expired' = <<>>
    /\ UNCHANGED <<clock, timer_queue_, timer_map_>>

(* One turn of the while: the top is due, so it is popped whatever the map
   says, and reported only if the map agrees. *)
HandleExpiredPop(n) ==
    /\ pc = "expiring"
    /\ IsTop(n)
    /\ ~(now < n[2])
    /\ timer_queue_' = [timer_queue_ EXCEPT ![n] = @ - 1]
    /\ IF Current(n)
       THEN /\ expired' = Append(expired, n[1])
            /\ timer_map_' = [timer_map_ EXCEPT ![n[1]] = NoTimer]
       ELSE UNCHANGED <<expired, timer_map_>>
    /\ UNCHANGED <<clock, pc, now>>

(* Fault: a deadline equal to now counts as one to come. *)
HandleExpiredEndEarly ==
    /\ pc = "expiring"
    /\ Empty \/ \E n \in TimerNode : IsTop(n) /\ now <= n[2]
    /\ pc' = "idle"
    /\ UNCHANGED <<clock, timer_queue_, timer_map_, now, expired>>

(* The while ends: the heap is empty or its top is not due. *)
HandleExpiredEnd ==
    /\ pc = "expiring"
    /\ Empty \/ \E n \in TimerNode : IsTop(n) /\ now < n[2]
    /\ pc' = "idle"
    /\ UNCHANGED <<clock, timer_queue_, timer_map_, now, expired>>

Tick ==
    /\ clock < MaxTime
    /\ clock' = clock + 1
    /\ UNCHANGED <<timer_queue_, timer_map_, pc, now, expired>>

HandleExpiredStep == (\E n \in TimerNode : HandleExpiredPop(n)) \/ HandleExpiredEnd

Next ==
    \/ \E id \in Ids, expire \in Times : AddTimer(id, expire)
    \/ \E id \in Ids : RmTimer(id)
    \/ HandleExpiredBegin
    \/ HandleExpiredStep
    \/ Tick

Spec == Init /\ [][Next]_vars

(* epoll_wait has a timeout, so the loop comes back to its timers for ever;
   the pass does not block; time passes. *)
Fairness ==
    /\ WF_vars(HandleExpiredBegin)
    /\ WF_vars(HandleExpiredStep)
    /\ WF_vars(Tick)

FairSpec == Spec /\ Fairness

-----------------------------------------------------------------------------
(* get_top, which the tests use: the first node, in heap order, that the map
   still agrees with.  Popping a copy until then leaves one of the current
   nodes of least deadline; no node gives the id -1.  Fault: as CurrentById. *)
CurrentNodesById == {n \in TimerNode : InQueue(n) /\ CurrentById(n)}

CurrentNodes == {n \in TimerNode : InQueue(n) /\ Current(n)}

GetTop == {n \in CurrentNodes : \A m \in CurrentNodes : n[2] <= m[2]}

(* queue_size *)
QueueSize == {id \in Ids : timer_map_[id] # NoTimer}

-----------------------------------------------------------------------------
(* Every deadline that counts has its node in the heap: lazy deletion and
   re-insertion never leave an armed id that no pass will ever pop. *)
MapInQueue ==
    \A id \in Ids : timer_map_[id] # NoTimer => InQueue(<<id, timer_map_[id]>>)

(* get_top finds exactly the armed ids of least deadline, however many stale
   nodes lie above them in the heap. *)
GetTopIsEarliest ==
    {n[1] : n \in GetTop} =
      {id \in QueueSize : \A o \in QueueSize : timer_map_[id] <= timer_map_[o]}

(* A finished pass leaves no node of a past deadline behind, stale ones
   included: what updates and removals leave in the heap is bounded by what
   one timeout period pushed, not by the age of the server. *)
PassPurgesPast ==
    [][pc = "expiring" /\ pc' = "idle" =>
         \A n \in TimerNode : InQueue(n)' => now < n[2]]_vars

(* A deadline is eventually reported unless it is updated or removed first:
   the heap never hides an idle connection's timer for ever. *)
EventuallyReported ==
    \A id \in Ids, t \in Times : (timer_map_[id] = t) ~> (timer_map_[id] # t)

(* The lazy heap keeps the promise of TimerSpec. *)
Abs == INSTANCE TimerSpec WITH
    armed <- timer_map_,
    running <- (pc = "expiring")

AbsSpec == Abs!Spec
=============================================================================
