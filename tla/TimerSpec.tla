----------------------------- MODULE TimerSpec -----------------------------
(***************************************************************************)
(* What a TimerManager promises to its event loop (timeutil.h), with no    *)
(* heap and no stale entries: at most one deadline per id, the last one    *)
(* given wins, a removed id never fires, and a pass over the expired       *)
(* timers reports every id due when the pass began, once, earliest first.  *)
(***************************************************************************)
EXTENDS Integers, Sequences

CONSTANTS
    Ids,         \* the ids timers are kept for (file descriptors)
    MaxTime,     \* bound of the clock and of the deadlines
    NoTimer      \* "no deadline": the id is not in timer_map_

Times == 0..MaxTime

VARIABLES
    clock,       \* SteadyClock::now()
    armed,       \* the deadline of each id, or NoTimer
    running,     \* TRUE during a pass over the expired timers
    now,         \* the instant the current (or last) pass began
    expired      \* what the current (or last) pass has reported

vars == <<clock, armed, running, now, expired>>

Init ==
    /\ clock = 0
    /\ armed = [id \in Ids |-> NoTimer]
    /\ running = FALSE
    /\ now = 0
    /\ expired = <<>>

Arm(id, t) ==
    /\ ~running
    /\ armed' = [armed EXCEPT ![id] = t]
    /\ UNCHANGED <<clock, running, now, expired>>

Disarm(id) ==
    /\ ~running
    /\ armed' = [armed EXCEPT ![id] = NoTimer]
    /\ UNCHANGED <<clock, running, now, expired>>

Begin ==
    /\ ~running
    /\ running' = TRUE
    /\ now' = clock
    /\ expired' = <<>>
    /\ UNCHANGED <<clock, armed>>

(* Reported: due, and no armed id has an earlier deadline. *)
Report(id) ==
    /\ running
    /\ armed[id] # NoTimer
    /\ armed[id] <= now
    /\ \A o \in Ids : armed[o] # NoTimer => armed[id] <= armed[o]
    /\ expired' = Append(expired, id)
    /\ armed' = [armed EXCEPT ![id] = NoTimer]
    /\ UNCHANGED <<clock, running, now>>

(* A pass may end only when nothing due is left. *)
End ==
    /\ running
    /\ \A o \in Ids : armed[o] # NoTimer => now < armed[o]
    /\ running' = FALSE
    /\ UNCHANGED <<clock, armed, now, expired>>

Tick ==
    /\ clock < MaxTime
    /\ clock' = clock + 1
    /\ UNCHANGED <<armed, running, now, expired>>

Next ==
    \/ \E id \in Ids, t \in Times : Arm(id, t)
    \/ \E id \in Ids : Disarm(id)
    \/ Begin
    \/ \E id \in Ids : Report(id)
    \/ End
    \/ Tick

Spec == Init /\ [][Next]_vars
=============================================================================
