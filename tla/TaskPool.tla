------------------------------ MODULE TaskPool ------------------------------
(***************************************************************************)
(* What a ThreadPool promises about its tasks (ChaosThreadPool.h): an      *)
(* accepted task is started once, in the order of acceptance, and runs to  *)
(* its end; tasks are refused only once the pool is stopping, and the pool *)
(* is gone only when every accepted task has run.                          *)
(***************************************************************************)
EXTENDS Integers, Sequences

CONSTANT Tasks

VARIABLES
    tasks_,     \* accepted and not yet started, oldest first
    running,    \* started
    finished,   \* run to their end
    refused,    \* enqueue threw
    stopped,    \* enqueue refuses
    gone        \* the destructor has returned

vars == <<tasks_, running, finished, refused, stopped, gone>>

Init ==
    /\ tasks_ = <<>>
    /\ running = {}
    /\ finished = {}
    /\ refused = {}
    /\ stopped = FALSE
    /\ gone = FALSE

Known == {tasks_[i] : i \in 1..Len(tasks_)} \cup running \cup finished \cup refused

Accept(k) ==
    /\ ~stopped
    /\ k \notin Known
    /\ tasks_' = Append(tasks_, k)
    /\ UNCHANGED <<running, finished, refused, stopped, gone>>

Refuse(k) ==
    /\ stopped
    /\ ~gone
    /\ k \notin Known
    /\ refused' = refused \cup {k}
    /\ UNCHANGED <<tasks_, running, finished, stopped, gone>>

Start ==
    /\ tasks_ # <<>>
    /\ tasks_' = Tail(tasks_)
    /\ running' = running \cup {Head(tasks_)}
    /\ UNCHANGED <<finished, refused, stopped, gone>>

Finish(k) ==
    /\ k \in running
    /\ running' = running \ {k}
    /\ finished' = finished \cup {k}
    /\ UNCHANGED <<tasks_, refused, stopped, gone>>

Stop ==
    /\ stopped' = TRUE
    /\ UNCHANGED <<tasks_, running, finished, refused, gone>>

Leave ==
    /\ stopped
    /\ tasks_ = <<>>
    /\ running = {}
    /\ gone' = TRUE
    /\ UNCHANGED <<tasks_, running, finished, refused, stopped>>

Next ==
    \/ \E k \in Tasks : Accept(k) \/ Refuse(k) \/ Finish(k)
    \/ Start
    \/ Stop
    \/ Leave

Spec == Init /\ [][Next]_vars
=============================================================================
