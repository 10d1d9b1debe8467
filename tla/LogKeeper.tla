----------------------------- MODULE LogKeeper ------------------------------
(***************************************************************************)
(* What the server's log promises.  A line whose log call has queued it is *)
(* kept, in order, unless something failed: a system call, or the process. *)
(* Rotation forgets only the oldest of what is kept and never the newest.  *)
(* The process ends in good order only when nothing is pending.            *)
(*                                                                         *)
(* Lines are known by their ordinals.                                      *)
(***************************************************************************)
EXTENDS Integers

VARIABLES
    accepted,   \* lines ever accepted
    pending,    \* accepted, not yet handed to the file
    kept,       \* in the files
    faulty,     \* something has failed
    closed      \* the process has ended in good order

vars == <<accepted, pending, kept, faulty, closed>>

Init ==
    /\ accepted = 0
    /\ pending = {}
    /\ kept = {}
    /\ faulty = FALSE
    /\ closed = FALSE

Accept ==
    /\ ~closed
    /\ accepted' = accepted + 1
    /\ pending' = pending \cup {accepted + 1}
    /\ UNCHANGED <<kept, faulty, closed>>

(* The oldest pending line. *)
Keep(m) ==
    /\ m \in pending
    /\ \A n \in pending : m <= n
    /\ pending' = pending \ {m}
    /\ kept' = kept \cup {m}
    /\ UNCHANGED <<accepted, faulty, closed>>

Forget ==
    /\ kept' \subseteq kept
    /\ \A m \in kept \ kept' : \E n \in kept' : m < n
    /\ \A m \in kept \ kept', n \in kept' : m < n
    /\ UNCHANGED <<accepted, pending, faulty, closed>>

(* A failure, now or earlier, costs lines. *)
Lose ==
    /\ faulty' = TRUE
    /\ kept' \subseteq kept
    /\ pending' \subseteq pending
    /\ UNCHANGED <<accepted, closed>>

Close ==
    /\ pending = {}
    /\ closed' = TRUE
    /\ UNCHANGED <<accepted, pending, kept, faulty>>

Reopen ==
    /\ closed' = FALSE
    /\ UNCHANGED <<accepted, pending, kept, faulty>>

Next ==
    \/ Accept
    \/ \E m \in pending : Keep(m)
    \/ Forget
    \/ Lose
    \/ Close
    \/ Reopen

Spec == Init /\ [][Next]_vars
=============================================================================
