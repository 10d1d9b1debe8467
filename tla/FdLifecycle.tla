---------------------------- MODULE FdLifecycle ----------------------------
(***************************************************************************)
(* What the acceptor and its event loops promise about client descriptors: *)
(* each is in one place at a time.  The acceptor holds a new one, hands it *)
(* to one loop, and only that loop serves it and closes it; once closed    *)
(* the number may come back, to any loop.                                  *)
(***************************************************************************)
CONSTANTS
    Fds,
    Loops

VARIABLES
    open_fds,   \* descriptors the process has open
    accepted,   \* descriptors only the acceptor knows of
    queued,     \* descriptors handed to each loop
    serving     \* descriptors each loop serves

vars == <<open_fds, accepted, queued, serving>>

Init ==
    /\ open_fds = {}
    /\ accepted = {}
    /\ queued = [l \in Loops |-> {}]
    /\ serving = [l \in Loops |-> {}]

InUse(fd) ==
    \/ fd \in accepted
    \/ \E l \in Loops : fd \in queued[l] \cup serving[l]

Accept(fd) ==
    /\ accepted = {}
    /\ fd \notin open_fds
    /\ ~InUse(fd)
    /\ open_fds' = open_fds \cup {fd}
    /\ accepted' = {fd}
    /\ UNCHANGED <<queued, serving>>

HandOver(l) ==
    /\ accepted # {}
    /\ queued' = [queued EXCEPT ![l] = @ \cup accepted]
    /\ accepted' = {}
    /\ UNCHANGED <<open_fds, serving>>

Serve(l) ==
    /\ queued[l] # {}
    /\ serving' = [serving EXCEPT ![l] = @ \cup queued[l]]
    /\ queued' = [queued EXCEPT ![l] = {}]
    /\ UNCHANGED <<open_fds, accepted>>

Close(l, fd) ==
    /\ fd \in serving[l]
    /\ serving' = [serving EXCEPT ![l] = @ \ {fd}]
    /\ open_fds' = open_fds \ {fd}
    /\ UNCHANGED <<accepted, queued>>

Next ==
    \/ \E fd \in Fds : Accept(fd)
    \/ \E l \in Loops : HandOver(l)
    \/ \E l \in Loops : Serve(l)
    \/ \E l \in Loops, fd \in Fds : Close(l, fd)

Spec == Init /\ [][Next]_vars
=============================================================================
