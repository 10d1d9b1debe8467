------------------------------ MODULE IdleLoop ------------------------------
(***************************************************************************)
(* One ConnLoop in time: its connections, their idle timers (the deadlines *)
(* a TimerManager keeps, TimerSpec), and the one thread that waits in      *)
(* epoll_wait, runs the handlers of a batch one after the other, and then  *)
(* closes what has expired.                                                *)
(*                                                                         *)
(* Time is counted in ticks and passes where the code spends it: in        *)
(* epoll_wait with nothing ready, and inside a handler.  Data is counted   *)
(* in chunks.                                                              *)
(***************************************************************************)
EXTENDS Integers, Sequences, FiniteSets

CONSTANTS
    Conns,         \* sockets of clients
    Cmd,           \* the receiving end of cmd_sockpair_
    Timeout,       \* DEF_TIMER_EXPIRE_MS
    PollTimeout,   \* epoll_wait_timeout_
    MaxEvents,     \* epoll_max_events_
    MaxHandle,     \* bound: how long a handler may take
    BufferSize,    \* BUFFER_MIN_SIZE_R
    MaxSent,       \* bound: chunks waiting in a socket
    MaxTurns,      \* bound: up to which handlings of a silent client count
    Counted,       \* bound: the clients whose handlings are counted
    Failing,       \* bound: the clients whose answers may become unsendable
    NoTimer        \* the connection has no deadline

ASSUME IdleAssumption ==
    /\ IsFiniteSet(Conns)
    /\ Cmd \notin Conns
    /\ Timeout \in Nat \ {0}
    /\ PollTimeout \in Nat
    /\ MaxEvents \in Nat \ {0}
    /\ MaxHandle \in Nat
    /\ BufferSize \in Nat \ {0}
    /\ MaxSent \in Nat
    /\ MaxTurns \in Nat
    /\ Counted \subseteq Conns
    /\ Failing \subseteq Conns
    /\ NoTimer \notin Nat

VARIABLES
    \* the loop
    pc,         \* "wait", "turn", or "handle" inside a handler
    batch,      \* what is left of events_
    waited,     \* time spent in the last epoll_wait
    spent,      \* time spent in the handler that runs
    reported,   \* the connections in events_ when epoll_wait last returned
    \* each connection
    conn,       \* "gone", "queued" for the loop, "off", or waiting for "in", "out"
    left,       \* time to its deadline, 0 when it has passed, or NoTimer
    room,       \* what buffer_r_ can still take
    unsendable, \* what is left of its answer can never be sent
    \* each client
    sent,       \* chunks in the socket, not yet received
    hup,        \* it has shut down its side
    writable,   \* it leaves room in the socket's send buffer
    \* history
    idle,       \* time since the connection's timer was last set
    turns       \* handlings since the client last did anything

loopVars == <<pc, batch, waited, spent, reported>>
connVars == <<conn, left, room, unsendable, idle>>
clientVars == <<sent, hup, writable>>
vars == <<loopVars, connVars, clientVars, turns>>

(* No silent connection may be older: a pass comes after every wait and turn. *)
Bound == Timeout - 1 + PollTimeout + MaxEvents * MaxHandle

Served == {"off", "in", "out"}

(* An event is a descriptor and what events_ says of it. *)
Event == Conns \X {"close", "in", "out"} \cup {<<Cmd, "in">>}

TypeOK ==
    /\ pc \in {"wait", "turn", "handle"}
    /\ batch \in Seq(Event)
    /\ pc = "handle" => batch # <<>>
    /\ waited \in 0..PollTimeout
    /\ spent \in 0..MaxHandle
    /\ reported \subseteq Conns
    /\ conn \in [Conns -> {"gone", "queued", "off", "in", "out"}]
    /\ left \in [Conns -> 0..Timeout \cup {NoTimer}]
    /\ room \in [Conns -> 0..BufferSize]
    /\ unsendable \in [Conns -> BOOLEAN]
    /\ sent \in [Conns -> 0..MaxSent]
    /\ hup \in [Conns -> BOOLEAN]
    /\ writable \in [Conns -> BOOLEAN]
    /\ idle \in [Conns -> Nat]
    /\ turns \in [Conns -> 0..MaxTurns]

Init ==
    /\ pc = "wait"
    /\ batch = <<>>
    /\ waited = 0
    /\ spent = 0
    /\ reported = {}
    /\ conn = [c \in Conns |-> "gone"]
    /\ left = [c \in Conns |-> NoTimer]
    /\ room = [c \in Conns |-> BufferSize]
    /\ unsendable = [c \in Conns |-> FALSE]
    /\ sent = [c \in Conns |-> 0]
    /\ hup = [c \in Conns |-> FALSE]
    /\ writable = [c \in Conns |-> TRUE]
    /\ idle = [c \in Conns |-> 0]
    /\ turns = [c \in Conns |-> 0]

-----------------------------------------------------------------------------
(* The clients. *)

Acted(c) == turns' = [turns EXCEPT ![c] = 0]

(* A new client, accepted and queued; CMD_ADD_FD is on its way. *)
Connect(c) ==
    /\ conn[c] = "gone"
    /\ conn' = [conn EXCEPT ![c] = "queued"]
    /\ UNCHANGED <<loopVars, left, room, unsendable, idle, clientVars, turns>>

Send(c) ==
    /\ conn[c] # "gone"
    /\ ~hup[c]
    /\ sent[c] < MaxSent
    /\ sent' = [sent EXCEPT ![c] = @ + 1]
    /\ Acted(c)
    /\ UNCHANGED <<loopVars, connVars, hup, writable>>

Hangup(c) ==
    /\ conn[c] # "gone"
    /\ ~hup[c]
    /\ hup' = [hup EXCEPT ![c] = TRUE]
    /\ Acted(c)
    /\ UNCHANGED <<loopVars, connVars, sent, writable>>

(* It reads what it was sent. *)
Read(c) ==
    /\ conn[c] # "gone"
    /\ ~writable[c]
    /\ writable' = [writable EXCEPT ![c] = TRUE]
    /\ Acted(c)
    /\ UNCHANGED <<loopVars, connVars, sent, hup>>

ClientStep(c) == Connect(c) \/ Send(c) \/ Hangup(c) \/ Read(c)

-----------------------------------------------------------------------------
(* epoll_wait *)

ReadyConns ==
    {c \in Conns : \/ conn[c] \in {"in", "out"} /\ hup[c]
                   \/ conn[c] = "in" /\ sent[c] > 0
                   \/ conn[c] = "out" /\ writable[c]}

(* What the loop makes of the event: a hang-up comes before the rest. *)
EventOf(c) == <<c, IF hup[c] THEN "close" ELSE conn[c]>>

Ready ==
    {EventOf(c) : c \in ReadyConns}
      \cup (IF \E c \in Conns : conn[c] = "queued" THEN {<<Cmd, "in">>} ELSE {})

(* Some of what is ready, in any order; a one-shot socket is then disarmed. *)
Deliver(n) ==
    \E order \in [1..n -> Ready] :
        /\ \A i, j \in 1..n : i # j => order[i] # order[j]
        /\ batch' = order
        /\ conn' = [c \in Conns |->
                        IF \E i \in 1..n : order[i][1] = c THEN "off" ELSE conn[c]]

EpollWait ==
    /\ pc = "wait"
    /\ Ready # {}
    /\ LET n == IF Cardinality(Ready) < MaxEvents THEN Cardinality(Ready) ELSE MaxEvents
       IN  Deliver(n)
    /\ reported' = {c \in Conns : \E i \in DOMAIN batch' : batch'[i][1] = c}
    /\ pc' = "turn"
    /\ UNCHANGED <<waited, spent, left, room, unsendable, idle, clientVars, turns>>

(* The timeout, or a signal's EINTR, and no event. *)
EpollWaitNothing ==
    /\ pc = "wait"
    /\ Ready = {}
    /\ pc' = "turn"
    /\ batch' = <<>>
    /\ reported' = {}
    /\ UNCHANGED <<waited, spent, connVars, clientVars, turns>>

-----------------------------------------------------------------------------
(* The handlers of a batch. *)

(* Fault: a connection that has a deadline keeps it. *)
AddTimerOnce(c) ==
    /\ left' = [left EXCEPT ![c] = IF @ = NoTimer THEN Timeout ELSE @]
    /\ idle' = [idle EXCEPT ![c] = 0]

(* timer_mgr_.add_timer: now and DEF_TIMER_EXPIRE_MS. *)
AddTimer(c) ==
    /\ left' = [left EXCEPT ![c] = Timeout]
    /\ idle' = [idle EXCEPT ![c] = 0]

(* handle_conn_close, of a set of connections: the timer is removed, and what
   the sockets held and the UserConns knew is lost. *)
Closed(S) ==
    /\ conn' = [c \in Conns |-> IF c \in S THEN "gone" ELSE conn[c]]
    /\ left' = [c \in Conns |-> IF c \in S THEN NoTimer ELSE left[c]]
    /\ room' = [c \in Conns |-> IF c \in S THEN BufferSize ELSE room[c]]
    /\ unsendable' = [c \in Conns |-> c \notin S /\ unsendable[c]]
    /\ sent' = [c \in Conns |-> IF c \in S THEN 0 ELSE sent[c]]
    /\ hup' = [c \in Conns |-> c \notin S /\ hup[c]]
    /\ writable' = [c \in Conns |-> c \in S \/ writable[c]]
    /\ idle' = [c \in Conns |-> IF c \in S THEN 0 ELSE idle[c]]
    /\ turns' = [c \in Conns |-> IF c \in S THEN 0 ELSE turns[c]]

NextEvent ==
    /\ batch' = Tail(batch)
    /\ pc' = "turn"
    /\ spent' = 0

(* Fault: the new sockets get no deadline. *)
HandleCmdNoTimer ==
    /\ pc = "turn"
    /\ batch # <<>>
    /\ Head(batch)[1] = Cmd
    /\ conn' = [c \in Conns |-> IF conn[c] = "queued" THEN "in" ELSE conn[c]]
    /\ idle' = [c \in Conns |-> IF conn[c] = "queued" THEN 0 ELSE idle[c]]
    /\ NextEvent
    /\ UNCHANGED <<waited, reported, left, room, unsendable, clientVars, turns>>

(* cmd_recv and add_clisock_to_epoll: every queued socket. *)
HandleCmd ==
    /\ pc = "turn"
    /\ batch # <<>>
    /\ Head(batch)[1] = Cmd
    /\ conn' = [c \in Conns |-> IF conn[c] = "queued" THEN "in" ELSE conn[c]]
    /\ left' = [c \in Conns |-> IF conn[c] = "queued" THEN Timeout ELSE left[c]]
    /\ idle' = [c \in Conns |-> IF conn[c] = "queued" THEN 0 ELSE idle[c]]
    /\ NextEvent
    /\ UNCHANGED <<waited, reported, room, unsendable, clientVars, turns>>

HandleClose(c) ==
    /\ pc = "turn"
    /\ batch # <<>>
    /\ Head(batch) = <<c, "close">>
    /\ Closed({c})
    /\ NextEvent
    /\ UNCHANGED <<waited, reported>>

(* handle_conn_in or handle_conn_out begins. *)
HandleBegin(c) ==
    /\ pc = "turn"
    /\ batch # <<>>
    /\ Head(batch) \in {<<c, "in">>, <<c, "out">>}
    /\ pc' = "handle"
    /\ AddTimer(c)
    /\ turns' = [turns EXCEPT ![c] = IF c \in Counted /\ @ < MaxTurns THEN @ + 1 ELSE @]
    /\ UNCHANGED <<batch, waited, spent, reported, conn, room, unsendable, clientVars>>

(* mod_conn_event_read or mod_conn_event_write. *)
ModConnEvent(c, what) ==
    /\ conn' = [conn EXCEPT ![c] = what]
    /\ AddTimer(c)

(* process_in: recv takes what is there and fits, if only nothing; a complete
   request, good or bad, is answered when the socket can be written. *)
ProcessIn(c) ==
    /\ pc = "handle"
    /\ Head(batch) = <<c, "in">>
    /\ LET got == IF sent[c] < room[c] THEN sent[c] ELSE room[c]
       IN  /\ sent' = [sent EXCEPT ![c] = @ - got]
           /\ room' = [room EXCEPT ![c] = @ - got]
           /\ \/ ModConnEvent(c, "in")
              \/ got > 0 /\ ModConnEvent(c, "out")
    /\ NextEvent
    /\ UNCHANGED <<waited, reported, unsendable, hup, writable, turns>>

(* Fault: the connection is kept without going back to reading. *)
ProcessOutKeepsWriting(c) ==
    /\ pc = "handle"
    /\ Head(batch) = <<c, "out">>
    /\ \/ Closed({c})
       \/ /\ ModConnEvent(c, "out")
          /\ \/ /\ room' = [room EXCEPT ![c] = BufferSize]
                /\ UNCHANGED <<unsendable, writable>>
             \/ writable' = [writable EXCEPT ![c] = FALSE] /\ UNCHANGED <<room, unsendable>>
             \/ /\ c \in Failing
                /\ unsendable' = [unsendable EXCEPT ![c] = TRUE]
                /\ UNCHANGED <<room, writable>>
          /\ UNCHANGED <<sent, hup, turns>>
    /\ NextEvent
    /\ UNCHANGED <<waited, reported>>

(* process_out.  The answer goes out, and the connection is closed or begins
   anew; or the send stops, with a socket that is full, or with one that has
   room: then the rest can never be sent.  That is so when sendfile has nothing
   left to send of a file that was longer when it was opened (:239), when a
   socket never takes a chunk (:18), and when the answer, built anew, is shorter
   than what of it is sent already: the size_t of :206 or :249 wraps round, and
   send goes on behind the string until it fails.  Whatever is sent of such an
   answer, it does not end.  Any answer to a Failing client may be of that sort. *)
ProcessOut(c) ==
    /\ pc = "handle"
    /\ Head(batch) = <<c, "out">>
    /\ \/ ~unsendable[c] /\ Closed({c})
       \/ /\ \/ /\ ~unsendable[c]
                /\ room' = [room EXCEPT ![c] = BufferSize]
                /\ ModConnEvent(c, "in")
                /\ UNCHANGED <<unsendable, writable>>
             \/ /\ writable' = [writable EXCEPT ![c] = FALSE]
                /\ ModConnEvent(c, "out")
                /\ UNCHANGED <<room, unsendable>>
             \/ /\ c \in Failing
                /\ unsendable' = [unsendable EXCEPT ![c] = TRUE]
                /\ ModConnEvent(c, "out")
                /\ UNCHANGED <<room, writable>>
          /\ UNCHANGED <<sent, hup, turns>>
    /\ NextEvent
    /\ UNCHANGED <<waited, reported>>

(* handle_expired_timers, and every connection it reports is closed. *)
HandleExpired ==
    /\ pc = "turn"
    /\ batch = <<>>
    /\ Closed({c \in Conns : left[c] = 0})
    /\ pc' = "wait"
    /\ waited' = 0
    /\ reported' = {}
    /\ UNCHANGED <<batch, spent>>

HandleStep(c) == HandleClose(c) \/ HandleBegin(c) \/ ProcessIn(c) \/ ProcessOut(c)

-----------------------------------------------------------------------------
Tick ==
    /\ \/ /\ pc = "wait"
          /\ Ready = {}
          /\ waited < PollTimeout
          /\ waited' = waited + 1
          /\ UNCHANGED spent
       \/ /\ pc = "handle"
          /\ spent < MaxHandle
          /\ spent' = spent + 1
          /\ UNCHANGED waited
    /\ left' = [c \in Conns |-> IF left[c] \in {0, NoTimer} THEN left[c] ELSE left[c] - 1]
    /\ idle' = [c \in Conns |->
                    IF conn[c] \in Served /\ idle[c] <= Bound THEN idle[c] + 1 ELSE idle[c]]
    /\ UNCHANGED <<pc, batch, reported, conn, room, unsendable, clientVars, turns>>

Next ==
    \/ \E c \in Conns : ClientStep(c) \/ HandleStep(c)
    \/ EpollWait
    \/ EpollWaitNothing
    \/ HandleCmd
    \/ HandleExpired
    \/ Tick

Spec == Init /\ [][Next]_vars

-----------------------------------------------------------------------------
(* A connection nobody touches is closed, although the loop sleeps on after
   its deadline and the handlers of others run on after that: it never gets
   older than the timeout, one wait and one turn of the loop. *)
ClosedInTime == \A c \in Conns : conn[c] \in Served => idle[c] <= Bound

(* While a turn is shorter than the timeout, no pass closes a connection that
   epoll_wait reported before it: however close to its deadline it was, and
   however long the others of its batch held it up, it is handled first, and is
   given a new one.  Who was ready and found no place in events_ may be closed. *)
ReadyNotExpired ==
    [][MaxEvents * MaxHandle < Timeout /\ pc = "turn" /\ pc' = "wait" =>
         \A c \in reported : conn[c] \in Served => conn'[c] \in Served]_vars

(* The connection cannot get on although its socket stays ready: recv is asked
   for nothing, since the buffer is full of an unfinished request and more is
   waiting, or what is left of its answer can never be sent.  The code is then
   busy with it for ever, or until the client goes. *)
Stuck(c) == unsendable[c] \/ (room[c] = 0 /\ sent[c] > 0)

(* A client that does nothing more is not handled for ever, which would renew
   its timer for ever, as long as recv and send do what they were called for:
   two handlings for each chunk it has sent and one for an answer it is owed,
   and then it is left to its timer.  A Stuck connection is not covered. *)
NoBusyLoop == \A c \in Conns : turns[c] > 2 * MaxSent + 1 => Stuck(c)
=============================================================================
