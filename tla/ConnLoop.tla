------------------------------ MODULE ConnLoop ------------------------------
(***************************************************************************)
(* The event-loop threads (connloop.cpp): each ConnLoop owns an epoll set, *)
(* the table of its connections, their timers, a queue of new sockets that *)
(* the acceptor fills under a mutex, and a socketpair of one-byte commands *)
(* that wakes it, registered edge-triggered.  Client sockets are one-shot: *)
(* reported once, then silent until the handler arms them again.           *)
(*                                                                         *)
(* What a UserConn decides (read more, write, close) is left open here, as *)
(* is which armed socket is ready and which deadline has passed; the clock *)
(* and the heap are TimerManager's.  This module defines one loop's state  *)
(* and steps; LiteWebServer composes the loops with the acceptor.          *)
(***************************************************************************)
EXTENDS Integers, Sequences, FiniteSets

CONSTANTS
    NThread,         \* ServerConf::nthread_: the loops are 0..NThread-1
    PoolMaxNum,      \* max_num of eventpool_, 10 by default: its workers
    Fds,             \* descriptors a client socket can get
    CmdPipeCap,      \* bytes the socketpair holds before a write blocks
    CmdBuffLen,      \* DEF_CMD_BUFF_LEN: bytes one read of it returns at most
    EpollMaxEvents   \* ServerConf::epoll_max_events_

ASSUME ConnLoopAssumption ==
    /\ NThread \in Nat \ {0}
    /\ PoolMaxNum \in Nat \ {0}
    /\ CmdPipeCap \in Nat \ {0}
    /\ CmdBuffLen \in Nat \ {0}
    /\ EpollMaxEvents \in Nat \ {0}

Loops == 0..NThread-1

Cmds == {"ADD_FD", "CLOSE"}

(* What an epoll entry asks for: nothing registered, EPOLLIN, EPOLLOUT, or
   registered and silenced by EPOLLONESHOT. *)
Interest == {"none", "in", "out", "off"}

(* What epoll_wait reports of a socket: nothing, or one of the three kinds
   the dispatch tells apart ("hup": EPOLLRDHUP, EPOLLHUP or EPOLLERR). *)
Report == {"none", "in", "out", "hup"}

VARIABLES
    open_fds,          \* client descriptors open in the process
    loop_pc,           \* where each loop's thread stands
    new_cli_socks_,    \* sockets handed over, not yet registered
    cmd_pipe,          \* bytes in the socketpair
    cmd_ready,         \* an edge of cmd_sockpair_[1] is pending in epfd_
    cmd_r_buf_,        \* commands read and not yet processed
    cmd_recv_add_fd,   \* this buffer has already caused a registration
    interest,          \* the entry of each descriptor in epfd_
    events_,           \* reports of the current batch still to dispatch
    cmd_event,         \* the current batch still holds the command socket
    conns_,            \* descriptors that have a UserConn
    timers,            \* descriptors in timer_map_
    expired_           \* expired descriptors still to close

loopVars == <<open_fds, loop_pc, new_cli_socks_, cmd_pipe, cmd_ready, cmd_r_buf_,
              cmd_recv_add_fd, interest, events_, cmd_event, conns_, timers, expired_>>

LoopTypeOK ==
    /\ open_fds \in SUBSET Fds
    /\ loop_pc \in [Loops -> {"queued", "wait", "events", "recv", "cmds", "expire", "done"}]
    /\ new_cli_socks_ \in [Loops -> SUBSET Fds]
    /\ cmd_pipe \in [Loops -> Seq(Cmds)]
    /\ cmd_ready \in [Loops -> BOOLEAN]
    /\ cmd_r_buf_ \in [Loops -> Seq(Cmds)]
    /\ cmd_recv_add_fd \in [Loops -> BOOLEAN]
    /\ interest \in [Loops -> [Fds -> Interest]]
    /\ events_ \in [Loops -> [Fds -> Report]]
    /\ cmd_event \in [Loops -> BOOLEAN]
    /\ conns_ \in [Loops -> SUBSET Fds]
    /\ timers \in [Loops -> SUBSET Fds]
    /\ expired_ \in [Loops -> SUBSET Fds]

(* The constructors have run and every ConnLoop::loop is a task of eventpool_. *)
LoopInit ==
    /\ open_fds = {}
    /\ loop_pc = [l \in Loops |-> "queued"]
    /\ new_cli_socks_ = [l \in Loops |-> {}]
    /\ cmd_pipe = [l \in Loops |-> <<>>]
    /\ cmd_ready = [l \in Loops |-> FALSE]
    /\ cmd_r_buf_ = [l \in Loops |-> <<>>]
    /\ cmd_recv_add_fd = [l \in Loops |-> FALSE]
    /\ interest = [l \in Loops |-> [fd \in Fds |-> "none"]]
    /\ events_ = [l \in Loops |-> [fd \in Fds |-> "none"]]
    /\ cmd_event = [l \in Loops |-> FALSE]
    /\ conns_ = [l \in Loops |-> {}]
    /\ timers = [l \in Loops |-> {}]
    /\ expired_ = [l \in Loops |-> {}]

Registered(l) == {fd \in Fds : interest[l][fd] # "none"}

InBatch(l) == {fd \in Fds : events_[l][fd] # "none"}

-----------------------------------------------------------------------------
(* A worker of the pool takes the next task: tasks are first in, first out,
   and a loop keeps its worker until it returns. *)
Running == {l \in Loops : loop_pc[l] \notin {"queued", "done"}}

StartLoop(l) ==
    /\ loop_pc[l] = "queued"
    /\ \A k \in Loops : k < l => loop_pc[k] # "queued"
    /\ Cardinality(Running) < PoolMaxNum
    /\ loop_pc' = [loop_pc EXCEPT ![l] = "wait"]
    /\ UNCHANGED <<open_fds, new_cli_socks_, cmd_pipe, cmd_ready, cmd_r_buf_, cmd_recv_add_fd,
                   interest, events_, cmd_event, conns_, timers, expired_>>

(* The batches epoll_wait can fill: what an entry asks for, or a hang-up,
   from entries that are not silenced. *)
Batch(l) ==
    {b \in [Fds -> Report] :
        \A fd \in Fds : b[fd] # "none" =>
            /\ interest[l][fd] \in {"in", "out"}
            /\ b[fd] \in {interest[l][fd], "hup"}}

(* epoll_wait returns: a batch, possibly empty (timeout or signal), with the
   command socket (cmd = TRUE) only if its edge is pending, which is spent. *)
EpollWait(l, cmd) ==
    /\ loop_pc[l] = "wait"
    /\ cmd => cmd_ready[l]
    /\ \E b \in Batch(l) :
        /\ Cardinality({fd \in Fds : b[fd] # "none"}) + (IF cmd THEN 1 ELSE 0) <= EpollMaxEvents
        /\ events_' = [events_ EXCEPT ![l] = b]
        /\ interest' = [interest EXCEPT ![l] =
               [fd \in Fds |-> IF b[fd] # "none" THEN "off" ELSE @[fd]]]
    /\ cmd_event' = [cmd_event EXCEPT ![l] = cmd]
    /\ cmd_ready' = [cmd_ready EXCEPT ![l] = @ /\ ~cmd]
    /\ loop_pc' = [loop_pc EXCEPT ![l] = "events"]
    /\ UNCHANGED <<open_fds, new_cli_socks_, cmd_pipe, cmd_r_buf_, cmd_recv_add_fd,
                   conns_, timers, expired_>>

-----------------------------------------------------------------------------
(* Faults: the descriptor is not closed; the timer is not removed. *)
CloseConnLeaks(l, fd) ==
    /\ interest' = [interest EXCEPT ![l][fd] = "none"]
    /\ conns_' = [conns_ EXCEPT ![l] = @ \ {fd}]
    /\ timers' = [timers EXCEPT ![l] = @ \ {fd}]
    /\ UNCHANGED open_fds

CloseConnKeepsTimer(l, fd) ==
    /\ interest' = [interest EXCEPT ![l][fd] = "none"]
    /\ conns_' = [conns_ EXCEPT ![l] = @ \ {fd}]
    /\ open_fds' = open_fds \ {fd}
    /\ UNCHANGED timers

(* handle_conn_close: out of the epoll set, out of conns_ (which destroys the
   UserConn), its timer removed, and the descriptor free for the acceptor. *)
CloseConn(l, fd) ==
    /\ interest' = [interest EXCEPT ![l][fd] = "none"]
    /\ conns_' = [conns_ EXCEPT ![l] = @ \ {fd}]
    /\ timers' = [timers EXCEPT ![l] = @ \ {fd}]
    /\ open_fds' = open_fds \ {fd}

(* Fault: a handler returns without arming the socket again. *)
ModConnEventSilent(l, fd, what) ==
    /\ conns_' = [conns_ EXCEPT ![l] = @ \cup {fd}]
    /\ timers' = [timers EXCEPT ![l] = @ \cup {fd}]
    /\ UNCHANGED <<interest, open_fds>>

(* mod_conn_event_read and mod_conn_event_write: armed again, timer pushed on. *)
ModConnEvent(l, fd, what) ==
    /\ interest' = [interest EXCEPT ![l][fd] = what]
    /\ conns_' = [conns_ EXCEPT ![l] = @ \cup {fd}]
    /\ timers' = [timers EXCEPT ![l] = @ \cup {fd}]
    /\ UNCHANGED open_fds

(* One client event of the batch.  A hang-up closes.  Otherwise the UserConn
   is created if need be and process_in or process_out runs: after input it
   asks for more input or for output, after output it asks for output again,
   for the next request, or closes. *)
ConnEvent(l, fd) ==
    /\ loop_pc[l] = "events"
    /\ events_[l][fd] # "none"
    /\ \/ events_[l][fd] = "hup" /\ CloseConn(l, fd)
       \/ events_[l][fd] = "in" /\ \E what \in {"in", "out"} : ModConnEvent(l, fd, what)
       \/ events_[l][fd] = "out" /\ \E what \in {"in", "out"} : ModConnEvent(l, fd, what)
       \/ events_[l][fd] = "out" /\ CloseConn(l, fd)
    /\ events_' = [events_ EXCEPT ![l][fd] = "none"]
    /\ UNCHANGED <<loop_pc, new_cli_socks_, cmd_pipe, cmd_ready, cmd_r_buf_, cmd_recv_add_fd,
                   cmd_event, expired_>>

-----------------------------------------------------------------------------
(* The command socket's turn in the batch: cmd_recv. *)
CmdEvent(l) ==
    /\ loop_pc[l] = "events"
    /\ cmd_event[l]
    /\ cmd_event' = [cmd_event EXCEPT ![l] = FALSE]
    /\ loop_pc' = [loop_pc EXCEPT ![l] = "recv"]
    /\ UNCHANGED <<open_fds, new_cli_socks_, cmd_pipe, cmd_ready, cmd_r_buf_, cmd_recv_add_fd,
                   interest, events_, conns_, timers, expired_>>

(* A read of cmd_recv that finds nothing, EAGAIN, ends it. *)
CmdReadAgain(l) ==
    /\ loop_pc[l] = "recv"
    /\ cmd_pipe[l] = <<>>
    /\ loop_pc' = [loop_pc EXCEPT ![l] = "events"]
    /\ UNCHANGED <<open_fds, new_cli_socks_, cmd_pipe, cmd_ready, cmd_r_buf_, cmd_recv_add_fd,
                   interest, events_, cmd_event, conns_, timers, expired_>>

(* Bytes one read returns. *)
ReadLen(l) == IF Len(cmd_pipe[l]) < CmdBuffLen THEN Len(cmd_pipe[l]) ELSE CmdBuffLen

(* Fault: cmd_recv_add_fd is declared before the while, not in it. *)
CmdReadKeepsFlag(l) ==
    /\ loop_pc[l] = "recv"
    /\ cmd_pipe[l] # <<>>
    /\ loop_pc' = [loop_pc EXCEPT ![l] = "cmds"]
    /\ cmd_r_buf_' = [cmd_r_buf_ EXCEPT ![l] = SubSeq(cmd_pipe[l], 1, ReadLen(l))]
    /\ cmd_pipe' = [cmd_pipe EXCEPT ![l] = SubSeq(@, ReadLen(l) + 1, Len(@))]
    /\ UNCHANGED <<open_fds, new_cli_socks_, cmd_ready, cmd_recv_add_fd,
                   interest, events_, cmd_event, conns_, timers, expired_>>

(* A read that finds commands; the flag starts again at FALSE. *)
CmdRead(l) ==
    /\ loop_pc[l] = "recv"
    /\ cmd_pipe[l] # <<>>
    /\ loop_pc' = [loop_pc EXCEPT ![l] = "cmds"]
    /\ cmd_r_buf_' = [cmd_r_buf_ EXCEPT ![l] = SubSeq(cmd_pipe[l], 1, ReadLen(l))]
    /\ cmd_pipe' = [cmd_pipe EXCEPT ![l] = SubSeq(@, ReadLen(l) + 1, Len(@))]
    /\ cmd_recv_add_fd' = [cmd_recv_add_fd EXCEPT ![l] = FALSE]
    /\ UNCHANGED <<open_fds, new_cli_socks_, cmd_ready, interest, events_, cmd_event,
                   conns_, timers, expired_>>

(* The first CMD_ADD_FD of a buffer: add_clisock_to_epoll swaps the whole
   queue out under the mutex and registers every socket in it. *)
CmdAddFd(l) ==
    /\ loop_pc[l] = "cmds"
    /\ cmd_r_buf_[l] # <<>>
    /\ Head(cmd_r_buf_[l]) = "ADD_FD"
    /\ ~cmd_recv_add_fd[l]
    /\ cmd_recv_add_fd' = [cmd_recv_add_fd EXCEPT ![l] = TRUE]
    /\ cmd_r_buf_' = [cmd_r_buf_ EXCEPT ![l] = Tail(@)]
    /\ interest' = [interest EXCEPT ![l] =
           [fd \in Fds |-> IF fd \in new_cli_socks_[l] THEN "in" ELSE @[fd]]]
    /\ timers' = [timers EXCEPT ![l] = @ \cup new_cli_socks_[l]]
    /\ new_cli_socks_' = [new_cli_socks_ EXCEPT ![l] = {}]
    /\ UNCHANGED <<open_fds, loop_pc, cmd_pipe, cmd_ready, events_, cmd_event, conns_, expired_>>

(* A further CMD_ADD_FD of the same buffer: nothing left to do for it. *)
CmdSkip(l) ==
    /\ loop_pc[l] = "cmds"
    /\ cmd_r_buf_[l] # <<>>
    /\ Head(cmd_r_buf_[l]) = "ADD_FD"
    /\ cmd_recv_add_fd[l]
    /\ cmd_r_buf_' = [cmd_r_buf_ EXCEPT ![l] = Tail(@)]
    /\ UNCHANGED <<open_fds, loop_pc, new_cli_socks_, cmd_pipe, cmd_ready, cmd_recv_add_fd,
                   interest, events_, cmd_event, conns_, timers, expired_>>

(* The buffer is used up: read again. *)
CmdsDone(l) ==
    /\ loop_pc[l] = "cmds"
    /\ cmd_r_buf_[l] = <<>>
    /\ loop_pc' = [loop_pc EXCEPT ![l] = "recv"]
    /\ UNCHANGED <<open_fds, new_cli_socks_, cmd_pipe, cmd_ready, cmd_r_buf_, cmd_recv_add_fd,
                   interest, events_, cmd_event, conns_, timers, expired_>>

(* CMD_CLOSE sets stop_: cmd_recv returns, and loop() returns at once, with
   whatever the batch still held. *)
CmdClose(l) ==
    /\ loop_pc[l] = "cmds"
    /\ cmd_r_buf_[l] # <<>>
    /\ Head(cmd_r_buf_[l]) = "CLOSE"
    /\ loop_pc' = [loop_pc EXCEPT ![l] = "done"]
    /\ UNCHANGED <<open_fds, new_cli_socks_, cmd_pipe, cmd_ready, cmd_r_buf_, cmd_recv_add_fd,
                   interest, events_, cmd_event, conns_, timers, expired_>>

-----------------------------------------------------------------------------
(* Fault: the for over the batch stops one short, and what it did not look at
   is gone with the next epoll_wait. *)
HandleExpiredTimersOneLeft(l) ==
    /\ loop_pc[l] = "events"
    /\ Cardinality(InBatch(l)) + (IF cmd_event[l] THEN 1 ELSE 0) <= 1
    /\ cmd_event' = [cmd_event EXCEPT ![l] = FALSE]
    /\ events_' = [events_ EXCEPT ![l] = [fd \in Fds |-> "none"]]
    /\ expired_' = expired_
    /\ timers' = timers
    /\ loop_pc' = [loop_pc EXCEPT ![l] = "expire"]
    /\ UNCHANGED <<open_fds, new_cli_socks_, cmd_pipe, cmd_ready, cmd_r_buf_, cmd_recv_add_fd,
                   interest, conns_>>

(* The batch is done: handle_expired_timers moves the due timers to expired_.
   Which are due is the clock's choice. *)
HandleExpiredTimers(l) ==
    /\ loop_pc[l] = "events"
    /\ ~cmd_event[l]
    /\ InBatch(l) = {}
    /\ \E due \in SUBSET timers[l] :
        /\ expired_' = [expired_ EXCEPT ![l] = due]
        /\ timers' = [timers EXCEPT ![l] = @ \ due]
    /\ loop_pc' = [loop_pc EXCEPT ![l] = "expire"]
    /\ UNCHANGED <<open_fds, new_cli_socks_, cmd_pipe, cmd_ready, cmd_r_buf_, cmd_recv_add_fd,
                   interest, events_, cmd_event, conns_>>

CloseExpired(l, fd) ==
    /\ loop_pc[l] = "expire"
    /\ fd \in expired_[l]
    /\ expired_' = [expired_ EXCEPT ![l] = @ \ {fd}]
    /\ CloseConn(l, fd)
    /\ UNCHANGED <<loop_pc, new_cli_socks_, cmd_pipe, cmd_ready, cmd_r_buf_, cmd_recv_add_fd,
                   events_, cmd_event>>

LoopAgain(l) ==
    /\ loop_pc[l] = "expire"
    /\ expired_[l] = {}
    /\ loop_pc' = [loop_pc EXCEPT ![l] = "wait"]
    /\ UNCHANGED <<open_fds, new_cli_socks_, cmd_pipe, cmd_ready, cmd_r_buf_, cmd_recv_add_fd,
                   interest, events_, cmd_event, conns_, timers, expired_>>

(* A step of loop l's thread, epoll_wait apart. *)
LoopWork(l) ==
    \/ \E fd \in Fds : ConnEvent(l, fd)
    \/ CmdEvent(l)
    \/ CmdReadAgain(l)
    \/ CmdRead(l)
    \/ CmdAddFd(l)
    \/ CmdSkip(l)
    \/ CmdsDone(l)
    \/ CmdClose(l)
    \/ HandleExpiredTimers(l)
    \/ \E fd \in Fds : CloseExpired(l, fd)
    \/ LoopAgain(l)

LoopStep(l) ==
    \/ StartLoop(l)
    \/ \E cmd \in BOOLEAN : EpollWait(l, cmd)
    \/ LoopWork(l)
=============================================================================
