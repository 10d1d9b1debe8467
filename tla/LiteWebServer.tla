--------------------------- MODULE LiteWebServer ---------------------------
(***************************************************************************)
(* The server (litewebserver.cpp): the main thread accepts connections,    *)
(* deals them out to the event loops in turn and ends the loops on SIGTERM *)
(* or SIGINT.  Composed here with the loops of ConnLoop and with its       *)
(* clients, who connect, and its operator, who sends the signal.           *)
(***************************************************************************)
EXTENDS ConnLoop

CONSTANTS
    EpollEtSrv,    \* ServerConf::epoll_et_srv_
    Backlog,       \* ServerConf::backlog_: the accept queue holds no more
    MaxConnect,    \* bound: connections the clients ever make
    MaxSignals,    \* bound: SIGTERM and SIGINT the operator ever sends
    NoFd           \* the acceptor holds no new socket

ASSUME LiteWebServerAssumption ==
    /\ EpollEtSrv \in BOOLEAN
    /\ Backlog \in Nat
    /\ MaxConnect \in Nat
    /\ MaxSignals \in Nat
    /\ NoFd \notin Fds

VARIABLES
    main_pc,       \* where the main thread stands
    srv_event,     \* the batch still holds the listening socket
    exit_in_batch, \* the batch still holds exit_event_
    cli_sock,      \* local of deal_new_conn_greedy
    pool_idx_,     \* the loop the next connection goes to
    stop_idx,      \* local i of the stopping loop
    backlog_len,   \* connections waiting to be accepted
    srv_edge,      \* an edge of the listening socket is pending
    exit_event_,   \* count in the eventfd, which nobody reads back
    connected      \* connections made so far

mainVars == <<main_pc, srv_event, exit_in_batch, cli_sock, pool_idx_, stop_idx>>
envVars == <<backlog_len, srv_edge, exit_event_, connected>>
vars == <<loopVars, mainVars, envVars>>

TypeOK ==
    /\ LoopTypeOK
    /\ main_pc \in {"wait", "events", "accept", "push", "send", "stop", "join", "done"}
    /\ srv_event \in BOOLEAN
    /\ exit_in_batch \in BOOLEAN
    /\ cli_sock \in Fds \cup {NoFd}
    /\ main_pc = "push" => cli_sock \in Fds
    /\ pool_idx_ \in Loops
    /\ stop_idx \in 0..NThread
    /\ backlog_len \in Nat
    /\ srv_edge \in BOOLEAN
    /\ exit_event_ \in Nat
    /\ connected \in Nat

Init ==
    /\ LoopInit
    /\ main_pc = "wait"
    /\ srv_event = FALSE
    /\ exit_in_batch = FALSE
    /\ cli_sock = NoFd
    /\ pool_idx_ = 0
    /\ stop_idx = 0
    /\ backlog_len = 0
    /\ srv_edge = FALSE
    /\ exit_event_ = 0
    /\ connected = 0

-----------------------------------------------------------------------------
(* The environment. *)

ClientConnect ==
    /\ connected < MaxConnect
    /\ backlog_len < Backlog
    /\ connected' = connected + 1
    /\ backlog_len' = backlog_len + 1
    /\ srv_edge' = TRUE
    /\ UNCHANGED <<loopVars, mainVars, exit_event_>>

(* handle_signal adds one to the eventfd. *)
WriteExitEvent ==
    /\ exit_event_ < MaxSignals
    /\ exit_event_' = exit_event_ + 1
    /\ UNCHANGED <<backlog_len, srv_edge, connected>>

(* A signal that interrupts nothing, or only an epoll_wait. *)
HandleSignal == WriteExitEvent /\ UNCHANGED <<loopVars, mainVars>>

-----------------------------------------------------------------------------
(* The main thread. *)

(* Fault: EPOLLET whatever the configuration says. *)
SrvReadyAlwaysEt == srv_edge

(* Level-triggered, the listening socket is ready while a connection waits;
   edge-triggered, once per arrival. *)
SrvReady == IF EpollEtSrv THEN srv_edge ELSE backlog_len > 0

ExitReady == exit_event_ > 0

(* epoll_wait without timeout: all that is ready, up to EpollMaxEvents. *)
EpollWaitMain ==
    /\ main_pc = "wait"
    /\ \E s \in {b \in BOOLEAN : b => SrvReady}, e \in {b \in BOOLEAN : b => ExitReady} :
        /\ s \/ e
        /\ s /\ e => EpollMaxEvents >= 2
        /\ EpollMaxEvents >= 2 => s = SrvReady /\ e = ExitReady
        /\ srv_event' = s
        /\ exit_in_batch' = e
        /\ srv_edge' = (srv_edge /\ ~s)
    /\ main_pc' = "events"
    /\ UNCHANGED <<loopVars, cli_sock, pool_idx_, stop_idx, backlog_len, exit_event_, connected>>

(* The listening socket's turn: deal_new_conn_greedy. *)
DealNewConn ==
    /\ main_pc = "events"
    /\ srv_event
    /\ srv_event' = FALSE
    /\ main_pc' = "accept"
    /\ UNCHANGED <<loopVars, exit_in_batch, cli_sock, pool_idx_, stop_idx, envVars>>

(* exit_event_'s turn: the rest of the batch is dropped and the loop ends. *)
ExitEvent ==
    /\ main_pc = "events"
    /\ exit_in_batch
    /\ main_pc' = "stop"
    /\ stop_idx' = 0
    /\ srv_event' = FALSE
    /\ exit_in_batch' = FALSE
    /\ UNCHANGED <<loopVars, cli_sock, pool_idx_, envVars>>

EventsDone ==
    /\ main_pc = "events"
    /\ ~srv_event
    /\ ~exit_in_batch
    /\ main_pc' = "wait"
    /\ UNCHANGED <<loopVars, srv_event, exit_in_batch, cli_sock, pool_idx_, stop_idx, envVars>>

Accept(fd) ==
    /\ main_pc = "accept"
    /\ backlog_len > 0
    /\ fd \in Fds \ open_fds
    /\ open_fds' = open_fds \cup {fd}
    /\ cli_sock' = fd
    /\ backlog_len' = backlog_len - 1
    /\ main_pc' = "push"
    /\ UNCHANGED <<loop_pc, new_cli_socks_, cmd_pipe, cmd_ready, cmd_r_buf_, cmd_recv_add_fd,
                   interest, events_, cmd_event, conns_, timers, expired_,
                   srv_event, exit_in_batch, pool_idx_, stop_idx,
                   srv_edge, exit_event_, connected>>

(* accept fails: nothing waits (EAGAIN), or no descriptor is free (EMFILE);
   any error but EINTR ends the greedy loop. *)
AcceptFails ==
    /\ main_pc = "accept"
    /\ backlog_len = 0 \/ open_fds = Fds
    /\ main_pc' = "events"
    /\ UNCHANGED <<loopVars, srv_event, exit_in_batch, cli_sock, pool_idx_, stop_idx, envVars>>

(* add_clisock_to_queue, under the mutex. *)
PushCliSock ==
    /\ main_pc = "push"
    /\ new_cli_socks_' = [new_cli_socks_ EXCEPT ![pool_idx_] = @ \cup {cli_sock}]
    /\ main_pc' = "send"
    /\ UNCHANGED <<open_fds, loop_pc, cmd_pipe, cmd_ready, cmd_r_buf_, cmd_recv_add_fd,
                   interest, events_, cmd_event, conns_, timers, expired_,
                   srv_event, exit_in_batch, cli_sock, pool_idx_, stop_idx, envVars>>

(* Fault: a non-blocking write, which drops the command when the pipe is full;
   the comment at connloop.cpp:40-42 considers it. *)
CmdSendDrops(l, cmd) ==
    /\ IF Len(cmd_pipe[l]) < CmdPipeCap
       THEN /\ cmd_pipe' = [cmd_pipe EXCEPT ![l] = Append(@, cmd)]
            /\ cmd_ready' = [cmd_ready EXCEPT ![l] = TRUE]
       ELSE UNCHANGED <<cmd_pipe, cmd_ready>>
    /\ UNCHANGED <<open_fds, loop_pc, new_cli_socks_, cmd_r_buf_, cmd_recv_add_fd,
                   interest, events_, cmd_event, conns_, timers, expired_>>

(* cmd_send: a blocking write of one byte, which is an edge for the reader. *)
CmdSend(l, cmd) ==
    /\ Len(cmd_pipe[l]) < CmdPipeCap
    /\ cmd_pipe' = [cmd_pipe EXCEPT ![l] = Append(@, cmd)]
    /\ cmd_ready' = [cmd_ready EXCEPT ![l] = TRUE]
    /\ UNCHANGED <<open_fds, loop_pc, new_cli_socks_, cmd_r_buf_, cmd_recv_add_fd,
                   interest, events_, cmd_event, conns_, timers, expired_>>

(* Fault: the index does not come round. *)
NextIdxUnwrapped == pool_idx_ + 1

NextIdx == (pool_idx_ + 1) % NThread

(* What follows a write of CMD_ADD_FD, and of CMD_CLOSE, whatever it returned:
   the next connection goes to the next loop, and the next loop is stopped. *)
AfterAddFd ==
    /\ main_pc = "send"
    /\ pool_idx_' = NextIdx
    /\ cli_sock' = NoFd
    /\ main_pc' = "accept"
    /\ UNCHANGED <<srv_event, exit_in_batch, stop_idx>>

AfterClose ==
    /\ main_pc = "stop"
    /\ stop_idx < NThread
    /\ stop_idx' = stop_idx + 1
    /\ UNCHANGED <<main_pc, srv_event, exit_in_batch, cli_sock, pool_idx_>>

(* The rest of add_clisock_to_queue; ConnLoop::stop. *)
SendAddFd == AfterAddFd /\ CmdSend(pool_idx_, "ADD_FD") /\ UNCHANGED envVars

SendClose == AfterClose /\ CmdSend(stop_idx, "CLOSE") /\ UNCHANGED envVars

(* The handlers are installed without SA_RESTART: a signal that reaches the
   main thread while its write waits for room ends the write with EINTR, which
   cmd_send reports and gives up on. *)
WriteInterrupted(l) ==
    /\ Len(cmd_pipe[l]) >= CmdPipeCap
    /\ WriteExitEvent
    /\ UNCHANGED loopVars

AddFdInterrupted == AfterAddFd /\ WriteInterrupted(pool_idx_)

CloseInterrupted == AfterClose /\ WriteInterrupted(stop_idx)

StartLoopReturns ==
    /\ main_pc = "stop"
    /\ stop_idx = NThread
    /\ main_pc' = "join"
    /\ UNCHANGED <<loopVars, srv_event, exit_in_batch, cli_sock, pool_idx_, stop_idx, envVars>>

(* The destructor of eventpool_ waits for every task. *)
JoinPool ==
    /\ main_pc = "join"
    /\ \A l \in Loops : loop_pc[l] = "done"
    /\ main_pc' = "done"
    /\ UNCHANGED <<loopVars, srv_event, exit_in_batch, cli_sock, pool_idx_, stop_idx, envVars>>

MainStep ==
    \/ EpollWaitMain
    \/ DealNewConn
    \/ ExitEvent
    \/ EventsDone
    \/ \E fd \in Fds : Accept(fd)
    \/ AcceptFails
    \/ PushCliSock
    \/ SendAddFd
    \/ SendClose
    \/ StartLoopReturns
    \/ JoinPool

Next ==
    \/ \E l \in Loops : LoopStep(l) /\ UNCHANGED <<mainVars, envVars>>
    \/ MainStep
    \/ ClientConnect
    \/ HandleSignal
    \/ AddFdInterrupted
    \/ CloseInterrupted

Spec == Init /\ [][Next]_vars

(* The threads are scheduled.  A worker that is free takes a task; epoll_wait
   returns after its timeout at the latest; a handler does not block.  A ready
   socket is not passed over for ever, epoll's ready list being a queue: hence
   strong fairness for the batches that hold the command socket.  Nothing is
   asked of the clients or of the operator. *)
OfLoops(A) == A /\ UNCHANGED <<mainVars, envVars>>

Fairness ==
    /\ \A l \in Loops :
        /\ WF_vars(OfLoops(StartLoop(l)))
        /\ WF_vars(OfLoops(\E cmd \in BOOLEAN : EpollWait(l, cmd)))
        /\ SF_vars(OfLoops(EpollWait(l, TRUE)))
        /\ WF_vars(OfLoops(LoopWork(l)))
    /\ WF_vars(MainStep)

FairSpec == Spec /\ Fairness

-----------------------------------------------------------------------------
(* What the acceptor holds between accept and the push. *)
Accepted == IF main_pc = "push" THEN {cli_sock} ELSE {}

(* The descriptors loop l answers for. *)
Held(l) == new_cli_socks_[l] \cup Registered(l)

(* Every open descriptor is in exactly one place -- the acceptor's hands, one
   queue, or one epoll set -- and only open ones are anywhere: none leaks, and
   none is served by two loops, although close and accept race on the numbers
   (connloop.cpp:168-174 against litewebserver.cpp:313-327). *)
OneOwner ==
    /\ \A l \in Loops : Accepted \cap Held(l) = {}
    /\ \A l \in Loops : new_cli_socks_[l] \cap Registered(l) = {}
    /\ \A k, l \in Loops : k # l => Held(k) \cap Held(l) = {}
    /\ open_fds = Accepted \cup UNION {Held(l) : l \in Loops}

(* A loop's tables speak of the sockets it serves and no others: a closed
   number leaves neither a UserConn, which would answer the next client with
   the last one's state, nor a timer, which would close the next client, nor
   a report behind.  Every served socket has its deadline, and what one pass
   collects, reports or expired sockets, is used up before the next. *)
TablesAgreeAt(l) ==
    /\ conns_[l] \subseteq Registered(l)
    /\ timers[l] \cap expired_[l] = {}
    /\ timers[l] \cup expired_[l] = Registered(l)
    /\ InBatch(l) \subseteq Registered(l)
    /\ loop_pc[l] \in {"queued", "wait", "expire"} => InBatch(l) = {}
    /\ loop_pc[l] # "expire" => expired_[l] = {}

TablesAgree == \A l \in Loops : TablesAgreeAt(l)

(* A socket silenced by EPOLLONESHOT is in the batch being dispatched: every
   path through the handlers arms it again or closes it (connloop.cpp:74-97,
   userconn.cpp:46-129). *)
NoSilentConnAt(l) == \A fd \in Fds : interest[l][fd] = "off" <=> fd \in InBatch(l)

NoSilentConn == \A l \in Loops : NoSilentConnAt(l)

(* A queued socket has a CMD_ADD_FD under way that will still find it: in the
   pipe, in the buffer before the swap, or about to be written.  The pair
   push-then-send on one side and one-swap-per-read on the other loses none,
   even when a signal cuts a write short: the pipe was full, of CMD_ADD_FD. *)
HasAddFd(cmds) == \E i \in 1..Len(cmds) : cmds[i] = "ADD_FD"

NoLostHandoffAt(l) ==
    new_cli_socks_[l] # {} =>
        \/ main_pc = "send" /\ pool_idx_ = l
        \/ HasAddFd(cmd_pipe[l])
        \/ ~cmd_recv_add_fd[l] /\ HasAddFd(cmd_r_buf_[l])

NoLostHandoff == \A l \in Loops : NoLostHandoffAt(l)

(* Bytes in the edge-triggered socketpair are announced or being read: the
   loop never sleeps on a command whose edge it has already spent. *)
NoLostEdgeAt(l) ==
    cmd_pipe[l] # <<>> =>
        cmd_ready[l] \/ cmd_event[l] \/ loop_pc[l] \in {"recv", "cmds", "done"}

NoLostEdge == \A l \in Loops : NoLostEdgeAt(l)

Stopping == main_pc \in {"stop", "join", "done"}

(* The loops whose CMD_CLOSE has been written, or given up; the loops that have
   one before them, or have followed it. *)
Told == {l \in Loops : Stopping /\ l < stop_idx}

HasClose(cmds) == \E i \in 1..Len(cmds) : cmds[i] = "CLOSE"

Hears(l) == loop_pc[l] = "done" \/ HasClose(cmd_pipe[l]) \/ HasClose(cmd_r_buf_[l])

Heard == {l \in Loops : Hears(l)}

(* No loop ends that was not told to, so the acceptor never waits for room in
   a socketpair whose reader is gone (connloop.cpp:150); and of the loops that
   were told, whatever they were doing, fewer miss it than there were signals:
   a stop is lost only to a signal after the one being served, and each takes
   one loop's stop at most (connloop.cpp:151, litewebserver.cpp:132-134). *)
StopReaches ==
    /\ Heard \subseteq Told
    /\ Stopping => Cardinality(Told \ Heard) < exit_event_

Serving == [l \in Loops |-> Registered(l)]

Lifecycle == INSTANCE FdLifecycle WITH
    accepted <- Accepted,
    queued <- new_cli_socks_,
    serving <- Serving

(* The acceptor and the loops keep the promise of FdLifecycle: a descriptor is
   closed only by the loop that serves it, and served only by the loop it was
   handed to. *)
LifecycleSpec == Lifecycle!Spec

(* Connections dealt out to a loop are taken up by it, all of them at once,
   unless it is stopped. *)
HandoffServed ==
    \A l \in Loops :
        (new_cli_socks_[l] # {}) ~> (new_cli_socks_[l] = {} \/ loop_pc[l] = "done")

(* After SIGTERM or SIGINT the main thread leaves its loop, every event loop
   ends and the pool is joined, wherever the signal finds them. *)
ShutdownCompletes == ExitReady ~> (main_pc = "done")

(* A connection does not wait for ever while a descriptor is free, until the
   server is told to stop. *)
PendingAccepted ==
    (backlog_len > 0) ~>
        (backlog_len = 0 \/ open_fds = Fds \/ Stopping)
=============================================================================
