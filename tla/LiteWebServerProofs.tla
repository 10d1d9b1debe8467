------------------------ MODULE LiteWebServerProofs ------------------------
(***************************************************************************)
(* Proofs about the composed server, for any number of loops, workers and  *)
(* descriptors and any capacity of the socketpairs.                        *)
(***************************************************************************)
EXTENDS LiteWebServer, TLAPS, FiniteSetTheorems

USE ConnLoopAssumption, LiteWebServerAssumption

-----------------------------------------------------------------------------
(* Types. *)

LEMMA StartLoopType == ASSUME TypeOK, NEW l \in Loops, StartLoop(l) PROVE LoopTypeOK'
BY DEF TypeOK, LoopTypeOK, StartLoop

LEMMA EpollWaitType ==
  ASSUME TypeOK, NEW l \in Loops, NEW cmd \in BOOLEAN, EpollWait(l, cmd)
  PROVE  LoopTypeOK'
<1> USE DEF TypeOK, LoopTypeOK
<1>1. PICK b \in Batch(l) :
        /\ events_' = [events_ EXCEPT ![l] = b]
        /\ interest' = [interest EXCEPT ![l] =
               [fd \in Fds |-> IF b[fd] # "none" THEN "off" ELSE @[fd]]]
  BY DEF EpollWait
<1>2. b \in [Fds -> Report]
  BY DEF Batch
<1>3. events_' \in [Loops -> [Fds -> Report]]
  BY <1>1, <1>2
<1>4. interest' \in [Loops -> [Fds -> Interest]]
  BY <1>1 DEF Interest
<1> QED BY <1>3, <1>4 DEF EpollWait

LEMMA ConnEventType ==
  ASSUME TypeOK, NEW l \in Loops, NEW fd \in Fds, ConnEvent(l, fd)
  PROVE  LoopTypeOK'
<1> USE DEF TypeOK, LoopTypeOK
<1>1. events_' \in [Loops -> [Fds -> Report]]
  BY DEF ConnEvent, Report
<1>2. CASE CloseConn(l, fd)
  BY <1>1, <1>2 DEF ConnEvent, CloseConn, Interest
<1>3. ASSUME NEW what \in {"in", "out"}, ModConnEvent(l, fd, what) PROVE LoopTypeOK'
  BY <1>1, <1>3 DEF ConnEvent, ModConnEvent, Interest
<1> QED BY <1>2, <1>3 DEF ConnEvent

LEMMA CmdReadType == ASSUME TypeOK, NEW l \in Loops, CmdRead(l) PROVE LoopTypeOK'
<1> USE DEF TypeOK, LoopTypeOK
<1>1. cmd_pipe[l] \in Seq(Cmds)
  OBVIOUS
<1>2. ReadLen(l) \in 1..Len(cmd_pipe[l])
  BY <1>1 DEF CmdRead, ReadLen
<1>3. /\ SubSeq(cmd_pipe[l], 1, ReadLen(l)) \in Seq(Cmds)
      /\ SubSeq(cmd_pipe[l], ReadLen(l) + 1, Len(cmd_pipe[l])) \in Seq(Cmds)
  BY <1>1, <1>2
<1>4. cmd_pipe' \in [Loops -> Seq(Cmds)] /\ cmd_r_buf_' \in [Loops -> Seq(Cmds)]
  BY <1>3 DEF CmdRead
<1> QED BY <1>4 DEF CmdRead

LEMMA CmdAddFdType == ASSUME TypeOK, NEW l \in Loops, CmdAddFd(l) PROVE LoopTypeOK'
<1> USE DEF TypeOK, LoopTypeOK
<1>1. Tail(cmd_r_buf_[l]) \in Seq(Cmds)
  BY DEF CmdAddFd
<1>2. interest' \in [Loops -> [Fds -> Interest]]
  BY DEF CmdAddFd, Interest
<1> QED BY <1>1, <1>2 DEF CmdAddFd

LEMMA CmdSkipType == ASSUME TypeOK, NEW l \in Loops, CmdSkip(l) PROVE LoopTypeOK'
<1> USE DEF TypeOK, LoopTypeOK
<1>1. Tail(cmd_r_buf_[l]) \in Seq(Cmds)
  BY DEF CmdSkip
<1> QED BY <1>1 DEF CmdSkip

LEMMA LoopStepType == ASSUME TypeOK, NEW l \in Loops, LoopStep(l) PROVE LoopTypeOK'
<1>1. CASE CmdEvent(l)
  BY <1>1 DEF CmdEvent, TypeOK, LoopTypeOK
<1>2. CASE CmdReadAgain(l)
  BY <1>2 DEF CmdReadAgain, TypeOK, LoopTypeOK
<1>3. CASE CmdsDone(l)
  BY <1>3 DEF CmdsDone, TypeOK, LoopTypeOK
<1>4. CASE CmdClose(l)
  BY <1>4 DEF CmdClose, TypeOK, LoopTypeOK
<1>5. CASE HandleExpiredTimers(l)
  BY <1>5 DEF HandleExpiredTimers, TypeOK, LoopTypeOK
<1>6. ASSUME NEW fd \in Fds, CloseExpired(l, fd) PROVE LoopTypeOK'
  BY <1>6 DEF CloseExpired, CloseConn, Interest, TypeOK, LoopTypeOK
<1>7. CASE LoopAgain(l)
  BY <1>7 DEF LoopAgain, TypeOK, LoopTypeOK
<1> QED BY <1>1, <1>2, <1>3, <1>4, <1>5, <1>6, <1>7, StartLoopType, EpollWaitType,
           ConnEventType, CmdReadType, CmdAddFdType, CmdSkipType
        DEF LoopStep, LoopWork

LEMMA CmdSendType ==
  ASSUME TypeOK, NEW l \in Loops, NEW cmd \in Cmds, CmdSend(l, cmd)
  PROVE  LoopTypeOK'
<1> USE DEF TypeOK, LoopTypeOK
<1>1. Append(cmd_pipe[l], cmd) \in Seq(Cmds)
  OBVIOUS
<1> QED BY <1>1 DEF CmdSend

LEMMA MainStepType == ASSUME TypeOK, MainStep PROVE TypeOK'
<1> USE DEF TypeOK
<1>1. CASE EpollWaitMain
  BY <1>1 DEF EpollWaitMain, LoopTypeOK, loopVars
<1>2. CASE DealNewConn
  BY <1>2 DEF DealNewConn, LoopTypeOK, loopVars, envVars
<1>3. CASE ExitEvent
  <2>1. LoopTypeOK' /\ stop_idx' \in 0..NThread
    BY <1>3 DEF ExitEvent, LoopTypeOK, loopVars
  <2> QED BY <1>3, <2>1 DEF ExitEvent, envVars
<1>4. CASE EventsDone
  BY <1>4 DEF EventsDone, LoopTypeOK, loopVars, envVars
<1>5. ASSUME NEW fd \in Fds, Accept(fd) PROVE TypeOK'
  BY <1>5 DEF Accept, LoopTypeOK
<1>6. CASE AcceptFails
  BY <1>6 DEF AcceptFails, LoopTypeOK, loopVars, envVars
<1>7. CASE PushCliSock
  <2>1. cli_sock \in Fds
    BY <1>7 DEF PushCliSock
  <2> QED BY <1>7 DEF PushCliSock, LoopTypeOK, envVars
<1>8. CASE SendAddFd
  <2>1. LoopTypeOK'
    BY <1>8, CmdSendType DEF SendAddFd, Cmds
  <2>2. pool_idx_' \in Loops
    BY <1>8 DEF SendAddFd, AfterAddFd, NextIdx, Loops
  <2> QED BY <1>8, <2>1, <2>2 DEF SendAddFd, AfterAddFd, envVars
<1>9. CASE SendClose
  <2>1. LoopTypeOK'
    BY <1>9, CmdSendType DEF SendClose, AfterClose, Cmds, Loops
  <2>2. stop_idx' \in 0..NThread
    BY <1>9 DEF SendClose, AfterClose
  <2> QED BY <1>9, <2>1, <2>2 DEF SendClose, AfterClose, envVars
<1>10. CASE StartLoopReturns
  BY <1>10 DEF StartLoopReturns, LoopTypeOK, loopVars, envVars
<1>11. CASE JoinPool
  BY <1>11 DEF JoinPool, LoopTypeOK, loopVars, envVars
<1> QED BY <1>1, <1>2, <1>3, <1>4, <1>5, <1>6, <1>7, <1>8, <1>9, <1>10, <1>11 DEF MainStep

Interrupted == AddFdInterrupted \/ CloseInterrupted

LEMMA InterruptedType == ASSUME TypeOK, Interrupted PROVE TypeOK'
<1> USE DEF TypeOK
<1>1. LoopTypeOK' /\ exit_event_' \in Nat /\ UNCHANGED <<backlog_len, srv_edge, connected>>
  BY DEF Interrupted, AddFdInterrupted, CloseInterrupted, WriteInterrupted, WriteExitEvent,
         LoopTypeOK, loopVars
<1>2. CASE AddFdInterrupted
  <2>1. pool_idx_' \in Loops
    BY <1>2 DEF AddFdInterrupted, AfterAddFd, NextIdx, Loops
  <2> QED BY <1>1, <1>2, <2>1 DEF AddFdInterrupted, AfterAddFd
<1>3. CASE CloseInterrupted
  <2>1. stop_idx' \in 0..NThread
    BY <1>3 DEF CloseInterrupted, AfterClose
  <2> QED BY <1>1, <1>3, <2>1 DEF CloseInterrupted, AfterClose
<1> QED BY <1>2, <1>3 DEF Interrupted

LEMMA TypeStep == TypeOK /\ [Next]_vars => TypeOK'
<1> SUFFICES ASSUME TypeOK, [Next]_vars PROVE TypeOK'
  OBVIOUS
<1>1. ASSUME NEW l \in Loops, LoopStep(l), UNCHANGED <<mainVars, envVars>> PROVE TypeOK'
  BY <1>1, LoopStepType DEF TypeOK, mainVars, envVars
<1>2. CASE ClientConnect
  BY <1>2 DEF ClientConnect, TypeOK, LoopTypeOK, loopVars, mainVars
<1>3. CASE HandleSignal
  BY <1>3 DEF HandleSignal, WriteExitEvent, TypeOK, LoopTypeOK, loopVars, mainVars
<1>4. CASE UNCHANGED vars
  BY <1>4 DEF vars, TypeOK, LoopTypeOK, loopVars, mainVars, envVars
<1> QED BY <1>1, <1>2, <1>3, <1>4, MainStepType, InterruptedType DEF Next, Interrupted

LEMMA TypeInit == Init => TypeOK
<1>1. LoopInit => LoopTypeOK
  BY DEF LoopInit, LoopTypeOK, Interest, Report
<1>2. 0 \in Loops /\ 0 \in 0..NThread /\ 0 \in Nat
  BY DEF Loops
<1> SUFFICES ASSUME Init PROVE TypeOK
  OBVIOUS
<1>3. LoopTypeOK /\ pool_idx_ \in Loops /\ stop_idx \in 0..NThread
  BY <1>1, <1>2 DEF Init
<1>4. main_pc = "wait" /\ cli_sock = NoFd
  BY DEF Init
<1> QED BY <1>3, <1>4 DEF Init, TypeOK

(* Every state of every behaviour of the server has the types TypeOK names. *)
THEOREM TypeCorrect == Spec => []TypeOK
BY TypeInit, TypeStep, PTL DEF Spec

-----------------------------------------------------------------------------
(* The tables of one loop.  A loop's step touches its own rows only, and the
   main thread touches none of them. *)

LoopInv(l) == TablesAgreeAt(l) /\ NoSilentConnAt(l)

(* The rows of loop l that LoopInv speaks of. *)
Row(l) == <<loop_pc[l], interest[l], events_[l], conns_[l], timers[l], expired_[l]>>

LEMMA RowFrame == ASSUME NEW l \in Loops, LoopInv(l), UNCHANGED Row(l) PROVE LoopInv(l)'
BY DEF LoopInv, TablesAgreeAt, NoSilentConnAt, Row, Registered, InBatch

LEMMA OtherRows ==
  ASSUME TypeOK, NEW l \in Loops, LoopStep(l), NEW k \in Loops, k # l
  PROVE  UNCHANGED Row(k)
<1> USE DEF TypeOK, LoopTypeOK, Row
<1>1. CASE StartLoop(l)
  BY <1>1 DEF StartLoop
<1>2. ASSUME NEW cmd \in BOOLEAN, EpollWait(l, cmd) PROVE UNCHANGED Row(k)
  BY <1>2 DEF EpollWait
<1>3. ASSUME NEW fd \in Fds, ConnEvent(l, fd) PROVE UNCHANGED Row(k)
  BY <1>3 DEF ConnEvent, CloseConn, ModConnEvent
<1>4. CASE CmdEvent(l)
  BY <1>4 DEF CmdEvent
<1>5. CASE CmdReadAgain(l)
  BY <1>5 DEF CmdReadAgain
<1>6. CASE CmdRead(l)
  BY <1>6 DEF CmdRead
<1>7. CASE CmdAddFd(l)
  BY <1>7 DEF CmdAddFd
<1>8. CASE CmdSkip(l)
  BY <1>8 DEF CmdSkip
<1>9. CASE CmdsDone(l)
  BY <1>9 DEF CmdsDone
<1>10. CASE CmdClose(l)
  BY <1>10 DEF CmdClose
<1>11. CASE HandleExpiredTimers(l)
  BY <1>11 DEF HandleExpiredTimers
<1>12. ASSUME NEW fd \in Fds, CloseExpired(l, fd) PROVE UNCHANGED Row(k)
  BY <1>12 DEF CloseExpired, CloseConn
<1>13. CASE LoopAgain(l)
  BY <1>13 DEF LoopAgain
<1> QED BY <1>1, <1>2, <1>3, <1>4, <1>5, <1>6, <1>7, <1>8, <1>9, <1>10, <1>11, <1>12, <1>13
        DEF LoopStep, LoopWork

LEMMA MainRows ==
  ASSUME TypeOK, MainStep \/ ClientConnect \/ HandleSignal \/ Interrupted \/ UNCHANGED vars,
         NEW l \in Loops
  PROVE  UNCHANGED Row(l)
BY DEF MainStep, EpollWaitMain, DealNewConn, ExitEvent, EventsDone, Accept, AcceptFails,
       PushCliSock, SendAddFd, SendClose, CmdSend, StartLoopReturns, JoinPool, ClientConnect,
       HandleSignal, Interrupted, AddFdInterrupted, CloseInterrupted, WriteInterrupted,
       vars, loopVars, Row

LEMMA EpollWaitRow ==
  ASSUME TypeOK, NEW l \in Loops, LoopInv(l), NEW cmd \in BOOLEAN, EpollWait(l, cmd)
  PROVE  LoopInv(l)'
<1> USE DEF TypeOK, LoopTypeOK, LoopInv, TablesAgreeAt, NoSilentConnAt
<1>1. PICK b \in Batch(l) :
        /\ events_' = [events_ EXCEPT ![l] = b]
        /\ interest' = [interest EXCEPT ![l] =
               [fd \in Fds |-> IF b[fd] # "none" THEN "off" ELSE @[fd]]]
  BY DEF EpollWait
<1>2. \A fd \in Fds : b[fd] # "none" => interest[l][fd] \in {"in", "out"}
  BY DEF Batch
<1>3. events_'[l] = b
  BY <1>1
<1>4. \A fd \in Fds :
        interest'[l][fd] = IF b[fd] # "none" THEN "off" ELSE interest[l][fd]
  BY <1>1
<1>5. Registered(l)' = Registered(l)
  BY <1>2, <1>4 DEF Registered
<1>6. InBatch(l) = {}
  BY DEF EpollWait
<1>7. InBatch(l)' = {fd \in Fds : b[fd] # "none"}
  BY <1>3 DEF InBatch
<1>8. InBatch(l)' \subseteq Registered(l)
  BY <1>2, <1>7 DEF Registered
<1>9. \A fd \in Fds : interest'[l][fd] = "off" <=> fd \in InBatch(l)'
  BY <1>4, <1>6, <1>7
<1>10. /\ loop_pc'[l] = "events" /\ loop_pc[l] = "wait"
       /\ conns_' = conns_ /\ timers' = timers /\ expired_' = expired_
  BY DEF EpollWait
<1> QED BY <1>5, <1>8, <1>9, <1>10

LEMMA CloseConnRow ==
  ASSUME TypeOK, NEW l \in Loops, LoopInv(l), NEW fd \in Fds, CloseConn(l, fd),
         events_'[l] = [events_[l] EXCEPT ![fd] = "none"],
         expired_'[l] = expired_[l] \ {fd},
         loop_pc'[l] = loop_pc[l]
  PROVE  LoopInv(l)'
<1> USE DEF TypeOK, LoopTypeOK, LoopInv, TablesAgreeAt, NoSilentConnAt
<1>1. /\ \A g \in Fds : interest'[l][g] = IF g = fd THEN "none" ELSE interest[l][g]
      /\ conns_'[l] = conns_[l] \ {fd}
      /\ timers'[l] = timers[l] \ {fd}
  BY DEF CloseConn
<1>2. \A g \in Fds : events_'[l][g] = IF g = fd THEN "none" ELSE events_[l][g]
  OBVIOUS
<1>3. Registered(l)' = Registered(l) \ {fd}
  BY <1>1 DEF Registered
<1>4. InBatch(l)' = InBatch(l) \ {fd}
  BY <1>2 DEF InBatch
<1> QED BY <1>1, <1>3, <1>4

LEMMA ConnEventRow ==
  ASSUME TypeOK, NEW l \in Loops, LoopInv(l), NEW fd \in Fds, ConnEvent(l, fd)
  PROVE  LoopInv(l)'
<1> USE DEF TypeOK, LoopTypeOK
<1>1. /\ events_'[l] = [events_[l] EXCEPT ![fd] = "none"]
      /\ expired_' = expired_ /\ loop_pc' = loop_pc /\ loop_pc[l] = "events"
      /\ fd \in InBatch(l)
  BY DEF ConnEvent, InBatch
<1>2. expired_[l] = {}
  BY <1>1 DEF LoopInv, TablesAgreeAt
<1>3. CASE CloseConn(l, fd)
  BY <1>1, <1>2, <1>3, CloseConnRow
<1>4. ASSUME NEW what \in {"in", "out"}, ModConnEvent(l, fd, what) PROVE LoopInv(l)'
  <2> USE DEF LoopInv, TablesAgreeAt, NoSilentConnAt
  <2>1. /\ \A g \in Fds : interest'[l][g] = IF g = fd THEN what ELSE interest[l][g]
        /\ conns_'[l] = conns_[l] \cup {fd}
        /\ timers'[l] = timers[l] \cup {fd}
    BY <1>4 DEF ModConnEvent
  <2>2. \A g \in Fds : events_'[l][g] = IF g = fd THEN "none" ELSE events_[l][g]
    BY <1>1
  <2>3. fd \in Registered(l)
    BY <1>1
  <2>4. Registered(l)' = Registered(l)
    BY <2>1, <2>3 DEF Registered
  <2>5. InBatch(l)' = InBatch(l) \ {fd}
    BY <2>2 DEF InBatch
  <2> QED BY <1>1, <1>2, <2>1, <2>3, <2>4, <2>5
<1> QED BY <1>3, <1>4 DEF ConnEvent

LEMMA CmdAddFdRow ==
  ASSUME TypeOK, NEW l \in Loops, LoopInv(l), new_cli_socks_[l] \cap Registered(l) = {},
         CmdAddFd(l)
  PROVE  LoopInv(l)' /\ Registered(l)' = Registered(l) \cup new_cli_socks_[l]
<1> USE DEF TypeOK, LoopTypeOK, LoopInv, TablesAgreeAt, NoSilentConnAt
<1>1. /\ \A fd \in Fds :
           interest'[l][fd] = IF fd \in new_cli_socks_[l] THEN "in" ELSE interest[l][fd]
      /\ timers'[l] = timers[l] \cup new_cli_socks_[l]
      /\ conns_' = conns_ /\ events_' = events_ /\ expired_' = expired_
      /\ loop_pc' = loop_pc /\ loop_pc[l] = "cmds"
  BY DEF CmdAddFd
<1>2. Registered(l)' = Registered(l) \cup new_cli_socks_[l]
  BY <1>1 DEF Registered
<1>3. InBatch(l)' = InBatch(l)
  BY <1>1 DEF InBatch
<1>4. \A fd \in new_cli_socks_[l] : fd \notin InBatch(l)
  OBVIOUS
<1>5. NoSilentConnAt(l)'
  <2>1. ASSUME NEW fd \in Fds PROVE interest'[l][fd] = "off" <=> fd \in InBatch(l)'
    <3>1. CASE fd \in new_cli_socks_[l]
      BY <1>1, <1>3, <1>4, <3>1
    <3>2. CASE fd \notin new_cli_socks_[l]
      BY <1>1, <1>3, <3>2
    <3> QED BY <3>1, <3>2
  <2> QED BY <2>1
<1>6. expired_[l] = {}
  BY <1>1
<1>7. timers[l] = Registered(l)
  BY <1>6
<1>8. TablesAgreeAt(l)'
  BY <1>1, <1>2, <1>3, <1>6, <1>7
<1> QED BY <1>2, <1>5, <1>8

LEMMA HandleExpiredRow ==
  ASSUME TypeOK, NEW l \in Loops, LoopInv(l), HandleExpiredTimers(l)
  PROVE  LoopInv(l)'
<1> USE DEF TypeOK, LoopTypeOK, LoopInv, TablesAgreeAt, NoSilentConnAt
<1>1. PICK due \in SUBSET timers[l] :
        expired_'[l] = due /\ timers'[l] = timers[l] \ due
  BY DEF HandleExpiredTimers
<1>2. /\ interest' = interest /\ events_' = events_ /\ conns_' = conns_
      /\ InBatch(l) = {} /\ loop_pc[l] = "events" /\ loop_pc'[l] = "expire"
  BY DEF HandleExpiredTimers
<1>3. Registered(l)' = Registered(l) /\ InBatch(l)' = InBatch(l)
  BY <1>2 DEF Registered, InBatch
<1> QED BY <1>1, <1>2, <1>3

LEMMA CloseExpiredRow ==
  ASSUME TypeOK, NEW l \in Loops, LoopInv(l), NEW fd \in Fds, CloseExpired(l, fd)
  PROVE  LoopInv(l)'
<1> USE DEF TypeOK, LoopTypeOK
<1>1. /\ expired_'[l] = expired_[l] \ {fd} /\ events_' = events_
      /\ loop_pc' = loop_pc /\ loop_pc[l] = "expire" /\ CloseConn(l, fd)
  BY DEF CloseExpired
<1>2. events_'[l] = [events_[l] EXCEPT ![fd] = "none"]
  BY <1>1 DEF LoopInv, TablesAgreeAt, InBatch
<1> QED BY <1>1, <1>2, CloseConnRow

-----------------------------------------------------------------------------
(* Each step of the server is a step of FdLifecycle or leaves its state alone. *)

SameLifecycle == UNCHANGED <<open_fds, Accepted, new_cli_socks_, Serving>>

LEMMA ServingFrame ==
  ASSUME \A l \in Loops : Registered(l)' = Registered(l)
  PROVE  Serving' = Serving
BY DEF Serving

LEMMA SameInterest ==
  ASSUME UNCHANGED <<interest, open_fds, new_cli_socks_, main_pc, cli_sock>>
  PROVE  SameLifecycle
BY DEF SameLifecycle, Serving, Registered, Accepted

LEMMA CloseConnLifecycle ==
  ASSUME TypeOK, NEW l \in Loops, NEW fd \in Registered(l), CloseConn(l, fd),
         UNCHANGED <<new_cli_socks_, main_pc, cli_sock>>
  PROVE  Lifecycle!Close(l, fd)
<1> USE DEF TypeOK, LoopTypeOK
<1>1. \A k \in Loops : Registered(k)' = IF k = l THEN Registered(k) \ {fd} ELSE Registered(k)
  <2> SUFFICES ASSUME NEW k \in Loops
               PROVE  Registered(k)' = IF k = l THEN Registered(k) \ {fd} ELSE Registered(k)
    OBVIOUS
  <2>1. fd \in Fds
    BY DEF Registered
  <2>2. \A g \in Fds :
          interest'[k][g] = IF k = l /\ g = fd THEN "none" ELSE interest[k][g]
    BY <2>1 DEF CloseConn
  <2> QED BY <2>2 DEF Registered
<1>2. Serving' = [Serving EXCEPT ![l] = @ \ {fd}]
  BY <1>1 DEF Serving
<1>3. fd \in Serving[l]
  BY DEF Serving
<1>4. open_fds' = open_fds \ {fd} /\ Accepted' = Accepted
  BY DEF CloseConn, Accepted
<1> QED BY <1>2, <1>3, <1>4 DEF Lifecycle!Close

LEMMA EpollWaitLifecycle ==
  ASSUME TypeOK, NEW l \in Loops, NEW cmd \in BOOLEAN, EpollWait(l, cmd),
         UNCHANGED <<main_pc, cli_sock>>
  PROVE  SameLifecycle
<1> USE DEF TypeOK, LoopTypeOK
<1>1. PICK b \in Batch(l) :
        interest' = [interest EXCEPT ![l] =
           [fd \in Fds |-> IF b[fd] # "none" THEN "off" ELSE @[fd]]]
  BY DEF EpollWait
<1>2. \A fd \in Fds : b[fd] # "none" => interest[l][fd] \in {"in", "out"}
  BY DEF Batch
<1>3. ASSUME NEW k \in Loops PROVE Registered(k)' = Registered(k)
  <2>1. CASE k = l
    <3>1. \A fd \in Fds :
            interest'[l][fd] = IF b[fd] # "none" THEN "off" ELSE interest[l][fd]
      BY <1>1
    <3> QED BY <1>2, <2>1, <3>1 DEF Registered
  <2>2. CASE k # l
    BY <1>1, <2>2 DEF Registered
  <2> QED BY <2>1, <2>2
<1>4. Serving' = Serving
  BY <1>3, ServingFrame
<1> QED BY <1>4 DEF SameLifecycle, EpollWait, Accepted

LEMMA ModConnLifecycle ==
  ASSUME TypeOK, NEW l \in Loops, NEW fd \in Registered(l), NEW what \in {"in", "out"},
         ModConnEvent(l, fd, what), UNCHANGED <<new_cli_socks_, main_pc, cli_sock>>
  PROVE  SameLifecycle
<1> USE DEF TypeOK, LoopTypeOK
<1>1. fd \in Fds
  BY DEF Registered
<1>2. ASSUME NEW k \in Loops PROVE Registered(k)' = Registered(k)
  <2>1. \A g \in Fds :
          interest'[k][g] = IF k = l /\ g = fd THEN what ELSE interest[k][g]
    BY <1>1 DEF ModConnEvent
  <2> QED BY <2>1 DEF Registered
<1>3. Serving' = Serving
  BY <1>2, ServingFrame
<1> QED BY <1>3 DEF SameLifecycle, ModConnEvent, Accepted

LEMMA CmdAddFdLifecycle ==
  ASSUME TypeOK, NEW l \in Loops, CmdAddFd(l), UNCHANGED <<main_pc, cli_sock>>
  PROVE  Lifecycle!Serve(l) \/ SameLifecycle
<1> USE DEF TypeOK, LoopTypeOK
<1>1. ASSUME NEW k \in Loops
      PROVE  Registered(k)' =
               IF k = l THEN Registered(k) \cup new_cli_socks_[l] ELSE Registered(k)
  <2>1. \A fd \in Fds : interest'[k][fd] =
          IF k = l /\ fd \in new_cli_socks_[l] THEN "in" ELSE interest[k][fd]
    BY DEF CmdAddFd
  <2> QED BY <2>1 DEF Registered
<1>2. /\ Accepted' = Accepted /\ open_fds' = open_fds
      /\ new_cli_socks_' = [new_cli_socks_ EXCEPT ![l] = {}]
  BY DEF CmdAddFd, Accepted
<1>3. CASE new_cli_socks_[l] = {}
  <2>1. Serving' = Serving
    BY <1>1, <1>3, ServingFrame
  <2>2. new_cli_socks_' = new_cli_socks_
    BY <1>2, <1>3
  <2> QED BY <1>2, <2>1, <2>2 DEF SameLifecycle
<1>4. CASE new_cli_socks_[l] # {}
  <2>1. Serving' = [Serving EXCEPT ![l] = @ \cup new_cli_socks_[l]]
    BY <1>1 DEF Serving
  <2> QED BY <1>2, <1>4, <2>1 DEF Lifecycle!Serve
<1> QED BY <1>3, <1>4

LEMMA LoopLifecycle ==
  ASSUME TypeOK, NEW l \in Loops, LoopInv(l), LoopStep(l), UNCHANGED <<mainVars, envVars>>
  PROVE  [Lifecycle!Next]_(Lifecycle!vars)
<1>1. UNCHANGED <<main_pc, cli_sock>>
  BY DEF mainVars
<1>2. SameLifecycle => [Lifecycle!Next]_(Lifecycle!vars)
  BY DEF SameLifecycle, Lifecycle!vars
<1>3. ASSUME NEW cmd \in BOOLEAN, EpollWait(l, cmd) PROVE SameLifecycle
  BY <1>1, <1>3, EpollWaitLifecycle
<1>4. ASSUME NEW fd \in Fds, ConnEvent(l, fd)
      PROVE  SameLifecycle \/ Lifecycle!Close(l, fd)
  <2>1. fd \in Registered(l)
    BY <1>4 DEF LoopInv, TablesAgreeAt, ConnEvent, InBatch
  <2>2. new_cli_socks_' = new_cli_socks_
    BY <1>4 DEF ConnEvent
  <2>3. CASE CloseConn(l, fd)
    BY <1>1, <2>1, <2>2, <2>3, CloseConnLifecycle
  <2>4. ASSUME NEW what \in {"in", "out"}, ModConnEvent(l, fd, what) PROVE SameLifecycle
    BY <1>1, <2>1, <2>2, <2>4, ModConnLifecycle
  <2> QED BY <1>4, <2>3, <2>4 DEF ConnEvent
<1>5. ASSUME NEW fd \in Fds, CloseExpired(l, fd) PROVE Lifecycle!Close(l, fd)
  <2>1. fd \in Registered(l)
    BY <1>5 DEF LoopInv, TablesAgreeAt, CloseExpired
  <2>2. new_cli_socks_' = new_cli_socks_ /\ CloseConn(l, fd)
    BY <1>5 DEF CloseExpired
  <2> QED BY <1>1, <2>1, <2>2, CloseConnLifecycle
<1>6. CASE CmdAddFd(l)
  <2>1. Lifecycle!Serve(l) \/ SameLifecycle
    BY <1>1, <1>6, CmdAddFdLifecycle
  <2> QED BY <1>2, <2>1 DEF Lifecycle!Next
<1>7. ASSUME StartLoop(l) \/ CmdEvent(l) \/ CmdReadAgain(l) \/ CmdRead(l) \/ CmdSkip(l)
              \/ CmdsDone(l) \/ CmdClose(l) \/ HandleExpiredTimers(l) \/ LoopAgain(l)
      PROVE  SameLifecycle
  <2>1. UNCHANGED <<interest, open_fds, new_cli_socks_>>
    BY <1>7 DEF StartLoop, CmdEvent, CmdReadAgain, CmdRead, CmdSkip, CmdsDone, CmdClose,
                HandleExpiredTimers, LoopAgain
  <2> QED BY <1>1, <2>1, SameInterest
<1>8. \A fd \in Fds : Lifecycle!Close(l, fd) => Lifecycle!Next
  BY DEF Lifecycle!Next
<1> QED BY <1>2, <1>3, <1>4, <1>5, <1>6, <1>7, <1>8 DEF LoopStep, LoopWork

LEMMA MainLifecycle ==
  ASSUME TypeOK, OneOwner, MainStep
  PROVE  [Lifecycle!Next]_(Lifecycle!vars)
<1> USE DEF TypeOK
<1>1. ASSUME NEW fd \in Fds, Accept(fd) PROVE Lifecycle!Accept(fd)
  <2>1. Accepted = {} /\ Accepted' = {fd}
    BY <1>1 DEF Accept, Accepted
  <2>2. Serving' = Serving
    BY <1>1 DEF Accept, Serving, Registered
  <2>3. fd \notin open_fds
    BY <1>1 DEF Accept
  <2>4. ~Lifecycle!InUse(fd)
    BY <2>1, <2>3 DEF Lifecycle!InUse, OneOwner, Held, Serving
  <2> QED BY <1>1, <2>1, <2>2, <2>3, <2>4 DEF Accept, Lifecycle!Accept
<1>2. CASE PushCliSock
  <2>1. Accepted = {cli_sock} /\ Accepted' = {}
    BY <1>2 DEF PushCliSock, Accepted
  <2>2. Serving' = Serving
    BY <1>2 DEF PushCliSock, Serving, Registered
  <2>3. Lifecycle!HandOver(pool_idx_)
    BY <1>2, <2>1, <2>2 DEF PushCliSock, Lifecycle!HandOver
  <2> QED BY <2>3 DEF Lifecycle!Next
<1>3. ASSUME EpollWaitMain \/ DealNewConn \/ ExitEvent \/ EventsDone \/ AcceptFails
              \/ SendAddFd \/ SendClose \/ StartLoopReturns \/ JoinPool
      PROVE  UNCHANGED Lifecycle!vars
  <2>1. UNCHANGED <<interest, open_fds, new_cli_socks_>>
    BY <1>3 DEF EpollWaitMain, DealNewConn, ExitEvent, EventsDone, AcceptFails, SendAddFd,
                SendClose, CmdSend, StartLoopReturns, JoinPool, loopVars
  <2>2. Accepted = {} /\ Accepted' = {}
    BY <1>3 DEF EpollWaitMain, DealNewConn, ExitEvent, EventsDone, AcceptFails, SendAddFd,
                AfterAddFd, SendClose, AfterClose, StartLoopReturns, JoinPool, Accepted
  <2>3. Serving' = Serving
    BY <2>1 DEF Serving, Registered
  <2> QED BY <2>1, <2>2, <2>3 DEF Lifecycle!vars
<1> QED BY <1>1, <1>2, <1>3 DEF MainStep, Lifecycle!Next

LEMMA EnvLifecycle ==
  ASSUME ClientConnect \/ HandleSignal \/ Interrupted \/ UNCHANGED vars
  PROVE  UNCHANGED Lifecycle!vars
<1>1. UNCHANGED <<interest, open_fds, new_cli_socks_>>
  BY DEF ClientConnect, HandleSignal, Interrupted, AddFdInterrupted, CloseInterrupted,
         WriteInterrupted, vars, loopVars
<1>2. Accepted' = Accepted
  BY DEF ClientConnect, HandleSignal, Interrupted, AddFdInterrupted, CloseInterrupted,
         AfterAddFd, AfterClose, vars, mainVars, Accepted
<1>3. Serving' = Serving
  BY <1>1 DEF Serving, Registered
<1> QED BY <1>1, <1>2, <1>3 DEF Lifecycle!vars

-----------------------------------------------------------------------------
(* Ownership is kept by every step of FdLifecycle, hence by every step of the
   server. *)

LEMMA OwnerStep ==
  ASSUME TypeOK, OneOwner, [Lifecycle!Next]_(Lifecycle!vars)
  PROVE  OneOwner'
<1>1. \A l \in Loops : Held(l) = new_cli_socks_[l] \cup Serving[l]
  BY DEF Held, Serving
<1>2. \A l \in Loops : Held(l)' = new_cli_socks_'[l] \cup Serving'[l]
  BY DEF Held, Serving
<1>3. DOMAIN Serving = Loops /\ DOMAIN new_cli_socks_ = Loops
  BY DEF Serving, TypeOK, LoopTypeOK
<1>4. \A l \in Loops : Registered(l) = Serving[l] /\ Registered(l)' = Serving'[l]
  BY DEF Serving
<1>0. \A fd : fd \in open_fds <=> fd \in Accepted \/ \E l \in Loops : fd \in Held(l)
  BY DEF OneOwner
<1>5. ASSUME NEW fd \in Fds, Lifecycle!Accept(fd) PROVE OneOwner'
  <2>1. /\ Accepted = {} /\ Accepted' = {fd} /\ open_fds' = open_fds \cup {fd}
        /\ \A l \in Loops : fd \notin Held(l)
    BY <1>1, <1>5 DEF Lifecycle!Accept, Lifecycle!InUse
  <2>2. \A l \in Loops : Held(l)' = Held(l) /\ Registered(l)' = Registered(l)
                         /\ new_cli_socks_'[l] = new_cli_socks_[l]
    BY <1>1, <1>2, <1>4, <1>5 DEF Lifecycle!Accept
  <2> QED BY <2>1, <2>2 DEF OneOwner
<1>6. ASSUME NEW k \in Loops, Lifecycle!HandOver(k) PROVE OneOwner'
  <2>1. /\ Accepted' = {} /\ open_fds' = open_fds
        /\ \A l \in Loops : new_cli_socks_'[l] =
              IF l = k THEN new_cli_socks_[l] \cup Accepted ELSE new_cli_socks_[l]
        /\ \A l \in Loops : Registered(l)' = Registered(l)
    BY <1>3, <1>4, <1>6 DEF Lifecycle!HandOver
  <2>2. \A l \in Loops : Held(l)' = IF l = k THEN Held(l) \cup Accepted ELSE Held(l)
    <3> SUFFICES ASSUME NEW l \in Loops
                 PROVE  Held(l)' = IF l = k THEN Held(l) \cup Accepted ELSE Held(l)
      OBVIOUS
    <3>1. CASE l = k
      BY <2>1, <1>2, <1>4, <3>1 DEF Held
    <3>2. CASE l # k
      BY <2>1, <1>2, <1>4, <3>2 DEF Held
    <3> QED BY <3>1, <3>2
  <2>3. \A l \in Loops : Accepted \cap Held(l) = {}
    BY DEF OneOwner
  <2>4. ASSUME NEW l \in Loops PROVE new_cli_socks_'[l] \cap Registered(l)' = {}
    <3>1. new_cli_socks_[l] \cap Registered(l) = {} /\ Accepted \cap Registered(l) = {}
      BY <2>3 DEF OneOwner, Held
    <3> QED BY <2>1, <3>1
  <2>5. ASSUME NEW m \in Loops, NEW l \in Loops, m # l PROVE Held(m)' \cap Held(l)' = {}
    <3>1. Held(m) \cap Held(l) = {} /\ Accepted \cap Held(m) = {} /\ Accepted \cap Held(l) = {}
      BY <2>3, <2>5 DEF OneOwner
    <3> QED BY <2>2, <2>5, <3>1
  <2>6. open_fds' = UNION {Held(l)' : l \in Loops}
    <3>1. \A fd : fd \in open_fds' <=> \E l \in Loops : fd \in Held(l)'
      BY <2>1, <2>2, <1>0
    <3> QED BY <3>1
  <2> QED BY <2>1, <2>4, <2>5, <2>6 DEF OneOwner
<1>7. ASSUME NEW k \in Loops, Lifecycle!Serve(k) PROVE OneOwner'
  <2>1. /\ Accepted' = Accepted /\ open_fds' = open_fds
        /\ \A l \in Loops : new_cli_socks_'[l] = IF l = k THEN {} ELSE new_cli_socks_[l]
        /\ \A l \in Loops : Registered(l)' =
              IF l = k THEN Registered(l) \cup new_cli_socks_[l] ELSE Registered(l)
    BY <1>3, <1>4, <1>7 DEF Lifecycle!Serve
  <2>2. \A l \in Loops : Held(l)' = Held(l)
    BY <2>1, <1>2, <1>4 DEF Held
  <2>3. \A l \in Loops : new_cli_socks_'[l] \cap Registered(l)' = {}
    BY <2>1 DEF OneOwner
  <2> QED BY <2>1, <2>2, <2>3 DEF OneOwner
<1>8. ASSUME NEW k \in Loops, NEW fd \in Fds, Lifecycle!Close(k, fd) PROVE OneOwner'
  <2>1. /\ Accepted' = Accepted /\ open_fds' = open_fds \ {fd}
        /\ new_cli_socks_' = new_cli_socks_
        /\ fd \in Registered(k)
        /\ \A l \in Loops : Registered(l)' =
              IF l = k THEN Registered(l) \ {fd} ELSE Registered(l)
    BY <1>3, <1>4, <1>8 DEF Lifecycle!Close
  <2>2. fd \notin new_cli_socks_[k]
    BY <2>1 DEF OneOwner
  <2>3. \A l \in Loops : Held(l)' = IF l = k THEN Held(l) \ {fd} ELSE Held(l)
    BY <2>1, <2>2, <1>2, <1>4 DEF Held
  <2>4. fd \in Held(k)
    BY <2>1 DEF Held
  <2>5. fd \notin Accepted /\ \A l \in Loops : l # k => fd \notin Held(l)
    BY <2>4 DEF OneOwner
  <2>6. open_fds' = Accepted' \cup UNION {Held(l)' : l \in Loops}
    <3>1. \A g : g \in open_fds' <=> g \in Accepted' \/ \E l \in Loops : g \in Held(l)'
      BY <2>1, <2>3, <2>5, <1>0
    <3> QED BY <3>1
  <2>7. ASSUME NEW m \in Loops, NEW l \in Loops, m # l PROVE Held(m)' \cap Held(l)' = {}
    <3>1. Held(m) \cap Held(l) = {}
      BY <2>7 DEF OneOwner
    <3> QED BY <2>3, <3>1
  <2>8. \A l \in Loops : Accepted' \cap Held(l)' = {}
    BY <2>1, <2>3 DEF OneOwner
  <2>9. \A l \in Loops : new_cli_socks_'[l] \cap Registered(l)' = {}
    BY <2>1 DEF OneOwner
  <2> QED BY <2>6, <2>7, <2>8, <2>9 DEF OneOwner
<1>9. CASE UNCHANGED Lifecycle!vars
  <2>1. \A l \in Loops : Held(l)' = Held(l) /\ Registered(l)' = Registered(l)
    BY <1>1, <1>2, <1>4, <1>9 DEF Lifecycle!vars
  <2> QED BY <1>9, <2>1 DEF OneOwner, Lifecycle!vars
<1> QED BY <1>5, <1>6, <1>7, <1>8, <1>9 DEF Lifecycle!Next

(* The inductive invariant: who owns what, and what each loop's tables hold.
   OneOwner needs TablesAgree, since a loop closes what its batch and its
   timers name; TablesAgree needs OneOwner, since a socket taken from the
   queue must be new to the tables. *)
IInv == TypeOK /\ OneOwner /\ \A l \in Loops : LoopInv(l)

LEMMA LoopInvStep ==
  ASSUME IInv, NEW l \in Loops, LoopStep(l)
  PROVE  LoopInv(l)'
<1> USE DEF IInv
<1>1. ASSUME NEW cmd \in BOOLEAN, EpollWait(l, cmd) PROVE LoopInv(l)'
  BY <1>1, EpollWaitRow
<1>2. ASSUME NEW fd \in Fds, ConnEvent(l, fd) PROVE LoopInv(l)'
  BY <1>2, ConnEventRow
<1>3. CASE CmdAddFd(l)
  <2>1. new_cli_socks_[l] \cap Registered(l) = {}
    BY DEF OneOwner
  <2> QED BY <1>3, <2>1, CmdAddFdRow
<1>4. CASE HandleExpiredTimers(l)
  BY <1>4, HandleExpiredRow
<1>5. ASSUME NEW fd \in Fds, CloseExpired(l, fd) PROVE LoopInv(l)'
  BY <1>5, CloseExpiredRow
<1>6. ASSUME StartLoop(l) \/ CmdEvent(l) \/ CmdReadAgain(l) \/ CmdRead(l) \/ CmdSkip(l)
              \/ CmdsDone(l) \/ CmdClose(l) \/ LoopAgain(l)
      PROVE  LoopInv(l)'
  <2>1. UNCHANGED <<interest, events_, conns_, timers, expired_>>
    BY <1>6 DEF StartLoop, CmdEvent, CmdReadAgain, CmdRead, CmdSkip, CmdsDone, CmdClose, LoopAgain
  <2>2. Registered(l)' = Registered(l) /\ InBatch(l)' = InBatch(l)
    BY <2>1 DEF Registered, InBatch
  <2>3. /\ loop_pc'[l] \in {"wait", "expire", "queued"} => InBatch(l) = {}
        /\ loop_pc'[l] # "expire" => expired_[l] = {}
    <3>1. StartLoop(l) \/ LoopAgain(l) => InBatch(l) = {} /\ expired_[l] = {}
      BY DEF StartLoop, LoopAgain, LoopInv, TablesAgreeAt
    <3>2. CmdEvent(l) \/ CmdReadAgain(l) \/ CmdRead(l) \/ CmdsDone(l) \/ CmdClose(l)
            => expired_[l] = {} /\ loop_pc'[l] \in {"recv", "cmds", "events", "done"}
      BY DEF CmdEvent, CmdReadAgain, CmdRead, CmdsDone, CmdClose, LoopInv, TablesAgreeAt,
             TypeOK, LoopTypeOK
    <3>3. CmdSkip(l) => loop_pc' = loop_pc
      BY DEF CmdSkip
    <3> QED BY <1>6, <3>1, <3>2, <3>3 DEF LoopInv, TablesAgreeAt
  <2> QED BY <2>1, <2>2, <2>3 DEF LoopInv, TablesAgreeAt, NoSilentConnAt
<1> QED BY <1>1, <1>2, <1>3, <1>4, <1>5, <1>6 DEF LoopStep, LoopWork

LEMMA LifecycleStep == IInv /\ [Next]_vars => [Lifecycle!Next]_(Lifecycle!vars)
BY LoopLifecycle, MainLifecycle, EnvLifecycle DEF IInv, Next, Interrupted

LEMMA IInvStep == IInv /\ [Next]_vars => IInv'
<1> SUFFICES ASSUME IInv, [Next]_vars PROVE IInv'
  OBVIOUS
<1>1. TypeOK'
  BY TypeStep DEF IInv
<1>2. OneOwner'
  BY LifecycleStep, OwnerStep DEF IInv
<1>3. ASSUME NEW l \in Loops, LoopStep(l), NEW k \in Loops PROVE LoopInv(k)'
  <2>1. CASE k = l
    BY <1>3, <2>1, LoopInvStep
  <2>2. CASE k # l
    BY <1>3, <2>2, OtherRows, RowFrame DEF IInv
  <2> QED BY <2>1, <2>2
<1>4. ASSUME MainStep \/ ClientConnect \/ HandleSignal \/ Interrupted \/ UNCHANGED vars,
             NEW k \in Loops
      PROVE  LoopInv(k)'
  BY <1>4, MainRows, RowFrame DEF IInv
<1>5. \A k \in Loops : LoopInv(k)'
  BY <1>3, <1>4 DEF Next, Interrupted
<1> QED BY <1>1, <1>2, <1>5 DEF IInv

LEMMA IInvInit == Init => IInv
<1> SUFFICES ASSUME Init PROVE IInv
  OBVIOUS
<1>1. LoopInit /\ main_pc = "wait"
  BY DEF Init
<1>2. \A l \in Loops : Registered(l) = {} /\ InBatch(l) = {}
  BY <1>1 DEF LoopInit, Registered, InBatch
<1>3. Accepted = {} /\ \A l \in Loops : Held(l) = {}
  BY <1>1, <1>2 DEF LoopInit, Accepted, Held
<1>4. OneOwner
  BY <1>1, <1>2, <1>3 DEF OneOwner, LoopInit
<1>5. \A l \in Loops : LoopInv(l)
  BY <1>1, <1>2 DEF LoopInv, TablesAgreeAt, NoSilentConnAt, LoopInit
<1> QED BY <1>4, <1>5, TypeInit DEF IInv

LEMMA IInvAlways == Spec => []IInv
BY IInvInit, IInvStep, PTL DEF Spec

(* Every open descriptor is in exactly one place, and only open ones are
   anywhere: no leak, no second owner, whatever order accepts and closes
   come in. *)
THEOREM OwnershipCorrect == Spec => []OneOwner
<1>1. IInv => OneOwner
  BY DEF IInv
<1> QED BY <1>1, IInvAlways, PTL

(* The tables of a loop speak of the sockets it serves and of no others. *)
THEOREM TablesCorrect == Spec => []TablesAgree
<1>1. IInv => TablesAgree
  BY DEF IInv, LoopInv, TablesAgree
<1> QED BY <1>1, IInvAlways, PTL

(* A socket silenced by EPOLLONESHOT is about to be handled: none is left
   unarmed. *)
THEOREM SilentConnsAreHandled == Spec => []NoSilentConn
<1>1. IInv => NoSilentConn
  BY DEF IInv, LoopInv, NoSilentConn
<1> QED BY <1>1, IInvAlways, PTL

(* The acceptor and the loops implement FdLifecycle: a descriptor is served by
   the loop it was handed to and closed by that loop only. *)
THEOREM LifecycleRefinement == Spec => LifecycleSpec
<1>1. Init => Lifecycle!Init
  <2> SUFFICES ASSUME Init PROVE Lifecycle!Init
    OBVIOUS
  <2>1. LoopInit /\ main_pc = "wait"
    BY DEF Init
  <2>2. Serving = [l \in Loops |-> {}]
    BY <2>1 DEF Serving, Registered, LoopInit
  <2> QED BY <2>1, <2>2 DEF Lifecycle!Init, Accepted, LoopInit
<1> QED BY <1>1, IInvAlways, LifecycleStep, PTL DEF Spec, LifecycleSpec, Lifecycle!Spec

-----------------------------------------------------------------------------
(* The hand-over protocol between the acceptor and a loop. *)

LEMMA HasAddFdAppend ==
  ASSUME NEW s \in Seq(Cmds), NEW cmd \in Cmds
  PROVE  /\ HasAddFd(s) => HasAddFd(Append(s, cmd))
         /\ cmd = "ADD_FD" => HasAddFd(Append(s, cmd))
BY DEF HasAddFd

LEMMA HasAddFdSplit ==
  ASSUME NEW s \in Seq(Cmds), NEW n \in 1..Len(s), HasAddFd(s)
  PROVE  HasAddFd(SubSeq(s, 1, n)) \/ HasAddFd(SubSeq(s, n + 1, Len(s)))
<1>1. PICK i \in 1..Len(s) : s[i] = "ADD_FD"
  BY DEF HasAddFd
<1>2. CASE i <= n
  <2>1. Len(SubSeq(s, 1, n)) = n /\ SubSeq(s, 1, n)[i] = s[i]
    BY <1>2
  <2> QED BY <1>1, <1>2, <2>1 DEF HasAddFd
<1>3. CASE i > n
  <2>1. /\ Len(SubSeq(s, n + 1, Len(s))) = Len(s) - n
        /\ i - n \in 1..(Len(s) - n)
        /\ SubSeq(s, n + 1, Len(s))[i - n] = s[i]
    BY <1>3
  <2> QED BY <1>1, <2>1 DEF HasAddFd
<1> QED BY <1>2, <1>3

(* The rows of loop l that the protocol uses. *)
CmdRow(l) == <<loop_pc[l], new_cli_socks_[l], cmd_pipe[l], cmd_ready[l], cmd_event[l],
               cmd_recv_add_fd[l], cmd_r_buf_[l]>>

(* A loop that is not between two reads has used its buffer up. *)
BufferUsedUp(l) == loop_pc[l] \notin {"cmds", "done"} => cmd_r_buf_[l] = <<>>

(* A batch is dispatched to its end before the next. *)
CmdEventUsedUp(l) == loop_pc[l] \in {"queued", "wait", "expire"} => ~cmd_event[l]

(* Until the server stops, the pipe holds nothing but CMD_ADD_FD: when it is
   full, a write given up on after a signal is one it can do without. *)
OnlyAddFdAt(l) == ~Stopping => \A i \in 1..Len(cmd_pipe[l]) : cmd_pipe[l][i] = "ADD_FD"

HandoverInv(l) ==
    /\ NoLostHandoffAt(l)
    /\ NoLostEdgeAt(l)
    /\ BufferUsedUp(l)
    /\ CmdEventUsedUp(l)
    /\ OnlyAddFdAt(l)

LEMMA CmdRowFrame ==
  ASSUME NEW l \in Loops, HandoverInv(l), UNCHANGED CmdRow(l),
         main_pc = "send" /\ pool_idx_ = l => main_pc' = "send" /\ pool_idx_' = l,
         Stopping => Stopping'
  PROVE  HandoverInv(l)'
BY DEF HandoverInv, NoLostHandoffAt, NoLostEdgeAt, BufferUsedUp, CmdEventUsedUp, OnlyAddFdAt,
       CmdRow

LEMMA OtherCmdRows ==
  ASSUME TypeOK, NEW l \in Loops, LoopStep(l), NEW k \in Loops, k # l
  PROVE  UNCHANGED CmdRow(k)
<1> USE DEF TypeOK, LoopTypeOK, CmdRow
<1>1. ASSUME NEW cmd \in BOOLEAN, EpollWait(l, cmd) PROVE UNCHANGED CmdRow(k)
  BY <1>1 DEF EpollWait
<1>2. ASSUME NEW fd \in Fds, ConnEvent(l, fd) PROVE UNCHANGED CmdRow(k)
  BY <1>2 DEF ConnEvent
<1>3. ASSUME NEW fd \in Fds, CloseExpired(l, fd) PROVE UNCHANGED CmdRow(k)
  BY <1>3 DEF CloseExpired
<1>4. CASE StartLoop(l) \/ CmdEvent(l) \/ CmdReadAgain(l) \/ CmdSkip(l) \/ CmdsDone(l)
           \/ CmdClose(l) \/ HandleExpiredTimers(l) \/ LoopAgain(l)
  BY <1>4 DEF StartLoop, CmdEvent, CmdReadAgain, CmdSkip, CmdsDone, CmdClose,
              HandleExpiredTimers, LoopAgain
<1>5. CASE CmdRead(l)
  BY <1>5 DEF CmdRead
<1>6. CASE CmdAddFd(l)
  BY <1>6 DEF CmdAddFd
<1> QED BY <1>1, <1>2, <1>3, <1>4, <1>5, <1>6 DEF LoopStep, LoopWork

LEMMA LoopHandover ==
  ASSUME TypeOK, NEW l \in Loops, HandoverInv(l), LoopStep(l), UNCHANGED mainVars
  PROVE  HandoverInv(l)'
<1> USE DEF HandoverInv
<1>0. main_pc' = main_pc /\ pool_idx_' = pool_idx_ /\ Stopping' = Stopping
  BY DEF mainVars, Stopping
<1>1. CASE CmdRead(l)
  <2>1. cmd_pipe[l] \in Seq(Cmds) /\ ReadLen(l) \in 1..Len(cmd_pipe[l])
    BY <1>1 DEF CmdRead, ReadLen, TypeOK, LoopTypeOK
  <2>2. /\ cmd_pipe'[l] = SubSeq(cmd_pipe[l], ReadLen(l) + 1, Len(cmd_pipe[l]))
        /\ cmd_r_buf_'[l] = SubSeq(cmd_pipe[l], 1, ReadLen(l))
        /\ cmd_recv_add_fd'[l] = FALSE /\ loop_pc'[l] = "cmds"
        /\ new_cli_socks_' = new_cli_socks_ /\ loop_pc[l] = "recv"
    BY <1>1 DEF CmdRead, TypeOK, LoopTypeOK
  <2>3. HasAddFd(cmd_pipe[l]) => HasAddFd(cmd_pipe'[l]) \/ HasAddFd(cmd_r_buf_'[l])
    BY <2>1, <2>2, HasAddFdSplit
  <2>4. ~HasAddFd(cmd_r_buf_[l])
    <3>1. cmd_r_buf_[l] = <<>>
      BY <2>2 DEF BufferUsedUp
    <3> QED BY <3>1 DEF HasAddFd
  <2>5. NoLostHandoffAt(l)'
    BY <1>0, <2>2, <2>3, <2>4 DEF NoLostHandoffAt
  <2>6. OnlyAddFdAt(l)'
    BY <1>0, <2>1, <2>2 DEF OnlyAddFdAt
  <2> QED BY <2>2, <2>5, <2>6 DEF NoLostEdgeAt, BufferUsedUp, CmdEventUsedUp
<1>2. CASE CmdAddFd(l)
  <2>1. /\ new_cli_socks_'[l] = {} /\ cmd_pipe' = cmd_pipe /\ loop_pc' = loop_pc
        /\ loop_pc[l] = "cmds" /\ cmd_ready' = cmd_ready /\ cmd_event' = cmd_event
    BY <1>2 DEF CmdAddFd, TypeOK, LoopTypeOK
  <2> QED BY <1>0, <2>1
          DEF NoLostHandoffAt, NoLostEdgeAt, BufferUsedUp, CmdEventUsedUp, OnlyAddFdAt
<1>3. CASE CmdSkip(l)
  <2>1. /\ cmd_recv_add_fd[l] /\ loop_pc[l] = "cmds"
        /\ UNCHANGED <<new_cli_socks_, cmd_pipe, cmd_recv_add_fd, loop_pc, cmd_ready, cmd_event>>
    BY <1>3 DEF CmdSkip
  <2> QED BY <1>0, <2>1
          DEF NoLostHandoffAt, NoLostEdgeAt, BufferUsedUp, CmdEventUsedUp, OnlyAddFdAt
<1>4. ASSUME NEW cmd \in BOOLEAN, EpollWait(l, cmd) PROVE HandoverInv(l)'
  <2>1. /\ UNCHANGED <<new_cli_socks_, cmd_pipe, cmd_recv_add_fd, cmd_r_buf_>>
        /\ loop_pc[l] = "wait" /\ loop_pc'[l] = "events"
        /\ cmd_event'[l] = cmd /\ cmd_ready'[l] = (cmd_ready[l] /\ ~cmd)
    BY <1>4 DEF EpollWait, TypeOK, LoopTypeOK
  <2>2. cmd_pipe[l] # <<>> => cmd_ready[l]
    BY <2>1 DEF NoLostEdgeAt, CmdEventUsedUp
  <2> QED BY <1>0, <2>1, <2>2
          DEF NoLostHandoffAt, NoLostEdgeAt, BufferUsedUp, CmdEventUsedUp, OnlyAddFdAt
<1>5. CASE StartLoop(l) \/ CmdsDone(l) \/ LoopAgain(l) \/ HandleExpiredTimers(l) \/ CmdClose(l)
           \/ CmdEvent(l) \/ CmdReadAgain(l)
  <2>1. UNCHANGED <<new_cli_socks_, cmd_pipe, cmd_recv_add_fd, cmd_r_buf_, cmd_ready>>
    BY <1>5 DEF StartLoop, CmdsDone, LoopAgain, HandleExpiredTimers, CmdClose, CmdEvent,
                CmdReadAgain
  <2>2. NoLostHandoffAt(l)'
    BY <1>0, <2>1 DEF NoLostHandoffAt
  <2>3. BufferUsedUp(l)'
    BY <1>5, <2>1 DEF BufferUsedUp, StartLoop, CmdsDone, LoopAgain, HandleExpiredTimers, CmdClose,
          CmdEvent, CmdReadAgain, TypeOK, LoopTypeOK
  <2>4. NoLostEdgeAt(l)'
    BY <1>5, <2>1 DEF NoLostEdgeAt, StartLoop, CmdsDone, LoopAgain, HandleExpiredTimers, CmdClose,
          CmdEvent, CmdReadAgain, TypeOK, LoopTypeOK
  <2>5. CmdEventUsedUp(l)'
    BY <1>5, <2>1 DEF CmdEventUsedUp, StartLoop, CmdsDone, LoopAgain, HandleExpiredTimers,
          CmdClose, CmdEvent, CmdReadAgain, TypeOK, LoopTypeOK
  <2>6. OnlyAddFdAt(l)'
    BY <1>0, <2>1 DEF OnlyAddFdAt
  <2> QED BY <2>2, <2>3, <2>4, <2>5, <2>6
<1>6. ASSUME NEW fd \in Fds, ConnEvent(l, fd) \/ CloseExpired(l, fd) PROVE HandoverInv(l)'
  <2>1. UNCHANGED CmdRow(l)
    BY <1>6 DEF ConnEvent, CloseExpired, CmdRow
  <2> QED BY <1>0, <2>1, CmdRowFrame
<1> QED BY <1>1, <1>2, <1>3, <1>4, <1>5, <1>6 DEF LoopStep, LoopWork

LEMMA CmdSendHandover ==
  ASSUME TypeOK, NEW l \in Loops, NEW cmd \in Cmds, CmdSend(l, cmd)
  PROVE  /\ \A k \in Loops : k # l => UNCHANGED CmdRow(k)
         /\ UNCHANGED <<loop_pc, new_cli_socks_, cmd_event, cmd_recv_add_fd, cmd_r_buf_>>
         /\ cmd_ready'[l] = TRUE
         /\ HasAddFd(cmd_pipe[l]) => HasAddFd(cmd_pipe'[l])
         /\ cmd = "ADD_FD" => HasAddFd(cmd_pipe'[l])
         /\ cmd_pipe'[l] = Append(cmd_pipe[l], cmd) /\ cmd_pipe[l] \in Seq(Cmds)
<1> USE DEF TypeOK, LoopTypeOK
<1>1. cmd_pipe'[l] = Append(cmd_pipe[l], cmd) /\ cmd_pipe[l] \in Seq(Cmds)
  BY DEF CmdSend
<1>2. \A k \in Loops : k # l => cmd_pipe'[k] = cmd_pipe[k] /\ cmd_ready'[k] = cmd_ready[k]
  BY DEF CmdSend
<1> QED BY <1>1, <1>2, HasAddFdAppend DEF CmdSend, CmdRow

LEMMA MainHandover ==
  ASSUME TypeOK, NEW l \in Loops, HandoverInv(l), MainStep
  PROVE  HandoverInv(l)'
<1>1. CASE PushCliSock
  <2>1. /\ main_pc' = "send" /\ main_pc = "push" /\ pool_idx_' = pool_idx_
        /\ UNCHANGED <<loop_pc, cmd_pipe, cmd_ready, cmd_event, cmd_recv_add_fd, cmd_r_buf_>>
        /\ l # pool_idx_ => new_cli_socks_'[l] = new_cli_socks_[l]
    BY <1>1 DEF PushCliSock, TypeOK, LoopTypeOK
  <2> QED BY <2>1 DEF HandoverInv, NoLostHandoffAt, NoLostEdgeAt, BufferUsedUp, CmdEventUsedUp,
                      OnlyAddFdAt, Stopping
<1>2. CASE SendAddFd
  <2>1. /\ CmdSend(pool_idx_, "ADD_FD") /\ "ADD_FD" \in Cmds /\ pool_idx_ \in Loops
        /\ main_pc = "send" /\ main_pc' = "accept"
    BY <1>2 DEF SendAddFd, AfterAddFd, Cmds, TypeOK
  <2>2. CASE l = pool_idx_
    <3>1. /\ cmd_pipe'[l] = Append(cmd_pipe[l], "ADD_FD") /\ cmd_pipe[l] \in Seq(Cmds)
          /\ \A i \in 1..Len(cmd_pipe[l]) : cmd_pipe[l][i] = "ADD_FD"
      BY <2>1, <2>2, CmdSendHandover DEF HandoverInv, OnlyAddFdAt, Stopping
    <3>2. OnlyAddFdAt(l)'
      BY <3>1 DEF OnlyAddFdAt
    <3>3. /\ UNCHANGED <<loop_pc, new_cli_socks_, cmd_event, cmd_recv_add_fd, cmd_r_buf_>>
          /\ cmd_ready'[l] /\ HasAddFd(cmd_pipe'[l])
      BY <2>1, <2>2, CmdSendHandover
    <3> QED BY <3>2, <3>3
            DEF HandoverInv, NoLostHandoffAt, NoLostEdgeAt, BufferUsedUp, CmdEventUsedUp
  <2>3. CASE l # pool_idx_
    BY <2>1, <2>3, CmdSendHandover, CmdRowFrame DEF Stopping
  <2> QED BY <2>2, <2>3
<1>3. CASE SendClose
  <2>1. /\ CmdSend(stop_idx, "CLOSE") /\ "CLOSE" \in Cmds /\ stop_idx \in Loops
        /\ main_pc = "stop" /\ main_pc' = "stop"
    BY <1>3 DEF SendClose, AfterClose, Cmds, TypeOK, Loops
  <2>2. CASE l = stop_idx
    BY <2>1, <2>2, CmdSendHandover
       DEF HandoverInv, NoLostHandoffAt, NoLostEdgeAt, BufferUsedUp, CmdEventUsedUp, OnlyAddFdAt,
           Stopping
  <2>3. CASE l # stop_idx
    BY <2>1, <2>3, CmdSendHandover, CmdRowFrame DEF Stopping
  <2> QED BY <2>2, <2>3
<1>4. ASSUME NEW fd \in Fds, Accept(fd) PROVE HandoverInv(l)'
  <2>1. UNCHANGED CmdRow(l) /\ main_pc = "accept"
    BY <1>4 DEF Accept, CmdRow
  <2> QED BY <2>1, CmdRowFrame DEF Stopping
<1>5. CASE EpollWaitMain \/ DealNewConn \/ ExitEvent \/ EventsDone \/ AcceptFails
           \/ StartLoopReturns \/ JoinPool
  <2>1. UNCHANGED CmdRow(l) /\ main_pc # "send" /\ (Stopping => Stopping')
    BY <1>5 DEF EpollWaitMain, DealNewConn, ExitEvent, EventsDone, AcceptFails, StartLoopReturns,
                JoinPool, CmdRow, loopVars, Stopping
  <2> QED BY <2>1, CmdRowFrame
<1> QED BY <1>1, <1>2, <1>3, <1>4, <1>5 DEF MainStep

(* An interrupted write of CMD_ADD_FD found the pipe full, of CMD_ADD_FD. *)
LEMMA InterruptedHandover ==
  ASSUME TypeOK, NEW l \in Loops, HandoverInv(l), Interrupted
  PROVE  HandoverInv(l)'
<1>1. UNCHANGED CmdRow(l)
  BY DEF Interrupted, AddFdInterrupted, CloseInterrupted, WriteInterrupted, CmdRow, loopVars
<1>2. CASE AddFdInterrupted
  <2>1. /\ main_pc = "send" /\ main_pc' = "accept"
        /\ Len(cmd_pipe[pool_idx_]) >= CmdPipeCap /\ pool_idx_ \in Loops
    BY <1>2 DEF AddFdInterrupted, AfterAddFd, WriteInterrupted, TypeOK
  <2>2. CASE l = pool_idx_
    <3>1. cmd_pipe[l] \in Seq(Cmds) /\ Len(cmd_pipe[l]) >= 1
      BY <2>1, <2>2 DEF TypeOK, LoopTypeOK
    <3>2. HasAddFd(cmd_pipe[l])
      BY <2>1, <3>1 DEF HandoverInv, OnlyAddFdAt, Stopping, HasAddFd
    <3>3. NoLostHandoffAt(l)'
      BY <1>1, <3>2 DEF NoLostHandoffAt, CmdRow
    <3> QED BY <1>1, <2>1, <3>3 DEF HandoverInv, NoLostEdgeAt, BufferUsedUp, CmdEventUsedUp,
                                    OnlyAddFdAt, Stopping, CmdRow
  <2>3. CASE l # pool_idx_
    BY <1>1, <2>1, <2>3, CmdRowFrame DEF Stopping
  <2> QED BY <2>2, <2>3
<1>3. CASE CloseInterrupted
  <2>1. main_pc = "stop" /\ main_pc' = "stop"
    BY <1>3 DEF CloseInterrupted, AfterClose
  <2> QED BY <1>1, <2>1, CmdRowFrame DEF Stopping
<1> QED BY <1>2, <1>3 DEF Interrupted

LEMMA HandoverStep ==
  TypeOK /\ (\A l \in Loops : HandoverInv(l)) /\ [Next]_vars => (\A l \in Loops : HandoverInv(l))'
<1> SUFFICES ASSUME TypeOK, \A l \in Loops : HandoverInv(l), [Next]_vars, NEW k \in Loops
             PROVE  HandoverInv(k)'
  OBVIOUS
<1>1. ASSUME NEW l \in Loops, LoopStep(l), UNCHANGED mainVars PROVE HandoverInv(k)'
  <2>1. CASE k = l
    BY <1>1, <2>1, LoopHandover
  <2>2. CASE k # l
    <3>1. UNCHANGED CmdRow(k)
      BY <1>1, <2>2, OtherCmdRows
    <3> QED BY <1>1, <3>1, CmdRowFrame DEF mainVars, Stopping
  <2> QED BY <2>1, <2>2
<1>2. CASE MainStep
  BY <1>2, MainHandover
<1>4. CASE Interrupted
  BY <1>4, InterruptedHandover
<1>3. CASE ClientConnect \/ HandleSignal \/ UNCHANGED vars
  <2>1. UNCHANGED CmdRow(k) /\ UNCHANGED <<main_pc, pool_idx_>>
    BY <1>3 DEF ClientConnect, HandleSignal, vars, loopVars, mainVars, CmdRow
  <2> QED BY <2>1, CmdRowFrame DEF Stopping
<1> QED BY <1>1, <1>2, <1>3, <1>4 DEF Next, Interrupted

LEMMA HandoverAlways == Spec => [](\A l \in Loops : HandoverInv(l))
<1>1. Init => \A l \in Loops : HandoverInv(l)
  BY DEF Init, LoopInit, HandoverInv, NoLostHandoffAt, NoLostEdgeAt, BufferUsedUp,
         CmdEventUsedUp, OnlyAddFdAt
<1> QED BY <1>1, TypeCorrect, HandoverStep, PTL DEF Spec

(* A socket in a loop's queue always has a CMD_ADD_FD on its way that will
   find it there: push-then-send and one-swap-per-read lose none. *)
THEOREM HandoffCorrect == Spec => []NoLostHandoff
<1>1. (\A l \in Loops : HandoverInv(l)) => NoLostHandoff
  BY DEF HandoverInv, NoLostHandoff
<1> QED BY <1>1, HandoverAlways, PTL

(* A loop never sleeps on commands whose edge it has spent. *)
THEOREM EdgeCorrect == Spec => []NoLostEdge
<1>1. (\A l \in Loops : HandoverInv(l)) => NoLostEdge
  BY DEF HandoverInv, NoLostEdge
<1> QED BY <1>1, HandoverAlways, PTL

-----------------------------------------------------------------------------
(* The stop of the loops. *)

LEMMA HasCloseSplit ==
  ASSUME NEW s \in Seq(Cmds), NEW n \in 1..Len(s)
  PROVE  HasClose(s) <=> HasClose(SubSeq(s, 1, n)) \/ HasClose(SubSeq(s, n + 1, Len(s)))
<1> DEFINE h == SubSeq(s, 1, n)
           t == SubSeq(s, n + 1, Len(s))
<1>1. /\ Len(h) = n /\ Len(t) = Len(s) - n
      /\ \A i \in 1..n : h[i] = s[i]
      /\ \A i \in 1..(Len(s) - n) : t[i] = s[n + i]
  OBVIOUS
<1> HIDE DEF h, t
<1>2. ASSUME NEW i \in 1..Len(s), s[i] = "CLOSE" PROVE HasClose(h) \/ HasClose(t)
  <2>1. CASE i <= n
    BY <1>1, <1>2, <2>1 DEF HasClose
  <2>2. CASE i > n
    <3>1. i - n \in 1..Len(t) /\ t[i - n] = s[i]
      BY <1>1, <2>2
    <3> QED BY <1>2, <3>1 DEF HasClose
  <2> QED BY <2>1, <2>2
<1>3. HasClose(h) => HasClose(s)
  BY <1>1 DEF HasClose
<1>4. ASSUME NEW i \in 1..Len(t), t[i] = "CLOSE" PROVE HasClose(s)
  <2>1. n + i \in 1..Len(s) /\ s[n + i] = "CLOSE"
    BY <1>1, <1>4
  <2> QED BY <2>1 DEF HasClose
<1> QED BY <1>2, <1>3, <1>4 DEF HasClose, h, t

LEMMA HasCloseTail ==
  ASSUME NEW s \in Seq(Cmds), s # <<>>, Head(s) # "CLOSE"
  PROVE  HasClose(s) <=> HasClose(Tail(s))
<1>1. /\ Len(Tail(s)) = Len(s) - 1 /\ Len(s) \in Nat \ {0} /\ s[1] # "CLOSE"
      /\ \A i \in 1..(Len(s) - 1) : Tail(s)[i] = s[i + 1]
  OBVIOUS
<1>2. ASSUME NEW i \in 1..Len(s), s[i] = "CLOSE" PROVE HasClose(Tail(s))
  <2>1. i - 1 \in 1..Len(Tail(s)) /\ Tail(s)[i - 1] = "CLOSE"
    BY <1>1, <1>2
  <2> QED BY <2>1 DEF HasClose
<1>3. ASSUME NEW i \in 1..Len(Tail(s)), Tail(s)[i] = "CLOSE" PROVE HasClose(s)
  <2>1. i + 1 \in 1..Len(s) /\ s[i + 1] = "CLOSE"
    BY <1>1, <1>3
  <2> QED BY <2>1 DEF HasClose
<1> QED BY <1>2, <1>3 DEF HasClose

LEMMA HasCloseAppend ==
  ASSUME NEW s \in Seq(Cmds), NEW cmd \in Cmds
  PROVE  HasClose(Append(s, cmd)) <=> HasClose(s) \/ cmd = "CLOSE"
BY DEF HasClose

(* A step of a loop takes no CMD_CLOSE out of its sight and finds none that was
   not sent: it reads what the socketpair holds, drops only CMD_ADD_FD, and
   ends at a CMD_CLOSE and nowhere else. *)
LEMMA LoopHears ==
  ASSUME TypeOK, NEW l \in Loops, BufferUsedUp(l), LoopStep(l)
  PROVE  Hears(l)' <=> Hears(l)
<1> USE DEF Hears
<1>1. CASE CmdRead(l)
  <2>1. cmd_pipe[l] \in Seq(Cmds) /\ ReadLen(l) \in 1..Len(cmd_pipe[l])
    BY <1>1 DEF CmdRead, ReadLen, TypeOK, LoopTypeOK
  <2>2. /\ cmd_pipe'[l] = SubSeq(cmd_pipe[l], ReadLen(l) + 1, Len(cmd_pipe[l]))
        /\ cmd_r_buf_'[l] = SubSeq(cmd_pipe[l], 1, ReadLen(l))
        /\ loop_pc[l] = "recv" /\ loop_pc'[l] = "cmds"
    BY <1>1 DEF CmdRead, TypeOK, LoopTypeOK
  <2>3. ~HasClose(cmd_r_buf_[l])
    BY <2>2 DEF BufferUsedUp, HasClose
  <2> QED BY <2>1, <2>2, <2>3, HasCloseSplit
<1>2. CASE CmdAddFd(l) \/ CmdSkip(l)
  <2>1. /\ cmd_r_buf_[l] \in Seq(Cmds) /\ cmd_r_buf_[l] # <<>> /\ Head(cmd_r_buf_[l]) # "CLOSE"
        /\ cmd_r_buf_'[l] = Tail(cmd_r_buf_[l])
        /\ loop_pc' = loop_pc /\ cmd_pipe' = cmd_pipe
    BY <1>2 DEF CmdAddFd, CmdSkip, TypeOK, LoopTypeOK
  <2> QED BY <2>1, HasCloseTail
<1>3. CASE CmdClose(l)
  <2>1. /\ cmd_r_buf_[l] \in Seq(Cmds) /\ cmd_r_buf_[l] # <<>> /\ Head(cmd_r_buf_[l]) = "CLOSE"
        /\ loop_pc'[l] = "done"
    BY <1>3 DEF CmdClose, TypeOK, LoopTypeOK
  <2> QED BY <2>1 DEF HasClose
<1>4. ASSUME NEW cmd \in BOOLEAN, EpollWait(l, cmd) PROVE Hears(l)' <=> Hears(l)
  BY <1>4 DEF EpollWait, TypeOK, LoopTypeOK
<1>5. CASE StartLoop(l) \/ CmdsDone(l) \/ LoopAgain(l) \/ HandleExpiredTimers(l)
           \/ CmdEvent(l) \/ CmdReadAgain(l)
  <2>1. /\ cmd_pipe' = cmd_pipe /\ cmd_r_buf_' = cmd_r_buf_
        /\ loop_pc[l] # "done" /\ loop_pc'[l] # "done"
    BY <1>5 DEF StartLoop, CmdsDone, LoopAgain, HandleExpiredTimers, CmdEvent, CmdReadAgain,
                TypeOK, LoopTypeOK
  <2> QED BY <2>1
<1>6. ASSUME NEW fd \in Fds, ConnEvent(l, fd) \/ CloseExpired(l, fd) PROVE Hears(l)' <=> Hears(l)
  BY <1>6 DEF ConnEvent, CloseExpired
<1> QED BY <1>1, <1>2, <1>3, <1>4, <1>5, <1>6 DEF LoopStep, LoopWork

(* A write is heard by the loop it goes to, if it is a CMD_CLOSE. *)
LEMMA CmdSendHears ==
  ASSUME TypeOK, NEW l \in Loops, NEW cmd \in Cmds, CmdSend(l, cmd), NEW k \in Loops
  PROVE  Hears(k)' <=> Hears(k) \/ (k = l /\ cmd = "CLOSE")
<1>1. CASE k = l
  <2>1. /\ cmd_pipe'[k] = Append(cmd_pipe[k], cmd) /\ cmd_pipe[k] \in Seq(Cmds)
        /\ loop_pc' = loop_pc /\ cmd_r_buf_' = cmd_r_buf_
    BY <1>1, CmdSendHandover
  <2>2. HasClose(cmd_pipe'[k]) <=> HasClose(cmd_pipe[k]) \/ cmd = "CLOSE"
    BY <2>1, HasCloseAppend
  <2> QED BY <1>1, <2>1, <2>2 DEF Hears
<1>2. CASE k # l
  <2>1. UNCHANGED CmdRow(k)
    BY <1>2, CmdSendHandover
  <2> QED BY <1>2, <2>1 DEF Hears, CmdRow
<1> QED BY <1>1, <1>2

(* exit_event_ is in a batch only after a signal. *)
StopInv == StopReaches /\ (exit_in_batch => exit_event_ >= 1)

LEMMA ToldFinite ==
  /\ IsFiniteSet(Told \ Heard)
  /\ Cardinality(Told \ Heard) \in Nat
<1>1. IsFiniteSet(Loops)
  BY FS_Interval DEF Loops
<1>2. Told \ Heard \in SUBSET Loops
  BY DEF Told
<1> QED BY <1>1, <1>2, FS_Subset, FS_CardinalityType

(* What leaves alone who was told and who heard preserves the invariant; so
   does what makes one more loop hear that is told. *)
LEMMA StopFrame ==
  ASSUME StopInv, TypeOK, TypeOK', Heard' \subseteq Told',
         Stopping' => Stopping, Told' \ Heard' \subseteq Told \ Heard,
         exit_event_' >= exit_event_, exit_in_batch' => exit_event_' >= 1
  PROVE  StopInv'
<1>1. exit_event_ \in Nat /\ exit_event_' \in Nat
  BY DEF TypeOK
<1>2. Told' \ Heard' \in SUBSET (Told \ Heard)
  OBVIOUS
<1>3. /\ Cardinality(Told' \ Heard') <= Cardinality(Told \ Heard)
      /\ IsFiniteSet(Told' \ Heard')
  BY <1>2, ToldFinite, FS_Subset
<1>4. Cardinality(Told' \ Heard') \in Nat
  BY <1>3, FS_CardinalityType
<1>5. ASSUME Stopping' PROVE Cardinality(Told' \ Heard') < exit_event_'
  <2>1. Cardinality(Told \ Heard) < exit_event_
    BY <1>5 DEF StopInv, StopReaches
  <2> QED BY <1>1, <1>3, <1>4, <2>1, ToldFinite
<1> QED BY <1>5 DEF StopInv, StopReaches

LEMMA HeardSame ==
  ASSUME \A l \in Loops : Hears(l)' <=> Hears(l)
  PROVE  Heard' = Heard
BY DEF Heard, Loops

LEMMA MainStop ==
  ASSUME StopInv, TypeOK, TypeOK', MainStep
  PROVE  StopInv'
<1>0. exit_event_ \in Nat /\ exit_event_' = exit_event_
  BY DEF TypeOK, MainStep, EpollWaitMain, DealNewConn, ExitEvent, EventsDone, Accept, AcceptFails,
         PushCliSock, SendAddFd, SendClose, StartLoopReturns, JoinPool, envVars
<1>1. CASE EpollWaitMain
  <2>1. PICK e \in BOOLEAN : (e => ExitReady) /\ exit_in_batch' = e
    BY <1>1 DEF EpollWaitMain
  <2>2. exit_in_batch' => exit_event_' >= 1
    BY <1>0, <2>1 DEF ExitReady
  <2>3. /\ Stopping' = Stopping /\ Told' = Told
    BY <1>1 DEF EpollWaitMain, Stopping, Told
  <2>4. Heard' = Heard
    BY <1>1 DEF EpollWaitMain, loopVars, Heard, Hears
  <2> QED BY <1>0, <2>2, <2>3, <2>4, StopFrame DEF StopInv, StopReaches
<1>2. CASE ExitEvent
  <2>1. Told = {} /\ Told' = {} /\ Heard' = Heard
    BY <1>2 DEF ExitEvent, loopVars, Told, Stopping, Heard, Hears, Loops
  <2>2. Told' \ Heard' = {} /\ Heard' \subseteq Told'
    BY <2>1 DEF StopInv, StopReaches
  <2>3. Cardinality(Told' \ Heard') = 0
    BY <2>2, FS_EmptySet
  <2>4. exit_event_' >= 1 /\ ~exit_in_batch'
    BY <1>0, <1>2 DEF StopInv, ExitEvent
  <2> QED BY <1>0, <2>2, <2>3, <2>4 DEF StopInv, StopReaches
<1>3. CASE SendAddFd
  <2>1. /\ CmdSend(pool_idx_, "ADD_FD") /\ "ADD_FD" \in Cmds /\ pool_idx_ \in Loops
        /\ main_pc = "send" /\ main_pc' = "accept" /\ exit_in_batch' = exit_in_batch
    BY <1>3 DEF SendAddFd, AfterAddFd, Cmds, TypeOK
  <2>2. ASSUME NEW l \in Loops PROVE Hears(l)' <=> Hears(l)
    BY <2>1, CmdSendHears
  <2>3. Heard' = Heard
    BY <2>2, HeardSame
  <2>4. Told' = Told /\ ~Stopping'
    BY <2>1 DEF Told, Stopping
  <2> QED BY <1>0, <2>1, <2>3, <2>4, StopFrame DEF StopInv, StopReaches
<1>4. CASE SendClose
  <2>1. /\ CmdSend(stop_idx, "CLOSE") /\ "CLOSE" \in Cmds /\ stop_idx \in Loops
        /\ main_pc = "stop" /\ main_pc' = "stop" /\ stop_idx' = stop_idx + 1
        /\ exit_in_batch' = exit_in_batch
    BY <1>4 DEF SendClose, AfterClose, Cmds, TypeOK, Loops
  <2>2. ASSUME NEW l \in Loops PROVE Hears(l)' <=> Hears(l) \/ l = stop_idx
    BY <2>1, CmdSendHears
  <2>3. Heard' = Heard \cup {stop_idx}
    BY <2>1, <2>2 DEF Heard
  <2>4. Told' = Told \cup {stop_idx} /\ Stopping
    BY <2>1 DEF Told, Stopping, Loops
  <2> QED BY <1>0, <2>1, <2>3, <2>4, StopFrame DEF StopInv, StopReaches
<1>5. CASE StartLoopReturns \/ JoinPool
  <2>1. Told' = Told /\ Heard' = Heard /\ Stopping /\ exit_in_batch' = exit_in_batch
    BY <1>5 DEF StartLoopReturns, JoinPool, loopVars, Told, Stopping, Heard, Hears
  <2> QED BY <1>0, <2>1, StopFrame DEF StopInv, StopReaches
<1>6. CASE DealNewConn \/ EventsDone \/ AcceptFails \/ PushCliSock \/ \E fd \in Fds : Accept(fd)
  <2>1. ~Stopping /\ ~Stopping' /\ exit_in_batch' = exit_in_batch
    BY <1>6 DEF DealNewConn, EventsDone, AcceptFails, PushCliSock, Accept, Stopping
  <2>2. Told' = Told
    BY <2>1 DEF Told
  <2>3. Heard' = Heard
    BY <1>6 DEF DealNewConn, EventsDone, AcceptFails, PushCliSock, Accept, loopVars, Heard, Hears
  <2> QED BY <1>0, <2>1, <2>2, <2>3, StopFrame DEF StopInv, StopReaches
<1> QED BY <1>1, <1>2, <1>3, <1>4, <1>5, <1>6 DEF MainStep

(* An interrupted write tells a loop that will not hear, at the price of a
   signal. *)
LEMMA InterruptedStop ==
  ASSUME StopInv, TypeOK, TypeOK', Interrupted
  PROVE  StopInv'
<1>1. /\ exit_event_ \in Nat /\ exit_event_' = exit_event_ + 1
      /\ exit_in_batch' = exit_in_batch /\ UNCHANGED loopVars
  BY DEF Interrupted, AddFdInterrupted, CloseInterrupted, WriteInterrupted, WriteExitEvent,
         AfterAddFd, AfterClose, TypeOK
<1>2. Heard' = Heard
  BY <1>1 DEF loopVars, Heard, Hears
<1>3. CASE AddFdInterrupted
  <2>1. ~Stopping /\ ~Stopping'
    BY <1>3 DEF AddFdInterrupted, AfterAddFd, Stopping
  <2>2. Told' = Told
    BY <2>1 DEF Told
  <2> QED BY <1>1, <1>2, <2>1, <2>2, StopFrame DEF StopInv, StopReaches
<1>4. CASE CloseInterrupted
  <2>1. /\ stop_idx \in Loops /\ stop_idx' = stop_idx + 1
        /\ main_pc = "stop" /\ main_pc' = "stop"
    BY <1>4 DEF CloseInterrupted, AfterClose, TypeOK, Loops
  <2>2. Told' = Told \cup {stop_idx} /\ Stopping
    BY <2>1 DEF Told, Stopping, Loops
  <2>3. Told' \ Heard' \in SUBSET ((Told \ Heard) \cup {stop_idx})
    BY <1>2, <2>2
  <2>4. /\ IsFiniteSet((Told \ Heard) \cup {stop_idx})
        /\ Cardinality((Told \ Heard) \cup {stop_idx}) <= Cardinality(Told \ Heard) + 1
    <3> DEFINE M == Told \ Heard
    <3>1. IsFiniteSet(M) /\ Cardinality(M) \in Nat
      BY ToldFinite
    <3> HIDE DEF M
    <3>2. /\ IsFiniteSet(M \cup {stop_idx})
          /\ Cardinality(M \cup {stop_idx}) =
               IF stop_idx \in M THEN Cardinality(M) ELSE Cardinality(M) + 1
      BY <3>1, FS_AddElement
    <3>3. Cardinality(M \cup {stop_idx}) <= Cardinality(M) + 1
      BY <3>1, <3>2
    <3> QED BY <3>2, <3>3 DEF M
  <2>5. /\ IsFiniteSet(Told' \ Heard')
        /\ Cardinality(Told' \ Heard') <= Cardinality((Told \ Heard) \cup {stop_idx})
    BY <2>3, <2>4, FS_Subset
  <2>6. Cardinality(Told \ Heard) < exit_event_
    BY <2>2 DEF StopInv, StopReaches
  <2>7. /\ Cardinality(Told' \ Heard') \in Nat
        /\ Cardinality((Told \ Heard) \cup {stop_idx}) \in Nat
    BY <2>4, <2>5, FS_CardinalityType
  <2>8. Cardinality(Told' \ Heard') < exit_event_'
    BY <1>1, <2>4, <2>5, <2>6, <2>7, ToldFinite
  <2>9. Heard' \subseteq Told' /\ (exit_in_batch' => exit_event_' >= 1)
    BY <1>1, <1>2, <2>2 DEF StopInv, StopReaches
  <2> QED BY <2>8, <2>9 DEF StopInv, StopReaches
<1> QED BY <1>3, <1>4 DEF Interrupted

LEMMA StopStep ==
  StopInv /\ TypeOK /\ TypeOK' /\ (\A l \in Loops : HandoverInv(l)) /\ [Next]_vars => StopInv'
<1> SUFFICES ASSUME StopInv, TypeOK, TypeOK', \A l \in Loops : HandoverInv(l), [Next]_vars
             PROVE  StopInv'
  OBVIOUS
<1>0. exit_event_ \in Nat
  BY DEF TypeOK
<1>1. ASSUME NEW l \in Loops, LoopStep(l), UNCHANGED <<mainVars, envVars>> PROVE StopInv'
  <2>1. ASSUME NEW k \in Loops PROVE Hears(k)' <=> Hears(k)
    <3>1. CASE k = l
      BY <1>1, <3>1, LoopHears DEF HandoverInv
    <3>2. CASE k # l
      BY <1>1, <3>2, OtherCmdRows DEF Hears, CmdRow
    <3> QED BY <3>1, <3>2
  <2>2. Heard' = Heard
    BY <2>1, HeardSame
  <2>3. /\ Told' = Told /\ Stopping' = Stopping
        /\ exit_in_batch' = exit_in_batch /\ exit_event_' = exit_event_
    BY <1>1 DEF mainVars, envVars, Told, Stopping
  <2> QED BY <1>0, <2>2, <2>3, StopFrame DEF StopInv, StopReaches
<1>2. CASE ClientConnect \/ HandleSignal \/ UNCHANGED vars
  <2>1. Heard' = Heard
    BY <1>2 DEF ClientConnect, HandleSignal, vars, loopVars, Heard, Hears
  <2>2. /\ Told' = Told /\ Stopping' = Stopping
        /\ exit_in_batch' = exit_in_batch /\ exit_event_' >= exit_event_
    BY <1>0, <1>2 DEF ClientConnect, HandleSignal, WriteExitEvent, vars, mainVars, envVars, Told,
                      Stopping
  <2>3. exit_event_' \in Nat
    BY DEF TypeOK
  <2> QED BY <1>0, <2>1, <2>2, <2>3, StopFrame DEF StopInv, StopReaches
<1> QED BY <1>1, <1>2, MainStop, InterruptedStop DEF Next, Interrupted

(* No loop ends that was not told to, and of the loops that were, fewer miss
   the command than there were signals: with a single one, none does. *)
THEOREM StopCorrect == Spec => []StopReaches
<1>1. Init => StopInv
  <2> SUFFICES ASSUME Init PROVE StopInv
    OBVIOUS
  <2>1. Heard = {} /\ ~Stopping
    BY DEF Init, LoopInit, Heard, Hears, HasClose, Stopping
  <2> QED BY <2>1 DEF Init, StopInv, StopReaches
<1>2. StopInv => StopReaches
  BY DEF StopInv
<1> QED BY <1>1, <1>2, StopStep, TypeCorrect, HandoverAlways, PTL DEF Spec
=============================================================================
