# LiteWebServer: a formal model

LiteWebServer is a small multi-reactor HTTP server in C++11: a main thread
accepts connections and deals them out in turn to `nthread_` event loops, each
a task of a thread pool with its own epoll set, its own idle timers and one
`UserConn` per connection. This directory holds TLA+ modules of it, TLC
configurations that check them on small instances, and TLAPS proofs of what
matters most for every value of the constants. Paths below are relative to the
root of the repository.

## 1. The system

| Part | Code | State | Operations |
|---|---|---|---|
| Acceptor | `src/litewebserver.cpp` | listening socket, `exit_event_`, `pool_idx_` | `start_loop`, `deal_new_conn_greedy`, `handle_signal`, stopping the loops |
| Event loop | `src/connloop.cpp` | epoll set, `conns_`, `timer_mgr_`, `new_cli_socks_` under a mutex, command socketpair | `loop`, `cmd_recv`, `add_clisock_to_queue`, `mod_conn_event_*`, `conn_close`, `stop` |
| Idle timers | `src/timeutil.h` | heap of (id, deadline), map id -> deadline | `add_timer`, `rm_timer`, `handle_expired_timers`, `get_top` |
| Connection | `src/userconn.cpp` | read buffer, parse position, response, send progress, file descriptor | `process_in`, `process_out`, `conn_state_reset` |
| HTTP data | `src/httpdata.cpp` | parse state machine; response headers and their cached text | `parse`, `header_oper`, `get_base_rsp`, the default handlers |
| Thread pool | `src/ChaosThreadPool.h` | task queue, `stop_num_`, workers, exited workers | `enqueue`, the worker loop, the manager's growth and shrinking, the destructor |
| Logging | `init_log` (`src/litewebserver.cpp`) over `src/spdlog` | a bounded queue under a mutex, one logging thread, the rotating files | a log call, the queue's push and pop, `sink_it_`, `rotate_`, the destructor of the log's thread pool |
| Strings, paths, descriptors | `src/stringutil.h`, `src/filepathutil.h`, `src/fdutil.h` | none | pure functions and system-call wrappers |

How they interact:

- The acceptor is the only writer of a loop's queue (`add_clisock_to_queue`,
  under `new_cli_socks_mtx_`) and of its command socketpair (`cmd_send`, a
  blocking write of one byte). The loop's thread reads both. Everything else a
  loop owns is touched by its own thread only.
- Descriptor numbers are shared by the whole process: a loop closes one, the
  kernel gives it back at the next `accept`, and it may go to another loop.
- A loop calls into a `UserConn`; the `UserConn` calls back to arm its socket
  again (`EPOLLONESHOT`) or to be closed, which destroys it.
- A signal handler writes an eventfd the main thread waits for.
- A loop's thread divides its time between `epoll_wait`, the handlers of a batch
  and the pass over expired timers; the handlers renew the timers.
- Every thread logs: a line goes into one bounded queue, where a thread waits if
  it is full, and one thread takes it to the current file, flushes it, and moves
  the files up by one when a line does not fit.

What is hard: the races between closing and accepting the same number; the
wake-up protocol between queue and socketpair (edge-triggered, several commands
per read, one swap per read); one-shot arming on every path; lazily deleted
timers keyed by numbers that come back; a blocking write in the acceptor;
signals that interrupt it; level- against edge-triggered listening; requests
that arrive in pieces; responses that leave in pieces, which re-enters
`process_out`; the thread pool's shrinking against its stopping; timers that
expire while the one thread that would serve the connection is busy with others,
and sockets that stay ready without any progress; a log queue that stops event
loops when it is full; a rotation of log files cut short by a failing system
call or a crash.

What makes each part correct:

- *Acceptor and loops*: a descriptor has exactly one owner at any time; the
  tables of a loop speak of the sockets it serves and no others; a queued
  socket is always announced; no loop sleeps on commands; no connection is left
  unarmed; one signal ends the server.
- *Timers*: one deadline per descriptor, the last one given; a removed one
  never fires; what is due is reported once, earliest first; stale nodes go.
- *Connection*: a response answers one request, received completely; what is
  sent is one response from its first to its last byte; no file stays open.
- *Pool*: every task runs once; a stopped pool runs what is queued and ends.
- *Loop in time*: a silent connection is closed in bounded time, one that is
  reported is handled before its timeout closes it, and a silent client, as long
  as `recv` and `send` get on with it, is not handled for ever, which would renew
  its timer for ever.
- *Log*: without a failure every line is kept, in order; with one the files stay
  in order and within their limits; nobody sleeps on a line or on room that is
  there; the process can end.

## 2. Modules

| Module | Models | State and actions |
|---|---|---|
| `TimerSpec` | what `TimerManager` promises | `armed`: one deadline per id; `Arm`, `Disarm`, a pass `Begin`/`Report`/`End` |
| `TimerManager` | `src/timeutil.h` | `timer_queue_` (the heap, as a bag), `timer_map_`, and the locals of `handle_expired_timers`; one action per operation, one per turn of its `while` |
| `FdLifecycle` | what acceptor and loops promise about descriptors | `Accept`, `HandOver`, `Serve`, `Close` |
| `ConnLoop` | `src/connloop.cpp` | the loops' variables, indexed by loop; one action per step of `loop`, `cmd_recv` and the handlers |
| `LiteWebServer` | `src/litewebserver.cpp`, composed with the loops, the clients and the operator | the main thread's program counter and locals, the backlog, the eventfd; the specification, the fairness and the properties |
| `Exchange` | what a connection promises its client | the answer that is due, what went out of it; `Receive`, `Understand`, `Deliver`, `Finish`, `Break` |
| `HttpRequest` | `HttpRequest::parse` (`src/httpdata.cpp`) | pure operators: a request and a buffer to a request and a count |
| `UserConn` | `src/userconn.cpp` with the responses of `src/httpdata.cpp`, a client and a file | the connection's fields, what the client sent and what it got; `process_in` and `process_out` with every split the socket may make, close |
| `TaskPool` | what `ThreadPool` promises about tasks | `Accept`, `Refuse`, `Start`, `Finish`, `Stop`, `Leave` |
| `ThreadPool` | `src/ChaosThreadPool.h` | queue, `stop_num_`, workers and exited workers, and where each thread stands; one action per critical section, notify or join |
| `IdleLoop` | `src/connloop.cpp`, `src/timeutil.h` and `src/userconn.cpp` in time | one loop: the batch being worked off and the time spent; each connection's deadline, buffer and what it waits for; its client |
| `LogKeeper` | what the log promises | `Accept`, `Keep`, `Forget`, `Lose`, `Close`, `Reopen` |
| `RotatingSink` | `rotating_file_sink-inl.h`, `file_helper-inl.h` and the calls that lead to them | the files, the stream not yet flushed, `current_size_`, the locals of `sink_it_` and `rotate_`; one action per system call, failing ones too |
| `AsyncLog` | `mpmc_blocking_q.h`, `circular_q.h`, `thread_pool-inl.h`, composed with `RotatingSink` | the slots and indexes of the queue, where each thread and the destructor stand; one action per critical section and notify; crash and restart |
| `MCTimerManager`, `MCLiteWebServer`, `MCUserConn`, `MCThreadPool`, `MCIdleLoop`, `MCAsyncLog` | TLC instances | |
| `TimerManagerProofs`, `LiteWebServerProofs`, `HttpRequestProofs`, `UserConnProofs`, `ThreadPoolProofs`, `IdleLoopProofs`, `AsyncLogProofs` | theorems | |

`LiteWebServer` composes the acceptor with the loops of `ConnLoop`. The pool's
destructor appears there as the one step `JoinPool`; that it may be one step is
what `DtorReturns` of `ThreadPool` says. A loop calls `process_in` and
`process_out`, which in `ConnLoop` are the choice between arming the socket
again and closing it; what they do inside is `UserConn`. `IdleLoop` composes one
loop, its timers and its connections once more, in time: there a timer is the
deadline `TimerSpec` says it is, and a connection is only what its socket is
armed for, the room in its buffer and whether its answer can still be sent.

Choices that need a word:

- `open_fds` is one process-wide set over `Fds`: `accept` takes any number that
  is not open (the kernel takes the least; any is a superset), and fails when
  none is left (EMFILE).
- A socket's epoll entry is `none`, `in`, `out` or `off` (registered, silenced
  by `EPOLLONESHOT`). A batch may hold any armed sockets, each with what it was
  armed for or a hang-up, up to `EpollMaxEvents`; the clients decide.
- A loop dispatches its batch in any order: epoll promises none.
- The socketpair is a sequence of commands of bounded length. Its edge is a
  flag that a write sets and a batch spends.
- A signal is an action of its own (`HandleSignal`), or cuts a blocked write
  short (`AddFdInterrupted`, `CloseInterrupted`): `register_exit_signal` leaves
  `sa_flags` at 0, so `write` returns EINTR, which `cmd_send` only reports.
- In `ConnLoop` the clock is abstract: any subset of the timers may be due when
  the loop looks. Which are due, and the heap, are `TimerManager`'s subject.
- In `TimerManager` the heap is a bag; `top()` is any node of least deadline.
- In `IdleLoop` time passes where the code spends it: in `epoll_wait` with
  nothing ready, up to its timeout, and inside a handler, up to `MaxHandle`.
  Commands are one descriptor `Cmd` that is ready while a connection is queued.
  A batch is any `MaxEvents` of what is ready, in any order. The fields of a
  closed connection are reset, so that it is like one that never was.
- In `AsyncLog` a log line is its ordinal and its size. In the sink each system
  call is a step and may fail, and the process may be killed anywhere,
  `MaxFaults` times in all, and starts again on the files it left. `fwrite` and
  `fflush` take everything or nothing: the piece of a line that a failing one
  leaves in the stream or the file, which `current_size_` does not count until
  the file is opened again, is left out, so `FilesBounded` bounds a file by its
  whole lines.
- Text is cells: a request line, a header, a line end, a piece of a body, a NUL;
  `Text` is the set of methods, paths and values, `Cells` the cells over it.
  A cell arrives whole; the buffer keeps its whole length and what earlier
  requests left in it, because the parser reads all of it.
- Handlers depend on the request alone, and a file keeps its length while it is
  sent. `process_out` runs the handler anew at each entry, as the code does, so
  the response may differ between entries only by what opening the file adds.
- A head that is rebuilt shorter than what was sent of it makes `send` read past
  its end: the model sends any number of `junk` cells, up to `JunkCap`, or none.
- `body_snd_` is true only within the call that ends the response, which resets
  it or destroys the connection, so it needs no variable.
- In `ThreadPool`, as in `AsyncLog`, a notify is a step after the unlock and a
  wait may return of its own accord. The size of the queue that the manager
  reads without its lock is any value while somebody may be pushing or popping.

## 3. Runs

| Run | Instance | Shows |
|---|---|---|
| `timer` | 2 ids, times 0..2, 2 equal nodes | `MapInQueue`, `GetTopIsEarliest`, `PassPurgesPast`, the refinement `AbsSpec`, and `EventuallyReported` |
| `server` | 2 loops, 3 descriptors, pipe of 2, reads of 2, 3 connections, 2 signals | `TypeOK`, `OneOwner`, `TablesAgree`, `NoSilentConn`, `NoLostHandoff`, `NoLostEdge`, `StopReaches`, and the refinement `LifecycleSpec` |
| `live` | 2 loops, 2 descriptors, pipe of 1, reads of 1, batches of 2, backlog of 1, 3 connections, 1 signal | `HandoffServed`, `ShutdownCompletes`, `PendingAccepted` (level-triggered) |
| `second_signal` | 2 loops, 1 descriptor, pipe of 1, 2 signals | violates `ShutdownCompletes` |
| `edge_triggered` | 2 loops, 2 descriptors, pipe of 1, `EPOLLET` | violates `PendingAccepted` |
| `small_pool` | 2 loops, 1 worker | violates `HandoffServed` |
| `connection` | 3 requests out of 13 kinds, a buffer of 10 cells, bodies of 2 | `TypeOK`, `OneOpenFile`, `FirstRequestWhole`, `SplitIndependent`, `WholePieceUnderstood`, and the refinement `ExchangeSpec` |
| `form_in_pieces` | one form | violates `RequestWhole` |
| `response_rebuilt` | one file | violates `RemainNotNegative` |
| `pool` | 3 tasks, 3 thread identities, at most 2 workers, busy above 1, idle below 1, 2 readings | `TypeOK`, `NoLostWakeup`, `WorkersBounded`, `StopIsFinal`, the refinement `PoolSpec`, `EveryTaskRuns`, `DtorReturns` |
| `log` | 3 threads, a queue of 2, 4 lines of sizes 1 and 2, files of 2, 2 rotated files, 2 faults | `TypeOK`, `NoLostWakeup`, `FilesInOrder`, `FilesBounded`, the refinement `KeeperSpec`, `LinesHandled`, `LogReturns`, `DtorReturns` |
| `idle` | 3 connections, a timeout of 3 ticks, waits and handlers of at most 1, batches of 2, buffers of 1, 1 chunk in a socket; one client whose handlings are counted, up to 4, and whose answers may become unsendable | `ClosedInTime`, `NoBusyLoop`, `ReadyNotExpired` |

Bounds. `MaxConnect` bounds the connections ever made, `MaxSignals` the
signals, `Backlog` the accept queue; `MaxTime` and `MaxCopies` bound the clock
and the heap. Three connections are enough for a number to be closed and come
back to another loop while the third is in the acceptor's hands; two commands
per read are enough for a read to hold a second `CMD_ADD_FD` and for a
`CMD_CLOSE` to follow one; two descriptors are enough to run out of them; a pipe
of two is full with two connections handed over, so that a second signal cuts
the `CMD_CLOSE` behind them short, and a pipe of one so that it cuts a
`CMD_ADD_FD`. The proofs need none of these bounds. The descriptors are
interchangeable, so the safety run uses symmetry; the runs with liveness do not.
Deadlock is not checked in the server's runs because the server really stops.

Fairness (`FairSpec`). Each thread is weakly fair: the kernel schedules it. A
loop's `epoll_wait` returns after ten seconds at the latest
(`DEF_EPOLL_WAIT_TIMEOUT`), so it is weakly fair whatever is ready. A batch
that holds the command socket is strongly fair: epoll's ready list is a queue,
a ready socket is not passed over for ever. Handlers do not block, user
handlers are assumed to return. Nothing is assumed of clients or signals. The
timers add that time passes.

The pool: every thread is weakly fair, tasks return, and a notify that is due
comes. Nobody is assumed to enqueue or to destroy the pool. That *some* worker
takes a task is strongly fair: the manager acts once in ten seconds, far apart
on the scale of a worker's step, so it does not send away each worker that was
about to take a task. The connection's properties are safety; its actions need
no fairness, nor do those of `IdleLoop`, where bounded time is a safety property.

The log: each thread that is inside a log call, the logging thread and the
destructor are weakly fair; system calls return. Nobody is assumed to log, to
end the server or to fail. The condition variable is not fair to the threads
that wait for room: one that wakes may find it taken and wait again.
`LogReturns` says that a thread that waits gets its line in, or the process
dies; going back to waiting does not count. It holds because no more than
`MaxLines` lines are ever logged, so that the others stop taking the room. Under
a steady load, which the bound excludes, a thread may be overtaken for ever.

Bounds of the connection and of the pool. The kinds of requests take every way
through parser and router; the form of five cells does not fit the buffer; with
three requests a shorter one comes after a longer one and after that again. The
deadlock check is off since a connection closes and a pool goes down.
`SplitIndependent` and `FirstRequestWhole` speak of the first request of a
connection; of a later one they would be false, since behind what was received
the buffer still has cells of earlier requests, and when a request comes in
pieces the parser may take those for its lines. A later request is understood
as sent if one `recv` brings it whole, which is `WholePieceUnderstood`.

In the pool, three tasks on two workers make the queue busy, two readings are enough
for a count to be begun, reset and completed, and the third thread identity is
there so that a pool which grew too far would show.

Bounds of the log and of the idle loop. A queue of two wraps round, is full and
is empty within four lines; with three threads two may wait for room while the
third posts; a line of the size of a file and lines of half of it make a rotation
with one line and with two, and four lines push the oldest out of the last file;
two faults are a failure in a rotation and a crash after it, or two crashes. In
the idle loop a batch of two out of three ready connections leaves one over;
in a batch of two the first holds the second up past its deadline, before the
pass; and a timeout of three is longer than a batch of two handlers of one tick,
as `ReadyNotExpired` asks. Of its three clients one (`Counted`, `Failing`) has its
handlings counted and may get answers that can never be sent; the other two are
alike, and the run uses symmetry between them. The proofs need neither bound.
The deadlock check is on in both runs, and in `timer`: they never stop for good.

`ReadyNotExpired` speaks of the connections in `events_` when `epoll_wait`
returned (`reported`), whatever their place in it; one that was ready and found
no place may be closed unserved. It is stated under
`MaxEvents * MaxHandle < Timeout`: nothing in the code keeps it so, and the
comment at `src/connloop.cpp:102` names the breach as a known bug. What holds
regardless is `ClosedInTime`, with the bound
`Timeout - 1 + PollTimeout + MaxEvents * MaxHandle`.

`NoBusyLoop` bounds the handlings of a client that does nothing more, *as long as
`recv` and `send` do what they are called for*. It exempts the `Stuck` states, in
which a socket stays ready without progress and its timer is renewed for ever.
These are faults of the code: its loop is then busy until the client goes. Known are

- a buffer full of an unfinished request with more waiting: `recv` is asked for 0
  bytes (`userconn.cpp:135`);
- an answer of which the rest can never be sent while the socket has room
  (`unsendable`): a file that is shorter than when it was opened, so that
  `sendfile` has nothing to send (`:239`); a chunk that the socket never takes,
  of which the comment at `:18` warns; and an answer built anew, shorter than
  what of it is sent already, so that `remain_size` wraps round (`:206`, `:249`)
  and `send` fails behind the string at each entry (how it comes to that is
  the run `response_rebuilt`).

Any other error of `send` or `sendfile` on a socket that stays ready would be of
the second kind, since `process_out` treats every error as a full socket. The
model takes no account of causes: any answer to a `Failing` client may become
unsendable, and stays so, whatever of it is still sent; a file that grows back
to its length is left out.

### What the failing runs say

- `second_signal`. A signal sets the server stopping; if the pipe of a loop is
  full, `stop()` blocks, and a second signal interrupts the write: `CMD_CLOSE`
  is lost and `~ThreadPool` waits for ever. The comment at
  `src/connloop.cpp:39-42` says no command is lost and that a lost stop command
  would only slow the stop. A lost `CMD_ADD_FD`, on the other hand, does no
  harm, as that comment says: `NoLostHandoff` holds under interruptions, since
  a full pipe holds a `CMD_ADD_FD` already.
- `edge_triggered`. With `epoll_et_srv_`, `accept` failing for EMFILE ends the
  greedy loop with connections still waiting; when a descriptor is freed no
  edge announces them. `litewebserver.h:53` says the greedy accept takes all the
  connections at once, and `README.md:53` that the two modes hardly differ.
- `small_pool`. `nthread_` loops are enqueued on a pool that never has more
  than ten workers; with more, some loops never start, and their share of the
  connections is never served.
- `form_in_pieces`. `process_in` hands the parser all 2048 bytes of the buffer.
  Lines are safe on a fresh connection, since the unused part holds no line end
  (`SplitIndependent`, `FirstRequestWhole`), but a body is the next
  `Content-Length` bytes whatever they are, received or not. `THINKING.md:5`
  says the server goes on receiving until the request is whole.
- `response_rebuilt`. `Content-Length` is added to the head of a file's response
  in the entry of `process_out` that opens the file; a later entry rebuilds the
  head without it. If the first entry sent more than the shorter head, the
  unsigned `remain_size` of `send_base_rsp` wraps round, which the comment at
  `src/userconn.cpp:209` says does not occur. `Exchange` therefore promises the
  head only where no file is served (`fixed`), and the body always.

## 4. Proofs

Everything below is proved by TLAPS for any number of loops, workers and
descriptors, any capacities, and any ids and deadlines, from the assumptions
named in the modules (`TimerAssumption`, `ConnLoopAssumption`,
`LiteWebServerAssumption`: types of the constants, at least one loop, worker,
byte and event; `TextAssumption`: the three texts the parser writes itself are
texts; `UserConnAssumption`: types; `SentAssumption`: clients send cells, and of
what they send a complete, good request without a body ends with its headers;
`ThreadPoolAssumption`: types, at least one worker, and more thread identities
than workers; `IdleAssumption`: types, a finite set of connections, at least one
tick, event and chunk; `RotatingSinkAssumption` and `AsyncLogAssumption`: types, a
finite set of threads, at least one slot and file, and no line larger than a
file).

`TimerManagerProofs`: `TypeCorrect`, `ArmedIdsAreInHeap` (`MapInQueue`, which
with the types is inductive: a pop that takes the node of an armed deadline
also erases the map entry), `GetTopCorrect` and `PassPurges` from it, and
`TimerRefinement`: a pop is a `Report` when the map agrees with the node and a
stutter otherwise; that `End` finds nothing due left is where `MapInQueue` is
needed, since a due deadline would have a node at or above the top.

`LiteWebServerProofs`: the inductive invariant is
`IInv == TypeOK /\ OneOwner /\ \A l : LoopInv(l)`, where `LoopInv(l)` is the
rows of `TablesAgree` and `NoSilentConn` for loop `l`. Neither half is inductive
alone: a loop closes what its batch and its timers name, so `OneOwner` needs
the tables; a loop takes over what its queue names, so the tables need
`OneOwner` to know those sockets are new. A frame lemma per side (`OtherRows`,
`MainRows`) says a step touches one loop's rows only. `LifecycleStep` shows
every step to be a step of `FdLifecycle` or a stutter, and `OneOwner` is then
proved once, on the four abstract steps (`OwnerStep`). The hand-over protocol
has its own inductive invariant, `HandoverInv`: `NoLostHandoff` and
`NoLostEdge` with three facts they need, that a buffer is used up before the
next read (`BufferUsedUp`), that a batch is dispatched before the next
(`CmdEventUsedUp`), and that until the server stops the pipe holds nothing but
`CMD_ADD_FD` (`OnlyAddFdAt`), which is what makes an interrupted write harmless.
`StopCorrect` is the safety of the stop (`StopReaches`): no loop ends untold,
and fewer loops miss their `CMD_CLOSE` than there were signals. `StopInv` adds
only that an exit event in the batch was signalled; `LoopHears` shows that a
loop's step keeps what it was told, in the pipe, in its buffer or in its end,
for which it needs `BufferUsedUp` and the order in which a buffer is worked off.
One interrupted write is one loop missed and one signal counted
(`InterruptedStop`), so the bound is kept, and with one signal every loop hears.
That a loop which has heard ends, and the server with it, is liveness
(`ShutdownCompletes`).

`HttpRequestProofs`: the parser is a pure function, and its theorems are about
data of any length. `ParserStaysInData`: its cursor stays within the data, it
takes no more of a body than was announced, and it forgets no `Content-Length`;
one lemma per parser (`LineGood`, `HeaderGood`, `BodyGood`), composed by
`ThenGood`. `ParseResumes`: let `d` hold the first `n` cells of `e` and no line
end behind them, which is what the buffer of a fresh connection holds when `n`
cells have come (`Cut`); if a parse of `d` completes a request without a body, it
is the parse of `e`, and if it does not, a parse of `e` from where it stopped
gives the request, and in all the length, that one parse of `e` gives. The
argument: the line ends of `d` are those of `e` up to `n` (`EndsCut`), so its
complete lines are the first complete lines of `e` (`StartsCut`); a line that
ends the headers, once there, is the first in both (`StopCut`); and since the
first header of a name counts, reading the headers in two parts is reading them
at once (`EmplaceUnion`, `HeaderResumes`). First and last of a set of numbers are
found by `Least` and `Greatest`, from the well-foundedness of `<`. `ParseOfWhole`
is about requests with a body too: if the parse of `d` is complete, any `e` that
begins with `d` gives the same. Its headers have ended in `d`, so `StopCut`
applies; and a body that is complete in `d` was not cut short by the end of `d`,
so that `e` has the same cells to take (`AnnouncedBodyOfBeginning`).

`UserConnProofs`: `TypeCorrect`, `FilesClosed`, `ExchangeRefinement`,
`WholePieceCorrect`, `FirstReceivedWhole` and `SplitsAreNotSeen`, for any set of
requests, any buffer and any body length. `FileOK` (the file is open only while
a response made of it is being sent) and `FreshWhileReading` (a connection that
reads has nothing left of the last response) are inductive together.
`ExchangeRefinement` (`ExchangeSpec`) adds `WireOK`: what the client got of a
response is the beginning of the body, as long as `rsp_body_snd_bytes_` counts,
and, where the response does not change between entries, that of the head, all
of it before the first of the body; the junk that a rebuilt head may bring is
why the head of a file is excepted. A call of `process_out` is then a `Deliver`
or a `Finish` (`OutDelivers`, `OutFinishes`): it makes the beginning longer, by
`OffsetsGrow` and `FirstCellsGrow`, and `BodyDone` is the end of it. The answer
promised is that of `req_` (`Promised`), which the response rebuilt at each entry
agrees with in all that is promised (`RebuiltNow`). `WholePieceCorrect`
(`WholePieceUnderstood`) needs `EmptyIsNew`, that a connection with an empty
buffer has an empty parser: a piece that is the whole request then stands at the
beginning of the buffer (`WholePieceBegins`), and `ParseOfWhole` says that what
stands behind it does not matter. The types need
`ParserStaysInData`, with `BodyCounted` beside them. `FirstReceivedWhole`
(`FirstRequestWhole`) and `SplitsAreNotSeen` (`SplitIndependent`) come from one
invariant, `FirstOK`: until the first answer is sent, the buffer holds the
beginning of the request and NULs, the socket the rest, and what the parser is at
is what one parse of the whole request gets to (`ParsedOf`), both for the request
as it is and for the buffer that has all of it. A piece received keeps it by
`ParseResumes` (`PieceParsed`).

`ThreadPoolProofs`: for any number of tasks and threads, with or without a
manager. The inductive invariant is `IInv`, the conjunction of `TypeOK`, where
each thread stands (`ThreadsOK`, `StagesOK`), `WorkersBounded`, `NoLostWakeup`
and `TasksOnce`. `WorkersBounded` counts the workers that have not left, and
needs `StagesOK` to know that nobody is leaving when the manager decides; `NoLostWakeup`
counts the tasks and departures against the notifies and the workers awake, and
a step that consumes a wake-up must show what it settled. `PoolSpec` needs
`TasksOnce`, so that a finished task is not one still queued, and
`WorkersBounded`, so that a destructor that joined every worker joined one that
saw the queue empty.

`IdleLoopProofs`: for any number of connections and any timeout, batch and
handler time. `TypeCorrect`; `BatchOK` (a batch names each connection once, and
those it names are silenced); `AgeOK`, which bounds a connection's age by its
deadline and by what is left of the wait and of the batch, gives
`IdleConnsAreClosed` (`ClosedInTime`); `OfferOK`, which follows a reported
connection through the batch, gives `ReadyConnsAreKept` (`ReadyNotExpired`); and
`TurnsOK`, a measure of the handlings a silent client can still cause, two for
each chunk and one for an answer it is owed, as long as the connection is not
`Stuck`, gives `HandlingsEnd` (`NoBusyLoop`).

`AsyncLogProofs`: for any number of threads, lines, files and faults and any
sizes. `TypeCorrect` with where each thread stands (`StageOK`) and the indexes of
the queue (`QueueOK`); `WakeupsKept` (`NoLostWakeup`), which counts the free slots
against the threads awake for them; `FilesBoundedAlways` from `BytesOK`, by which
`current_size_` is never less than what is in the file and the stream;
`FilesInOrderAlways` from `OrderOK`, which orders files, stream, the line in hand
and the slots of the queue, through the middle of a rotation; and
`KeeperRefinement`, which adds that the process goes down with an empty queue
(`DownOK`).

Only model-checked: the liveness properties (the prover has no fairness rules):
`EventuallyReported`, `HandoffServed`, `ShutdownCompletes`, `PendingAccepted`,
`EveryTaskRuns`, `LinesHandled`, `LogReturns`, and `DtorReturns` of the pool and
of the log; and what the failing runs show. Every invariant and every action
property that a run checks is a theorem.

## 5. Not modelled

`tests/googletest` is vendored, and so is `src/spdlog`, of which the part that
`init_log` sets up is modelled; the rest, by far the most of its lines, is
formatting (`fmt`, the pattern formatter), the registry, and sinks and overflow
policies that the server does not use. Of the modelled part `rotate_now`,
`post_flush`, the backtrace and an `fclose` that fails at the very end are left
out, since nothing in the server calls them or can see it. `debughelper.h`,
`cppver.h` and `main.cpp` hold no state of the server. `fdutil.h` wraps system
calls, which appear as the kernel's side of the actions. `filepathutil.h` is
pure path text. Opening, socket options and exceptions of the
constructors are left out: the initial state is a server that is up. Of the
HTTP text, what a property does not tell apart is left out: names and values of
headers but `Connection` and `Content-Length`, parameters, versions, content
types, status texts. The pool's futures are the users' affair. The hazards of
`PROJECT.json` with a note and no property are what these choices leave open.

## 6. Plan

Done: the timers, the acceptor with the loops, the connection and its parser, the
pool, the log, and a loop with its timers and connections in time, each with its
abstract specification or invariants and its theorems. Left, in order:

1. The client that does not wait for its answer: requests behind each other in
   one buffer, of which `conn_state_reset` drops what it has not parsed.
2. `HttpRequest` with cells split further into characters where the line end is
   concerned: a piece may end between "\r" and "\n".
3. `HttpResponse::header_oper` and the cached head: the cache is never stale.
4. The pool under `LiteWebServer`: loops as tasks, in place of `JoinPool`; the
   log under both, whose full queue stops a loop.
5. Proofs: `IdleLoop` shown to implement `ConnLoop`'s abstract clock.

The models keep to the same form: constants with named assumptions, one action
per operation, invariants as conjunctions of named parts, no `RECURSIVE`.
