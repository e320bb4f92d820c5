# TLA+ models of Parallel-Calculations

The repository holds five programs, one per laboratory work. Two of them share a
task queue (Lab3, Lab5); two are servers (Lab4, Lab5); Lab1 and Lab2 are
fork-join calculations. This directory models what they do concurrently,
checks it with TLC on small instances, and proves its safety with TLAPS.

All programs are C++ for Windows (WinSock). There are no unit tests; what the
programs are meant to do is said in the reports `src/Lab*/*.docx` (in Ukrainian;
"paragraph n" below is the n-th paragraph of the document) and in comments.

## Inventory

| Component | Source | State | Operations | What is hard |
|---|---|---|---|---|
| Task queue | `Lab3/Project1/TaskQueue.h`, `Lab5/ThreadPool/TaskQueue.h` (the same code) | `innerQueue`, `stopFlag`, `pauseFlag`, mutex, condition variable | push/emplace, pop, clear, stop, pause, resume | notifications after the unlock, spurious wakeups, pause against stop |
| Load-balancing pool | `Lab3/Project1/ThreadPool.{h,cpp}` | a queue and a load counter per worker, `stopFlag`, `pauseFlag`, `tasksSubmitted`, `tasksCompleted` | addTask (least loaded queue), workerLoop, stop(finish or drop), pause, resume | no lock above the queues: every atomic access interleaves |
| Pool driver | `Lab3/Project1/Source.cpp` | `isTestRunning`, the counters as read | generator threads, stop(false), joins, statistics, destruction of the pool | stop() while generators still call addTask() |
| Calculation server | `Lab4/Server/*` | per session: status, thread count, matrix, current TaskHandler; list of sessions | start, accept loop, stop(), one detached thread per client, five commands, detached calculation with its own threads | commands during a calculation, lifetime of a session, exceptions, also in the accept loop |
| C++ client | `Lab4/Client_CPP/*` | socket, remembered matrix size | menu: connect, config, start, status, result, exit | pipelined commands, loss of the server, stale size |
| Python client | `Lab4/Client_Python/Client.py` | socket, where the script is | config, start, polling, result, end, each of which may throw | the poll may see an old status; the polling must end |
| HTTP server | `Lab5/Server/*` | `activeSessions`; per session: `state`, buffers, `bytesSent`, `keepAlive`, `lastActivity` | start, select() loop: accept, readData, writeData, timeout, erase; worker: processRequest | buffers without a lock, raw pointer in the task, capacity of an fd_set, timeout, teardown |
| HTTP thread pool | `Lab5/ThreadPool/ThreadPool.{h,cpp}` | one task queue, several workers | addTask, workerLoop, stop, pause, resume | one notify_one() for many waiters |
| Matrix rows | `Lab1/lab1_proj/Source.cpp` | matrix | block and cyclic distribution | partition of the rows |
| Reduction | `Lab2/Source.cpp` (copied in `Lab2/po_lab2`) | shared count and minimum | mutex and compare-exchange variants | retry loops |
| Rest | plots, locust file, pages, `main()` functions, build files | - | - | - |

How they interact: generators call `addTask()` of the pool, which calls `push()`
of a queue; workers live in `pop()` of their queue. The Lab5 loop hands a session
to the pool by setting its state to PROCESSING and pushing a task that holds a
raw pointer to it; the worker hands it back by setting SENDING. Lab4 clients and
sessions talk over a TCP connection; a session hands its matrix by reference to a
`TaskHandler` in a detached thread, which keeps the session alive by a `shared_ptr`.

What makes each of them correct: no accepted task is lost, run twice or left
behind by stop(); no worker sleeps on while there is work; the counters agree with
where the tasks are; stop() returns; a session belongs to one thread at a time and
outlives every use of it; each request gets one fitting reply; whatever a client
does, its session ends and its socket is closed.

`PROJECT.json` lists every component, and under `hazards` each place in the code
where these can go wrong.

## Modules

| Module | Models | EXTENDS / INSTANCE |
|---|---|---|
| `TaskQueue` | an array of task queues and the workers in their `pop()` | - |
| `TaskLifecycle` | abstract: what may happen to a task handed to a pool | - |
| `BalancedPool` | Lab3 `ThreadPool` | `TaskQueue`; instance of `TaskLifecycle` |
| `PoolAccounting` | the pool's counters, stated against the places of the tasks | `BalancedPool` |
| `RowPartition` | how rows or elements are dealt out in blocks (Lab1, Lab2, Lab4) | - |
| `PoolDriver` | Lab3 `testSolution()` and `taskGenerator()` around the pool | `PoolAccounting` |
| `RowWorkers` | Lab1 `testSolutions()`, `parallelSolution()`, block and cyclic | `RowPartition` |
| `Reduction` | Lab2 `testSolutions()`, `parallelSolution()` and the four `processBlock*` | `RowPartition` |
| `CalcServer` | Lab4 clients (menu and script), server and calculations | `RowPartition` |
| `SessionHandover` | abstract: whose the buffers of a session are, and what is in them | - |
| `HttpServer` | Lab5 server and its pool | `TaskQueue`; instance of `SessionHandover` |
| `MCTaskQueue`, `MCBalancedPool`, `MCPoolDriver`, `MCCalcServer`, `MCHttpServer`, `MCForkJoin` | instances and bounds for TLC; `MCPoolDriver` chooses at the start between a pool that is stopped, one that is paused and stopped, and the program of Lab3, `MCForkJoin` between Lab1 and Lab2 | |
| `TaskQueueProofs`, `BalancedPoolProofs`, `PoolTasksProofs`, `PoolShutdownProofs`, `RowPartitionProofs`, `ForkJoinProofs`, `HttpServerProofs`, `CalcServerProofs` | theorems and proofs | `TaskQueue`, `RowPartition`, `HttpServer` and `CalcServer`: the module in the name; `HttpServerProofs` and `BalancedPoolProofs` also `TaskQueueProofs`; `PoolTasksProofs`: `BalancedPoolProofs` and `PoolAccounting`; `PoolShutdownProofs`: `PoolTasksProofs` and `PoolDriver`; `ForkJoinProofs`: `MCForkJoin` and `RowPartitionProofs`; `CalcServerProofs` also `RowPartitionProofs` |

### TaskQueue

The variables are the members of the class, one entry per queue. A critical
section is one step, because everything in it happens under the one mutex. What
happens outside the mutex is a step of its own: `push()` unlocks and then calls
`notify_one()`, so `Push` adds one to `owedOne[q]` and `NotifyOne` pays it back;
`resume()` and `NotifyAll` likewise with `owedAll`. `stop()` notifies under the
mutex, so `Stop` includes it. `at[w]` says where a worker is: "pop" (about to take
the mutex, or woken), "waiting" (blocked on the condition variable), "got"
(`pop()` returned true) or "exited" (`pop()` returned false and the loop broke).
Spurious wakeups are steps, never assumed.

`clear()` and the last `return false` of `pop()` (line 101) are covered: the second
cannot be reached, since the predicate holds and the queue is empty only if
stopped.

### BalancedPool

`gen`, `stopper` and `pauser` hold the local variables of the calls in progress;
one step is one access to shared state: the test of `stopFlag`, each load read by
`getLeastLoadedQueue()`, the `fetch_add`, the `push`, the `notify_one`, the counter;
in `stop()` the exchange, the stop of each queue, each `fetch_sub`, the joins. The
destructor is a call of `stop(true)`. Histories: `fate` says how far each task has
come, `leaked` which tasks were charged to a queue that had been stopped
(`addTask()` cannot tell that its push was refused). A task is handed in once.
Wait and processing times are not kept. `CompleteTask` merges the call of
`task.func()` with the increment after it: nothing else reads in between.

`TaskLifecycle` is the abstract specification: fresh, submitted, queued, running,
executed, or dropped, or refused. `ImplementsLifecycle` checks that `BalancedPool`
implements it under a mapping that reads the status of a task off the queues and
the workers.

### PoolDriver

The main thread of Lab3 goes through `testSolution()`: it clears `isTestRunning`
(`EndTest`; the clock decides when), calls `stop(false)`, joins the generators, reads the
two counters one after the other and destroys the pool. A generator tests the flag and
calls `addTask()` (`TestLoop`, `CallAddTask`), so it may be anywhere inside `addTask()` when
the pool stops. All other steps are those of `BalancedPool`. The pauses of the generators
are left out: they may take any time between two steps.

### CalcServer

A handler (`processConfig()` ...) holds the session's mutex from begin to end, so it
is one step, including its reply. A connection is two queues of messages; the
client's end and the server's end are open or closed. A matrix is the sequence of
its rows, and a row is "raw", "calculated" or "garbage". A calculation is created
with the thread count and size the session had (`ProcessStart`), begins its threads
(`BeginCalculate`), each of which goes through its block of `RowPartition`
(`CalculateRow`), and ends when all have been joined (`FinishCalculate`).

`SEND_CONFIG` or `START_PROCESSING` during a calculation replaces the matrix or the
`TaskHandler` that running threads use: undefined behaviour. `MarkUnsound` notes it
and from then on the calculation may leave "garbage" in any row it comes to, or end
the process (`Crash`). `Crash` also stands for a thread that cannot be created after
the first ones have been (the vector of unjoined threads is destroyed and
`std::terminate()` called). `HandleThrows` covers `bad_alloc` and a thread that cannot
be created inside a handler.

`acceptLoop()` has no handler of its own. Where the session, its entry in the list or its thread
cannot be had (`AcceptThrows`, `Server.cpp:80-99`) the exception leaves `start()`, and `~Server()`
calls `stop()` while other sessions and their calculations go on. `stopping` says how far it has
come: the listening socket is closed, with it every connection in its backlog, then each
session in the list loses its socket (`Disconnect`), and the list is cleared (`ClearClients`), all
under `clientsMutex`, so that `RemoveClient` has to wait. A session thread whose socket has been
closed finds it out at its next `recv()`; a session that was put into the list but not given a
thread (phase "accepted") goes with its entry. Then `main()` returns, and the process with all of
its threads is gone (`Exit`); until then they may still run.

The session object is destroyed with its last `shared_ptr`: `Destroy` happens in
`RemoveClient`, or at the end of the last calculation, whichever is later. Until
then its socket stays open.

A client runs the menu or the script; `client[c].next` says which. The menu
(`EventHandler::run()`) may make any call at any time when it is not blocked in
`recv()`: it may lose the server, keep its remembered size and connect again, leave
with END_SESSION, or be killed (`Vanish`; commands not read yet may be lost). The
script (`Client.py`) makes its calls in order, polls until DONE or ERROR, says END_SESSION
also after an exception (`Throws`), and may be started again. A server that has crashed may
be started again (`Start`); the session objects of the crashed one are gone. A thread count of zero leads
to a division by zero in `calculate()`: the calculation ends with ERROR or the process ends, but no row is calculated.

### HttpServer

`Start` begins to listen or gives up. `BuildSets` fills the two `fd_set`s in the order of
the list, the listening socket first, as far as FD_SETSIZE allows. One iteration of the
loop is `BuildSets`, `Select`, `Accept`, and for every session `Serve` (readData or writeData), for a
whole request `PushTask` and `NotifyWorker` (`addTask()`, which the loop runs itself), and `Expire`
(timeout and erase). `HandOver` names the two steps by which `readData()` gives a session away:
the state is stored first, then the task is pushed; a worker may have the session from the second on. Each is a step, so the workers
interleave with all of them. Requests are chunks: "end" ends one, "part" does not;
`recv()` returns any prefix of what has arrived, `send()` takes any number of pieces.
`expired[s]` is what `isTimedOut(10)` would return; `TimePasses` sets it at any time,
in every state, also PROCESSING. A worker prepares the response
(`PrepareResponse`, unless it is done the state is not changed) and then hands the
session back (`HandBack`). `SelectFails` leaves the loop, and the members of `Server` are
destroyed in the order the language prescribes: the pool (`stop(true)`, joins), then
the sessions.

`SessionHandover` is the abstract specification: a session is awaited, read by the loop,
submitted to the pool with a request, responded to, sent by the loop, read again or
destroyed, and nothing else. `ImplementsHandover` checks `HttpServer` against it under a
mapping that does not look at the state the code goes by: the owner is read off the
queue, the workers and the list of sessions, the contents off the buffers.

### RowWorkers and Reduction

`testSolutions()` makes one call of `parallelSolution()` after the other (`NextRowCall`,
`NextCall`), for each distribution or variant and each thread count. In a call the
calling thread creates threads
(`CreateRowThread`, `CreateThread`), which start at once, and joins them in order
(`JoinRowThread`, `JoinThread`).

In `RowWorkers` a row stands for its contents. `calculateRow()` subtracts the diagonal
element it is about to replace, so a second call spoils the row. A thread is the
position of its loop.

In `Reduction` a thread has the position of its loop, `localCount` and `localMin` (for an
unoptimized thread the hit it is publishing) and the values its compare-exchange loops
expect. The loads, the exchanges that succeed and those that fail are steps of their own;
a critical section is one step. A `compare_exchange_weak()` that fails spuriously reloads
the value it expected, which changes nothing. `CountedOf` and `MinimisedOf` say which
elements a thread's updates of the shared variables stand for; they are read off its
position, not recorded.

## Runs

| Run | Instance | Shows |
|---|---|---|
| `MCTaskQueue` | 1 queue, 3 workers, queue length at most 3, 2 owed notify_one, 1 owed notify_all | queue invariants, `WorkIsTaken`, `StopEndsWorkers` |
| `PoolStop` | 2 queues, 2 generators, 3 tasks of durations 3, 2, 1, one stop() | `LoadAccounting`, `StatisticsAddUp`, `JoinedMeansSettled`, `NoStartAfterDrop` |
| `PoolLive` | 2 queues; 2 generators, 2 tasks and one stop(), freely or in the program of Lab3; or 1 generator, 1 task, one pausing thread and two calls of stop(); 109 thousand states, 2 minutes | `EveryTaskSettles`, `ImplementsLifecycle`, `PauseFlagHonoured`, `StopReturns`, and of the program `ReportIsFinal`, `TestEnds` |
| `PoolPauseRace` | 2 queues, 1 task, two pausing threads, no stop() | violation: see Findings |
| `CalcSafety` | 1 client (menu or script), sizes 1 and 2, 0 or 3 threads asked for, 2 commands in flight, 2 calculations at a time; a second connection that is idle, so that the accept loop may throw while a session and a calculation of another live; 1.3 million states | replies fit requests, DONE means calculated, the script gets its own result, the socket outlives its uses until stop() comes to it |
| `CalcLive` | 1 client, 1 connection at a time, sizes 0 and 2, 0 or 2 threads, 2 commands in flight, 1 calculation at a time | requests are answered, calculations and scripts end, sockets are closed |
| `CalcResultRaw` | 1 client, 1 connection | violation: see Findings |
| `HttpSafety` | 2 clients with 2 requests between them, 2 workers, responses of 2 pieces, split requests; 1.5 million states, 2 to 3 minutes | ownership of the sessions, `SessionHandover`, nothing lost |
| `HttpLive` | 2 clients with 2 requests between them, split requests of one client, responses of 2 pieces, 1 worker, FD_SETSIZE 2: with both sessions reading, one is not in the set; 2 minutes | requests settle, sessions are reaped |
| `HttpDiscard` | 1 client, 1 worker | violation: see Findings |
| `HttpPipelining` | 1 client with 2 requests that does not wait for the first response, 1 worker | violation of `RequestsAccounted`: see Findings |
| `ForkJoin` | Lab1: 1, 2, 5 rows, calls with 1, 3, 2, 4 threads for both distributions; Lab2: vectors of 0, 2, 4 elements, calls with 2 and 3 threads for all four variants | both programs compute what `defaultSolution()` does, nothing is lost or repeated on the way, and they return |

Every property of a passing run has a mutant next to the definition it changes
(a comment "Mutant:" says what is wrong with it): with the mutant in place of the
definition TLC finds the property violated.

### Bounds and why they are enough

- `MCTaskQueue`: three workers and three tasks let one notification meet two waiters
  and two notifications meet one; the theorems below hold for any number. The bounds
  `MaxQueued`, `MaxOwed`, `MaxResumes` are guards on the callers. The steps under
  fairness lower the bounded quantities, so no bound disables them.
- `BalancedPool`: two queues are the least for a stop() that has closed one and not
  the other and for a choice of the least loaded one; `INT_MAX` only has to be above
  every load. `PoolLive` chooses among three behaviours at the start: the program of Lab3; a pool
  that one thread stops, with true, while two generators hand in a task each (`OnlyStopped`); a
  pool that one thread pauses and resumes and two threads stop while one generator hands in one
  task (`OneTask`). The bounds keep callers from calling, not a call from going on.
- `CalcServer`: `MaxInFlight` commands not read yet, `Slots` calculations of a session at
  a time; a connection is used again once both ends are closed and its calculations have
  ended, so a client reconnects any number of times. Three threads asked for on one or two rows
  exercise the clamp, none the division by zero. One client
  is enough for the safety properties, which relate one session to its client:
  sessions share only the list `clients`, the process and the accept loop. That one is what a second
  connection is for in `CalcSafety`: its accept may throw while the first session and its
  calculation live, whose sockets stop() closes. `SecondIsIdle` keeps the instance small: while
  there is a second connection it sends nothing, and the first has lost its client,
  nothing left to read, one row at most and one calculation. That stop() closes the socket of a
  session whose client waits for a reply is thus not in the run with two connections; that an
  accept throws with clients waiting in the backlog is in `CalcLive`, and the theorems
  (`SocketOutlives`, `NobodyWaitsInVain`) have all of it for any number of each.
- `HttpServer`: each connection is used once. In `HttpSafety` and `HttpLive` two requests are sent
  between the clients, both over one connection that is kept, or one over each (`RequestsBound`); in
  `HttpLive` only one of the clients splits its requests (`PartsBound`). Under `LiveSpec` these
  are bounds on what clients do, who have no fairness. Two
  sessions let erase() move one while the loop is at the other; two workers let one
  finish while the other has a session. FD_SETSIZE is 2048 in the code: 2 lets two
  sessions meet the limit, 8 is out of reach.
- `PoolDriver`: a generator goes on as long as a task is left that nobody is about to hand in.
- `ForkJoin`: 5 rows have a remainder for 2, 3 and 4 threads, 1 and 2 rows need the clamp.
  Two elements per thread let an unoptimized thread publish twice, three threads let an
  exchange fail twice, two elements for three threads give empty blocks; -42 itself is
  not a hit, and two different hits are enough for a minimum to be improved upon.

Symmetry is used only in runs without liveness (generators in `PoolStop`, sessions and
workers in `HttpSafety`). `CHECK_DEADLOCK FALSE` stands where the system may really
stop: a stopped pool, clients that have all left, a server that has ended.

### Fairness

Weak fairness for threads that can take a step: a caller that has unlocked a mutex
sends its notification, a worker that is not blocked goes on and its task ends, a
call of stop() or pause() goes on once begun, the accept loop, the session threads,
the select() loop, the script of the Python client and the program of Lab3 run, whose
clock reaches the end of the test. Nobody has to call anything, no wakeup has to be
spurious, no client has to send or read. In `HttpServer` time passes, so a timeout
comes. In `ForkJoin` it is enough that some thread that can go on does: the retry loops
are lock-free, and a spurious failure for ever is excluded. In `CalcServer` a client
blocked in `recv()` goes on when there is something to receive, nobody has to start the
server, and the fairness of the calculation threads is a premise of the
three properties that need it, so that `RequestsAnswered` is shown without it: a
calculation never keeps the session's thread from answering.

## Findings

- `PoolPauseRace`: `pause()` and `resume()` exchange `pauseFlag` and then walk the queues
  without a lock (`ThreadPool.cpp:95-113`). Two overlapping calls leave a pool whose
  flag says one thing and whose queues do another; a later `resume()` returns early, and only a
  `pause()` before it puts that right.
  The report of Lab3 says there are no race conditions (paragraph 665).
- `CalcResultRaw`: a session is DONE before any calculation (`ClientHandler.cpp:8, 88`),
  so `GET_RESULT` may return the matrix as it was sent; the report of Lab4 says the
  reply holds the calculated matrix (paragraphs 98-99).
- `HttpDiscard`: the ten seconds run on during PROCESSING, and a session that becomes
  SENDING is tested for the timeout before `select()` has reported it writable
  (`Server/Server.cpp:138-148`): a response ready after more than ten seconds is thrown
  away. The report of Lab5 says the loop sees SENDING and calls `writeData()`
  (paragraph 51).

- `HttpPipelining`: `readData()` may read the next request together with the end of one that is
  being answered, and `reset()` clears both (`ClientSession.cpp:46`). The report of Lab5 says
  the server follows HTTP 1.1 (paragraph 36), which lets a client pipeline and has each request
  answered. For clients that wait for each response `RequestsAccounted` holds: the run
  `HttpSafety` checks it where a connection carries two requests, and a theorem proves it.

## Proofs

All theorems hold for every value of the constants that satisfies the named
assumptions: `QueueOf` maps workers to queues, there are finitely many workers,
`NoTask` is not a task; for the pool, queues are `0 .. QueuesNum-1`, one worker each,
durations are positive; for the HTTP server, there is one queue and at least one worker
(`ThreadPool.cpp` of Lab5, 3-16), tasks are sessions, a response is not empty; for Lab1 and
Lab2, there is at least one call, every thread count is at least one, a matrix has at least one
row, and the elements of a vector are integers below `INT_MAX`; for Lab4, the menu accepts
natural numbers as sizes and thread counts, zero included, the script's own are positive, and
`NoSession` is not a session. The sets of generators, tasks, sessions and clients may be
infinite: where a property counts, its invariant says that what has come so far is finite.

- `TaskQueueProofs`. `QueueTypeCorrect`. `StopReleasesWaitersHolds` and
  `ExitedMeansDrainedHolds` are inductive with the type invariant.
  `NoLostWakeupHolds`: the invariant compares the queue length with the notifications
  owed plus the workers on their way into `pop()`, by a case for each action; the
  lemmas `PopperEnters` and `PopperLeaves` say how the cardinality of that set changes.
  It needs `StopReleasesWaiters` for nothing but its guard: a stopped queue is exempt.

  `StopConvergesHolds` is the safety half of `StopEndsWorkers`. `StepsLeft(q)` counts the steps
  the workers of a stopped queue still have to take: one out of each `pop()` in progress, two
  for each task queued or in hand. No step of any thread raises it, a late `push()`, `pause()`
  or `resume()` included, each step of a worker lowers it, and at zero all of them have ended.
  What is left to fairness is only that a worker which can take a step takes it.
- `BalancedPoolProofs`. `PoolInv` strengthens the type invariant: a call in progress has
  an index within the queues and a task, a worker that is counted holds a task.
  `PoolTypeCorrect` follows. `PoolImplementsTaskQueue`: every step of the pool is a step
  of `TaskQueue` or leaves the queues alone. `NoStartAfterDropHolds` uses `ShutdownInv`:
  one call of stop() wins, queues are stopped by it, and a queue it stopped without
  finishing is empty.
- `PoolTasksProofs` is about the tasks and the counters. `TaskLocatedHolds`: a submitted task is
  with a generator before its push, in a queue, or with a worker. What the other theorems need is
  that it is in one of these places only. Most of the
  twenty-odd actions of the pool do nothing to a task and the rest do one of eight things to it;
  `PoolStepIsTaskStep` says so once, and `OnceInv` is shown inductive along those eight:
  the task of a call before its push is nowhere else, a queued task has one position in one
  queue, a running one has one worker, and the `fate` of all of these is "submitted".
  `ImplementsLifecycleHolds` maps each of the eight to a step of `TaskLifecycle`, or to none.
  `StatisticsAddUpHolds` follows the cardinalities of the sets the counters stand for;
  `StatisticsInv` adds that these sets are finite.

  `LoadAccountingHolds` does the same with the charges: `ChargeStep` lists the six things a step
  may do to them, and a charge may outlive the task it was for, so the invariant needs more
  than `OnceInv`. `ChargeInv` says that a worker which has counted its task holds an executed
  one, and that what stop() has still to subtract was dropped, each task once; and only the
  winner of `ShutdownInv` has anything to subtract. So the parts of `Charged(q)` are disjoint and
  a step adds or removes one task and its duration, or passes a task on (`ChargesAndLoadMove`).
  `LoadsNeverNegative` follows: the queue with the least load, which `addTask()` looks for
  without a lock, has a real load.
- `PoolShutdownProofs` is about `stop()`, `pause()` and the program around the pool.
  `PoolQueuesSound` carries the queue theorems over to the pool. `StopLoopInv` says which queues
  the loop of `stop()` has been through and that they stay stopped, so that at the joins all are
  stopped and nobody sleeps (`JoinsAreReleased`); with `PoolStopConverges`, the variant of the
  queues in the pool, this is the safety half of `StopReturns`.
  `JoinedMeansSettledHolds`: `TaskLocated`, `JoinedInv` (what stop() has joined stays
  ended) and `ExitedMeansDrained` give the property. `LoadsAfterStopHolds` adds
  `LoadAccounting`: what is left of a load then is the charges of calls before their push and of
  refused tasks, which nobody gives back.

  `DriverUsesPool`: the program of Lab3 is a pool with particular callers, so all of the above
  holds in it. For `ReportIsFinalHolds`, `DriverInv` says what the main
  thread has read, and that when it reads stop() has returned and the generators have left
  their loops; then no thread has a step left (`NothingMovesAfterJoin`), which is why the two
  counters, read one after the other, still fit together and `StatisticsAddUp` settles the rest.
  `OnlyLeaksRemain` says the same of the loads: the charges of the refused tasks remain.

  `PauseFlagHonouredHolds` has a premise, that the calls of pause() and resume() do not
  overlap (`OneController`): without it the property is false, as the run `PoolPauseRace`
  shows. `PauseInv` says how far the one call in progress has come along the queues. Calls of
  stop() may come in at any time, and the property goes on to speak of the queues they have not
  come to; a stopped queue ends whatever its flag says.
- `RowPartitionProofs`. With size \div threads rows to a block and the rest in the last one,
  the blocks of the threads are disjoint and cover all rows, whatever the remainder, also
  with more threads than rows; and two members of a stride that differ are at least the
  stride apart.
- `ForkJoinProofs`, Lab1. `RowInv` says where each thread stands in its own rows and that a row
  which is raw is ahead of exactly one thread. The invariant needs the partition to tell
  that no other thread is ahead of a row when one calculates it. `RowsAccountedHolds` and
  `MatrixIsReferenceHolds` follow: when all threads have been joined nobody is ahead of any row.
- `ForkJoinProofs`, Lab2. `ReductionInv` says of every place a thread can be at what its
  `localCount`, `localMin`, expected values and position mean for its block: which elements it
  has looked at, and which of those it has published in the count and in the minimum. Every
  step of a thread either leaves the shared variables alone or publishes hits of its block
  that were not published before (`Changes`), and since blocks are disjoint the count grows
  by their number. An exchange succeeds only on the value loaded, so the new value is right
  whatever happened between. At the end every thread has published its whole block, and the
  blocks are the vector.

  `ForkJoinIsBoth` shows that the composition which the run checks is both specifications at once.
  `ForkJoinTypeCorrect` and `ForkJoinCorrect` state its type invariant and its results.
- `HttpServerProofs`. `HttpInv` has, beside types and the queue invariants, for every session
  `OneTask` (PROCESSING and one task, about to be pushed, queued or held, or another state and none) and
  `ContentOK` (its buffers hold what its state says; within PROCESSING the worker's
  `responded` tells whether the response is there). One lemma per step shows that the session
  it deals with stays so and moves along an edge of `SessionHandover`, and that the others are
  left alone (`Kept`: their tasks may move up in the queue). The teardown needs
  `ExitedMeansDrained` from `TaskQueueProofs`: when the workers have been joined no task is
  left, so no session destroyed is PROCESSING. `ProcessingOwnsSessionHolds` and
  `ImplementsHandoverHolds` follow, the latter because owner and contents, as read off the
  queue, the list and the buffers, are what the state says (`HandIsHeld`).

  `ServerImplementsTaskQueue` and `ServerQueueSound` carry the theorems about the task queue
  over to the one queue that all workers of the server share, and `ServerStopConverges` that its
  workers end. `TeardownIsSafe` is about the order in which `~Server()` goes: the
  pool is stopped before it is joined and joined before the sessions go. It needs `TornDown`, which
  says how far it has come, `HttpInv` for the sessions, and both queue theorems.

  `RequestsAccountedHolds` has the premise `~Pipelining`, as the property does (see Findings).
  `AccountOK` says that a client is at most one request ahead of its answers and that a session in
  PROCESSING or SENDING has a whole request in its buffer: so there is nothing behind it that
  `reset()` could clear. The lemmas on `Ends`, a count of the ends in a sequence of chunks, say that
  no request is lost when `recv()` moves any part of what has arrived.
- `CalcServerProofs`. Two invariants are behind its theorems, proved together. `HoldInv` is about who
  may use a session, from the backlog to its last `shared_ptr`, and what stop() has done to it
  (`Holding`): an open socket has a session or a calculation, a closed one has neither, or stop() is
  about to clear the list it is in, or has done so. Beside types `CalcInv` has three
  parts. `SessionsOK` relates a connection, its session and its calculations: that nothing is
  sent behind a request (`OneRequest`), that each thread of a calculation is within its block (`BlocksOK`), and for a
  session that sends neither a configuration nor a start during a calculation (`Orderly`), that
  there is one calculation, that the rows its threads have passed are calculated, and that
  DONE after a start means all are. `ClientsOK` relates a client to what it has sent and
  the session has not read: the size it remembers is the one the session will have when
  it comes to the request (`SizeFits`), the reply on its way is the one it waits for, and for
  the script the commands under way are exactly a rest of its own sequence, in order
  (`ScriptOK`). `Exclusive` says that two clients never share a connection, without which a step
  of one could undo what holds for the other. Every action is then dealt with in a lemma
  about the one session and the one client it changes. `DoneIsCalculated` rests on
  `RowPartitionProofs`: the blocks of the threads cover the matrix, so when all have come to
  the end of their block no row is left. A crash resets sessions and leaves clients as they are,
  and undefined behaviour is a choice in the model, so the theorems hold through both.

  Two theorems are the safety halves of liveness properties. `NobodyWaitsInVain`
  (`RequestsAnswered`): when a client is blocked in `recv()`, its reply is there, or a session that
  reads has its request, or the session is held by its thread on the way to `removeClient()` or by a
  calculation, whose end closes the socket, or it is closed, or it was accepted without
  getting a thread and goes with the process that is about to end. It needs `Attended`: as long
  as a session lives, a request it has read is answered, also where an exception ends the handler.
  `SocketsAreOwned` (`SocketsAreClosed`), which follows from `HoldInv`: a socket is open only while its server runs and a
  thread or a calculation holds the session.

Every safety property that a passing run checks is thus proved for every instance. Only model-checked:
the liveness properties (`WorkIsTaken`,
`StopEndsWorkers`, `EveryTaskSettles`, `StopReturns`, `TestEnds`, `RequestsAnswered`,
`CalculationEnds`, `ScriptEnds`, `SocketsAreClosed`, `RequestsSettle`, `SessionsAreReaped`,
`CallsReturn`). Liveness, ENABLED and induction over recursive definitions are outside
what the proof system used here supports; where a liveness property rests on a state or a
variant that safety can speak of, the theorems named its safety half above state that much for
every instance.

## Not modelled

- Windows sockets as such: the calls that set up a listening socket (their success or
  failure is `Start`), partial headers, byte order, `WSAEWOULDBLOCK` on a socket reported
  ready.
- Times: the pool's statistics in milliseconds, the pauses of generators and clients; ten
  seconds are a flag.
- Widths: the 32-bit sizes in the Lab4 protocol, which wrap from 32768 rows on.
- The flags of the Lab5 pool around `pause()`, `resume()` and `stop(false)`, which its server
  never calls; what they do to the queue is in `TaskQueue`.
- A client of Lab4 that does not read the reply it has asked for: the clients of the
  repository do.
- Memory that cannot be had in Lab5: in the loop the exception leaves `start()` and the server is
  torn down as after a `select()` that fails; in a worker it ends the process.
- In Lab1 and Lab2 a thread that cannot be created: the process ends.
- Printing, menus, plots, random matrices, contents of pages.

## Plan

Done: every component that keeps state, its properties, the theorems about every safety property
of every component, and the refinements.

1. The flags of the Lab5 pool around `pause()` and `stop(false)`, should its server come to use
   them.
2. Variants, as `StopConverges` has one, for the calculations of Lab4 and the sessions of Lab5.
