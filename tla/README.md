# TLA+ models of NuttX

This directory holds TLA+ models of the parts of NuttX in which tasks, interrupt
handlers and timers meet: the scheduler and task control (`src/nuttx/sched`, with
the context-switch entry points of `src/nuttx/arch/arm/src/armv7-m`), the watchdog
timers, the semaphores, the message queues, the memory manager (`src/nuttx/mm`) and
TCP with its socket calls (`src/nuttx/net`). With them come the TLC configurations
that check them on small instances, and TLAPS proofs about the scheduler with task
control, the watchdogs, the semaphores and the message queues for any number of tasks,
any workload and any priorities.

The configuration modelled is the committed one: a single Cortex-M4, round robin
enabled, `CONFIG_PRIORITY_INHERITANCE` off, `CONFIG_SCHED_WAITPID` on, `ASSERT`
and `PANIC` active. For the network, which that configuration leaves out, read-ahead
buffers and socket options are on, as in the network examples, and IPv6 and backlogs
are off.

## 1. Inventory

| Component | State | Operations | Interacts with |
|---|---|---|---|
| Task lists (`lib/queue`, `sched_addprioritized`) | doubly linked lists of TCBs | `dq_rem`, `dq_addfirst`, `dq_addlast`, ordered insertion | every list below |
| Scheduler core (`sched_*.c`, `up_*.c`) | `g_readytorun`, `g_pendingtasks`, the blocked lists, `task_state`, `sched_priority`, `lockcount`, `timeslice`, round-robin flag | add, remove, merge, block, unblock, reprioritise, lock, unlock, time slice | called by every blocking and waking service; by the timer interrupt |
| Scheduling calls (`sched_yield`, `sched_setparam`, `sched_setscheduler`) | none of their own | the calls | scheduler core |
| Task creation and exit (`task_create`, `task_setup`, `task_activate`, `exit`, `task_deletecurrent`) | `g_pidhash`, `g_inactivetasks`, the TCBs | create, activate, exit | scheduler core |
| Task control (`task_delete`, `task_restart`) | the same | delete or restart another task | scheduler core, creation |
| Semaphores (`sem_*.c`) | `semcount`, `waitsem` | wait, trywait, timedwait, post, destroy | block and unblock tasks; interrupt handlers post |
| Priority inheritance (`sem_holder.c`, not configured) | holders of each semaphore, boosted priorities | add and release holders, boost, restore | semaphores, `sched_setpriority` |
| Watchdogs (`wd_*.c`) | the delta list `g_wdactivelist` | start, cancel, delete, tick | timer interrupt; call-backs wake tasks |
| Message queues (`mq_*.c`) | messages, the shared message pool, two waiter counts | send, receive, timed forms, notify; a handler may send | block and unblock, watchdogs, signals |
| Memory manager (`mm_*.c`, `sched_free`, `sched_garbage`) | the headers in the heap, the lists of free nodes, `g_delayeddeallocations` | initialize, malloc, free, realloc, memalign, delayed free | a mutex between tasks; the worker thread |
| TCP (`net/uip/uip_tcp*.c`, `connect`, `accept`, `send`, `recvfrom`, `net_close`) | the connection, the callback of the waiting call, the read-ahead buffers, the socket flags | input, timer, poll; connect, accept, send, recv, close | the driver calls it with interrupts disabled; calls wait on semaphores |
| `waitpid` | `exitsem`, `stat_loc` | wait, exit hook | semaphores, exit |
| Signals (`sig_*.c`) | pending, blocked and posted actions of each TCB | queue, dispatch, deliver, wait | unblock; interrupt other waits |
| Pthreads, POSIX timers, clock, work queue, paging | built on the above | | |
| UDP, IGMP, ICMP, ARP, routing of sockets; file systems, drivers, loaders, graphics, applications | their own | | semaphores |

What is hard here, and what the properties are for:

* Every step of a task can be interrupted, and an interrupt handler that wakes a
  task may take the CPU away on its return. Two mechanisms protect a call:
  `irqsave` (no interrupt) and `sched_lock` (no other task, but interrupts come
  and the tasks they wake collect in `g_pendingtasks`).
* A lock ends in four ways: `sched_unlock`, blocking, exiting, and a change of the
  holder's own priority that switches tasks. Each has to release the pending tasks.
* A task's priority, policy or existence can be changed by another task while the
  task is ready, pending, blocked, inactive or half way through a call.
* A watchdog's function runs in the timer interrupt, in the middle of the walk along
  the list that it may itself change; each entry of the list holds only the
  difference to the one before.
* A wait for a semaphore can end by a post, a signal or a timeout, and the task
  learns which one from `errno` only when it runs again. The waiters of all
  semaphores share one list, and the count is kept apart from it.
* A message queue call holds `sched_lock`, so that interrupts come between its
  sections (handlers that send, signals and timeouts), but no other task, with one
  exception: a sender that finds `g_msgfree` empty goes to the heap and may wait for its
  mutex, and then others make calls on the same queue. A woken receiver or sender runs
  later and may find that another task was quicker.
* `task_delete` calls the exit hook of the task with `sched_lock` held, and the hook may
  wait: flushing streams takes semaphores, and closing a driver may take long. Other
  tasks run meanwhile, the one being deleted among them.
* The heap keeps sizes in headers between the blocks; a wrong size is met by a later
  call of another task. `realloc` and `memalign` release the mutex half way.
* Segments are lost and repeated, and a call, the timer and the input of the two ends
  change the same connection in any order. An acknowledgement is interpreted by code
  (`uip_tcpinput`, then `send_interrupt`) that counts in different ways.

`PROJECT.json` lists these hazards at the lines where they bite, with the
properties that watch over them.

## 2. Modules

| Module | Models |
|---|---|
| `TaskList` | the task lists as sequences: position 1 is the head; `sched_addprioritized` and its search loop |
| `SchedOps` | the scheduler's internal operations, each an operator from a scheduler state to the state it leaves |
| `Scheduler` | tasks making calls, interrupts waking tasks, clock ticks; the properties |
| `TaskControl` | `task_delete` and `task_restart` added to `Scheduler` |
| `WdOps` | the watchdog operations on the delta list, each an operator from a watchdog state to the state it leaves |
| `Watchdog` | tasks, interrupt handlers and watchdog functions that use them, and the timer interrupt; the properties |
| `Timers` | abstract: what watchdogs promise, as independent countdowns |
| `Semaphore` | `sem_wait`, `sem_trywait`, `sem_timedwait`, `sem_post`, `sem_waitirq` and `sem_timeout`, on `Scheduler` and `WdOps`; the properties |
| `CountingSem` | abstract: what semaphores promise, with no scheduler, no shared list and no `errno` |
| `MessageQueue` | `mq_send`, `mq_receive`, their timed forms, sends from handlers, `mq_waitirq` and the timeouts, on `SchedOps` and `WdOps`; the properties |
| `PriorityQueue` | abstract: what a message queue promises, one first-in first-out queue per priority |
| `Heap` | the memory manager with its headers, and the delayed deallocations; the properties |
| `Allocator` | abstract: what the heap promises, blocks without addresses |
| `Tcp` | both ends of a connection, the socket calls and a network that loses and repeats; the properties |
| `Streams` | abstract: what a connection promises, two streams of bytes |
| `MCScheduler`, `MCTaskControl`, `MCWatchdog`, `MCSemaphore`, `MCMessageQueue`, `MCHeap`, `MCTcp` | the instances TLC checks |
| `TaskListProofs`, `SchedOpsProofs`, `SchedulerProofs` (with `TaskControl`), `WdOpsProofs`, `WatchdogProofs`, `SemaphoreProofs`, `MessageQueueProofs`, `HeapProofs` | theorems, bottom up |

A scheduler state is one record (`SchedStates`): the lists, the TCB fields as
functions on `Tasks`, `g_pidhash` as the set of tasks that `sched_gettcb` finds,
and `panic`, the PANICs and failed ASSERTs met. The operators of `SchedOps` have
the names of the C functions; a function that returns whether the head of
`g_readytorun` changed needs no result, since `Running(s)` says so. The register
save and restore of a context switch is not modelled: the CPU runs the head of
`g_readytorun`.

`Scheduler` has two variables: `s`, the scheduler state, and `pc`, which tells for
each task how far it is in the system call it makes, which TCB the call is about
and with what arguments. A step is a stretch of code under `irqsave`, or between
two such stretches where nothing shared is touched. So `sched_setscheduler` is
five steps (look up, lock, policy, priority, unlock), `task_create` five
(`task_assignpid` with its lock, its unlock, `task_schedsetup` with its lock, its
unlock, `task_activate`), and `exit` one (interrupts are off throughout). `Workload`
names the calls that each task's program may make; it makes them in any order.
`Block` and `Unblock` stand for every service that ends in `up_block_task` or
`up_unblock_task`; `Unblock` may come at any moment, as from an interrupt handler.
After a PANIC nothing moves.

`TaskControl` cuts `task_delete` into the lock, the look-up with its check, the exit
hook, the removal from the list, the unlock and the release. The hook is modelled as what
it does to scheduling: the caller may wait in it any number of times (`ExitHookBlocks`)
if the task deleted is one of `SlowToClose`, those with streams or files whose closing
may wait. The removal uses the state that the task has by then, and an INVALID one names
no list. `task_create` does not reuse a task under such a hook (`AssignPid`): pids count
up, so its pid is not given again, and if it has ended by itself and its TCB is freed,
what the code then reads from the freed TCB is taken to be TSTATE_TASK_INVALID. A task's
own exit hook comes before `_exit` and is a `Block` of
its program.

`Watchdog` has the watchdog state `g` and `isr`, the place where `wd_timer` is: not
running, in its loop, or in the function of an expired watchdog. The `wd_` calls
keep interrupts disabled and are one step each; a function may make any number of
them before it returns to the loop.

`Semaphore` composes the scheduler and the watchdogs. It adds the counts, the
`waitsem` and `pterrno` of each TCB, how far each task is in its semaphore call
(`sc`), and the pid that each watchdog passes to `sem_timeout`. `sem_wait` is one
step up to the context switch and another when the task runs again; `sem_timedwait`
is four: `wd_create`, the attempt with interrupts disabled, the return from the wait
with `wd_cancel`, and `wd_delete`. Posts and signals may come at any moment.
Deleting or restarting a task in the middle of a wait breaks the count (section 3,
"Disagreements"), so those two calls are left to `TaskControl`.

`MessageQueue` composes the scheduler's operations and the watchdogs. A message is
its priority and its sender; `nmsgs` is the length of the list. The calls are cut
where interrupts are enabled: `mq_send` is the lock and the wait, `mq_msgalloc` from the
list or from the heap, the insertion, the wakeup and the unlock; a receive is the wait,
the release of the message and the wakeup; the timed forms add `wd_create` and
`wd_delete`. `free` has the numbers of messages in `g_msgfree`, `g_msgfreeirq` and of
those the heap has room for. On its way to the heap a task of `HeapWaiters` may wait for
the mutex of `mm_sem.c` (`HeapBlocks`) and goes on when that is given to it or a signal
comes (`HeapFreed`). Who holds the mutex meanwhile is left open: any task may, in any
call of the memory manager. A message freed has its room in the heap back at once, though
`sched_free` leaves it to the idle loop while the mutex is taken. A watchdog's `parm` is the pid and the state its function looks for.

`Heap` has memory as an array of words of 8 bytes, which is the size of an allocated
node; a free node and the granule are two words. Headers are words of that array, so
that an overrun of a block, or a node in too small a chunk, destroys a header as in
the code. A section that holds the mutex is one step; what `malloc`, `realloc` and
`memalign` do between their sections can be interleaved with the calls of others.

`Tcp` has one record per end: the `uip_conn`, the socket and the call that the
program waits in. `uip_tcpinput`, `uip_tcptimer` and `uip_tcppoll` run with interrupts
disabled and are one step each, with every callback they make; a call is one step up
to its wait and another when its program runs again. Bytes are numbered, which makes
a repeated or a missing one visible. Time is left out: the timer of a connection may
be over at any moment, and so may the short time for which a `recv` that has some
data waits for more.

Definitions whose names end in `_Something` next to an operation (for instance
`sched_unlock_NoRelease`) are variants of that operation with a plausible mistake.
Substituting one for the operation must break the property it is paired with in
`PROJECT.json`, which shows that the property has force.

## 3. Properties and runs

| Run | What it shows |
|---|---|
| `core` | Three tasks that lock, yield, set priorities (0 among them, which must be refused), block, exit, and delete and restart others in every state they can be in; the exit hook of one of them waits in the middle of its deletion; several tasks are merged at once, at the head and in the middle. All invariants of the scheduler and the three action properties. |
| `policy` | Two tasks set the policy and priority of each other and of themselves while time slices end; one of them also exits with pre-emption locked and the other one pending. |
| `round_robin` | Three round-robin tasks of one priority: each ready task eventually runs (liveness). |
| `watchdog` | Three watchdogs created, started, restarted, cancelled and deleted from outside and from inside `wd_timer`: the list invariants, the refinement of `Timers`, and two liveness properties. |
| `semaphore` | Two tasks wait for two semaphores, with posts and signals at any moment, while a third changes their priorities. |
| `timed_wait` | Timed and plain waits for one semaphore with two watchdogs: posts, signals and timeouts race. |
| `heap` | Three users and the collector allocate, align, resize and free: headers, lists and owners agree, `malloc` finds a smallest chunk that fits, and the refinement of `Allocator`. |
| `mqueue` | Three tasks of three priorities send and receive with every kind of call while handlers send, signals come and timeouts expire: counts, wakeups, how far a queue is overfilled by senders that wait for the heap, and the refinement of `PriorityQueue`. |
| `tcp` | A client and a server connect, send, receive and close over a network that loses and repeats segments: acknowledgements, sends that wait, and the refinement of `Streams`. |
| `heap_sliver`, `mq_timeout`, `tcp_greeting` | Three places where the code does not do what its comments or headers say; TLC finds the behaviour. |

The properties, in `Scheduler` unless noted:

* `TypeOK`; `ListsConsistent` (a task is linked once, in the list its state names);
  `ListsSorted`; `IdleLast`; `OneRunning`; `PendingOnlyWhileLocked`.
* `HighestPriorityRuns`: with pre-emption enabled, no task that could run has a
  higher priority than the one that runs.
* `ExclusiveCalls`: from its `sched_lock` to its `sched_unlock` a call that works on
  another task's TCB has the CPU to itself. `task_delete` has it up to the exit hook of
  the task, and during the hook only if closing the task's files cannot wait.
* `NoPanic`: no ASSERT fails and no PANIC is reached.
* `LockKeepsCPU`: only a step of its own takes the CPU from a task that has
  pre-emption locked.
* `FifoWithinPriority`: among ready tasks of equal priority the one ahead stays
  ahead unless it yields, is given a priority, or its time slice is over.
* `RoundRobinTurns` (`MCScheduler`); `RestartReinitializes` (`TaskControl`).

In `Watchdog`:

* `MarkedIsLinked`: the `active` mark, which is all that the calls look at, agrees
  with the two lists.
* `LagsAreCounts`: no lag is ever negative, and nothing is due outside the interrupt.
* `OwnCountdown`: the delta list implements `Timers`. The mapping takes the ticks
  left to a watchdog from `wd_gettime`, the sum of the lags up to its entry; so an
  insertion, a cancellation or an expiry never shifts another timer.
* `InterruptEnds` and `ExpiresUnlessRestarted`, under fairness.

In `Semaphore`:

* `CountIsWaiters`: a negative count is the number of tasks waiting for this
  semaphore, and nobody waits while a count is available.
* `CountsKept`: the semaphores implement `CountingSem`. The mapping shows a task as
  waiting while it is in the list, and afterwards as granted or failed according to
  `errno`; a call that took a count reports success and one that did not reports
  failure, whichever event ended the wait and whatever came after it.
* `PostWakesHighest`: the waiter a post wakes has the highest priority among those of
  that semaphore, as they are then.
* `TimeoutIsOwn`: a watchdog in use belongs to one timed wait and counts only during
  that wait; none is lost from the pool.
* `TimedWaitEnds`, under fairness.

In `Heap`:

* `ListsMatchChunks`: the walk from header to header covers the heap, every chunk
  knows the size of the one before it, and the free lists hold exactly the free
  chunks, each in the list of its size and in order.
* `EveryChunkHeldOnce`: an allocated chunk is in exactly one hand: a user's, a call's
  between two of its sections, or the queue of delayed deallocations.
* `FindsBest`: the search of `malloc` finds a smallest free chunk that fits, and fails
  only if there is none.
* `BlocksKept`: the heap implements `Allocator`. The mapping reads each user's block
  from memory at the pointer it was given.

In `MessageQueue`:

* `WaitersCounted`: `nwaitnotempty` and `nwaitnotfull` are the numbers of tasks that
  wait for this queue, and `msgwaitq` is set for exactly the tasks that wait.
* `NoLostWakeup`: while receivers wait, every message in the queue has a receiver that
  was woken for it or a sender about to wake one; likewise for waiting senders and
  free places.
* `NeverOverfilled`: a sender that took its message from `g_msgfree` still finds room
  among the tasks' messages when it inserts. One that waited for the heap does not look
  again, and the tasks' messages then exceed `maxmsgs`, by less than the number of tasks
  that send. (Handlers do not look at all, and their messages are not counted.)
* `MessagesInOrder`: the queues implement `PriorityQueue`.

In `Tcp`:

* `StreamsKept`: the two ends implement `Streams`. The mapping takes the bytes an end
  holds from its read-ahead buffers and from the `recv` in progress. It holds under
  `ReadAheadAssumption`: a read-ahead buffer has room for a packet (see "Disagreements").
* `AckedMeansTaken`: what `send` counts as acknowledged the peer has taken over, unless
  it has closed.
* `SendNotStuck`: a `send` that waits on a connection that is up has bytes for the next
  poll to send, or a retransmission timer that runs. It stands for "a send ends",
  which TLC cannot check on this model in reasonable time, and is stated for numbers
  that do not wrap (see below).

### Bounds

Two or three tasks besides the idle task: an overtaking or a merge of several
pending tasks needs a running task and two others. Priorities 1 and 2 at creation
and up to 3 later give every order of priorities. `TimeSlice = 2` has a tick that
counts down and one that ends the slice. `MaxNest` bounds how deep programs nest
`sched_lock`; one level is enough to hold tasks back, and calls add their own. In `core`
one of the three tasks is slow to close; with it the run has 413,000 states. One wait
state is used: the four lists behave alike except for `g_waitingforsignal`,
which is not prioritized, and the proofs cover all of them.

Three watchdogs and the delays -1 to 3: a list of three has a head, a middle and a
tail, the delays tie with others already on their way, and -1 is refused. Two
watchdogs for the timed waits of two tasks, with timeouts that are invalid, over,
and one or two ticks ahead. Two semaphores share the wait list in `semaphore`; they
are alike, and symmetry is used there because that run checks no liveness.
`MaxCount` bounds the counts that posts pile up. Three tasks in `semaphore` and two
in `timed_wait`, started at two priorities. A restarted task keeps its lock count;
`MaxNest` bounds that as well, since the count would otherwise grow with every
restart.

The heap has 14 words, which is a chunk for each of three users and a free chunk on
either side of one of them; two lists of free nodes, so that the search of `malloc`
goes on in the second; requests for 1, 2 and 4 words, which give chunks of 2, 4 and 6;
an alignment twice the granule; one delayed block. Users are alike (symmetry; no
liveness is checked). In `heap` the programs align or resize but not both, because
doing both leads to the disagreement of `heap_sliver`.

The message queue run has one queue with room for one message, one message in
`g_msgfree`, none in the handlers' own list and one in the heap: both run dry, a message
from the heap goes back to it, and tasks wait on both sides. The task of the highest
priority waits for the heap, so that the two others send and receive meanwhile. One
watchdog for two tasks with timed calls makes `wd_create` fail; timeouts are over at
once or one tick ahead; one task uses `O_NONBLOCK`. `CHECK_DEADLOCK FALSE`: a PANIC
stops the system.

The connection carries three bytes one way, in segments of two and one, and one back,
through one read-ahead buffer of two bytes, with one segment under way to the client
and two to the server, and one retransmission before an end gives up. The server reads
one or two bytes at a time. That is enough for a segment to come again after its ACK
was lost, for two segments to be outstanding with one of them lost, for a buffer to be
full when a segment comes, and for a `recv` to take part of a segment and leave the
rest to the read-ahead buffer. Sequence numbers
are counted modulo 16 and the server starts at the last one, so that its numbers wrap.
The network keeps the order of segments; each may be lost or come twice. `MaxUnacked`
caps `unacked`, an overestimate that grows with every retransmission, at twice the
largest buffer. `CHECK_DEADLOCK FALSE`: both ends may be closed. The server's program
sends only after it has received something, because of the disagreement of
`tcp_greeting`. `READAHEAD_BUFSIZE` is the segment size, as `uipopt.h` has it by default;
TLC evaluates `ReadAheadAssumption` on the instance.

### Fairness

The runs with liveness properties, and the runs whose specification is `FairSpec`,
`ControlSpec` or `MCSpec`, use fairness:

* the timer interrupt keeps coming (`WF` of `Tick`, of `TimerBegins`) and its handler
  runs to its end (`WF` of its steps): it is not pre-empted;
* in `Scheduler`, the running task executes the call it is in (`WF` of `InCall`),
  since the CPU always executes the head of `g_readytorun`;
* in `Watchdog`, the function of a watchdog returns (`WF` of `FuncReturn`);
* in `MessageQueue`, nothing but the timer interrupt (`MqFairness`): a task whose timed
  call is blocked needs no more to be woken.

Nothing is assumed of the programs: a task may compute for ever, and nobody needs to
post.

### Disagreements with the documentation

1. `mm_internal.h` says that the smallest chunk holds a free node. `memalign` cuts
   chunks to sizes that are no multiple of the granule, and a `realloc` that extends
   into a free neighbour can then leave 8 bytes of it as a free chunk; its links
   overwrite the header that follows (`heap_sliver`).
2. `mq_timedreceive` says that its timeout is a ceiling on the time it blocks. The
   watchdog is started once but the wait is a loop: a timeout that comes while the
   task has been woken and has not run yet does nothing, and the task may then block
   again for ever (`mq_timeout`). `mq_timedsend` is the same.
3. An accepted connection is established before the ACK of its SYN has come, which a
   comment says should not be so. A `send` made before it comes starts at the number
   of the SYN, and the ACK of the SYN counts as that of its first byte: the send
   succeeds though the peer never gets that byte (`tcp_greeting`).

The models show more, which the properties above are stated around and which have no
run of their own:

* `task_delete` locks pre-emption to "make sure the task does not become ready-to-run
  while we are futzing with its TCB" (`task_delete.c:117`), and `task_exithook.c:97` says
  that `task_delete` has already removed the task "to prevent any further action on this
  task". It removes it after the hook (`task_delete.c:156`), and while the hook waits for
  a stream or a driver the task may run. If it exits, or another task deletes it, the
  removal is handed no list: with a program of `core` in which the slow task exits, TLC
  reaches it (`NoPanic`).
* `mqueue.h:71` calls `maxmsgs` the maximum number of messages in the queue, and
  `mq_send.c:137` says that a message is allocated if the queue is not full or has ceased
  to be. It is allocated after that look, and a sender that waits for the mutex of the
  heap (`mq_sndinternal.c:201`, `mm_sem.c:174`) does not look again: TLC finds more
  than `maxmsgs` messages of tasks in the queue of `mqueue`.
* With a read-ahead buffer smaller than a segment a packet is kept in part, not
  acknowledged, and kept again when it comes again, as `uip_tcpcallback.c:147` says: with
  buffers of one byte and segments of two TLC finds a `recv` that gets the first byte twice
  (`StreamsKept`). `uip_tcpcallback.c:293` expects the configuration to exclude it, and
  nothing in the code does.

* `task_deletecurrent` unlocks whatever task heads `g_readytorun` after the merge, not
  the task it locked (`task_deletecurrent.c:137`).
* `sched_setscheduler` verifies the pid before `sched_lock`, and may set the policy of
  a TCB that is gone (`sched_setscheduler.c:139`).
* `task_restart` returns without unlocking when it fails (`task_restart.c:119`), does
  not reset the lock count of the task, nor its `waitsem`, so that its next `sem_wait`
  that blocks panics (`sem_wait.c:138`), nor the watchdog of an interrupted
  `sem_timedwait`, which then ends a later wait.
* `task_delete` takes a waiting task out of the wait list but leaves it counted in
  `semcount`, so that the next post is lost; and it says that the TCB is no longer
  accessible while its pid still is (`task_delete.c:160`).
* `sched_yield` and `sched_setparam` on oneself switch tasks with pre-emption locked,
  though `sched_lock.c:82` says that only the caller runs until it unlocks or blocks
  (`LockKeepsCPU` is about the steps of others); `sched_yield` sets the priority it
  read before interrupts were disabled (`sched_yield.c:95`).
* `mq_doreceive` reads `nwaitnotfull` with interrupts enabled and trusts it with them
  disabled: if the last waiting sender times out or is interrupted in between, the
  system stops with `OSERR_MQNOTFULLCOUNT` (`mq_rcvinternal.c:279`). The properties of
  `mqueue` hold up to that.
* TCP: `ackseq <= unackseq` does not allow for wrap-around, so that across zero the
  retransmission timer stops with data outstanding (`uip_tcpinput.c:380`); a `close`
  whose peer is gone never returns, because its callback is not called for a timeout
  (`net_close.c:173`); when the SYNACK is lost, the SYN that comes again is answered
  with a reset; a socket is marked connected after a wait even if a reset came in
  between (`connect.c:344`); every poll resets `nrtx` (`uip_tcpappsend.c:156`).

## 4. Proofs

TLAPS checks the theorems below for every value of the constants that satisfies the
assumptions: any number of tasks, watchdogs, semaphores and queues, any size of memory,
any programs.

| Theorem | States | Specification |
|---|---|---|
| `TypeCorrect`, `ConsistentLists`, `SortedLists`, `IdleStays`, `RunningIsHead`, `NobodyForgotten`, `PriorityScheduling` (`SchedulerProofs`) | `[]TypeOK`, `[]ListsConsistent`, `[]ListsSorted`, `[]IdleLast`, `[]OneRunning`, `[]PendingOnlyWhileLocked`, `[]HighestPriorityRuns` | `Scheduler!Spec` |
| `OnlyLockOverflow` (`SchedulerProofs`) | the only assertion within reach is the one on the lock count in `sched_lock` | `Scheduler!Spec` |
| `ExclusiveCallsAlways`, `LockHolderKeepsCPU`, `FirstComeFirstServed` (`SchedulerProofs`) | `[]ExclusiveCalls`, `LockKeepsCPU`, `FifoWithinPriority` | `Scheduler!Spec` |
| `ControlKeepsLists`, `ControlKeepsPriorities`, `ControlIsExclusive`, `ControlRespectsLocks`, `ControlKeepsOrder` (`SchedulerProofs`) | the same invariants and action properties with `task_delete`, whose exit hook may wait, and `task_restart` | `ControlSpec` |
| `RestartedAnew` (`SchedulerProofs`) | `RestartReinitializes` | `ControlSpec` |
| `ControlPanics` (`SchedulerProofs`) | only the assertion on the lock count, or the removal of a task that is in no list, can stop the system | `ControlSpec` |
| `SchedulerDoesNotPanic`, `NoAssertionFails` (`SchedulerProofs`) | `[]NoPanic`, for careful programs | `Scheduler!Spec`, `ControlSpec` |
| `MarkedIsLinkedAlways`, `LagsAreCountsAlways`, `CountdownsOfTheirOwn` (`WatchdogProofs`) | `[]MarkedIsLinked`, `[]LagsAreCounts`, and `OwnCountdown`, the refinement of `Timers` | `Watchdog!Spec` |
| `CountIsWaitersAlways`, `TimeoutIsOwnAlways`, `PostServesHighest`, `SemaphoresCount` (`SemaphoreProofs`) | `[]CountIsWaiters`, `[]TimeoutIsOwn`, `PostWakesHighest`, and `CountsKept`, the refinement of `CountingSem` | `SemSpec` |
| `SemAssertsHold` (`SemaphoreProofs`) | no PANIC of `sem_wait` and no ASSERT on a count is reached | `SemSpec` |
| `WaitersCountedAlways`, `NoLostWakeupAlways`, `NeverOverfilledAlways` (`MessageQueueProofs`) | `[]WaitersCounted`, `[]NoLostWakeup`, `[]NeverOverfilled` | `MqSpec` |
| `MessagesInOrderAlways` (`MessageQueueProofs`) | `MessagesInOrder`, the refinement of `PriorityQueue` | `MqSpec` |
| `MqAssertsHold` (`MessageQueueProofs`) | only a message pool out of memory and `OSERR_MQNOTFULLCOUNT` can stop the system | `MqSpec` |
| `ListsMatchChunksAlways`, `EveryChunkHeldOnceAlways`, `FindsBestAlways` (`HeapProofs`) | `[]ListsMatchChunks`, `[]EveryChunkHeldOnce`, `[]FindsBest`, if `Separate` | `HSpec` |
| `BlocksKeptAlways` (`HeapProofs`) | `BlocksKept`, the refinement of `Allocator`, if `Separate` | `HSpec` |
| `NoSmallChunkUnlessMixed` (`HeapProofs`) | `[]NoSmallChunk`, if `Separate` | `HSpec` |

The assumptions, which TLC evaluates on the instances it checks:

* scheduler: the idle task is a task; it makes no call but `task_create`, `sched_lock`
  and `sched_unlock`; `task_create` is given a valid priority (the code does not check
  it); priorities given to the other calls are any integers;
* watchdogs: delays are integers; the pool is finite (`PoolAssumption`); no watchdog is
  called like a place in the interrupt handler (`IsrAssumption`);
* semaphores: initial counts are not negative, posts stop at `MaxCount`, which is no
  more than `SEM_VALUE_MAX`; tasks are finitely many, names do not clash, and nothing
  but a semaphore call waits in `WAIT_SEM` (`NamesAssumption`);
* message queues: a queue has room for a message, tasks are finitely many, names do
  not clash (`MqAssumption`); the idle task makes no queue call and a lock count holds
  two locks (`CallersAssumption`);
* heap: memory is a positive, even number of words, since `mm_addregion` rounds it to
  granules; there is a list of free nodes; requests are positive and alignments natural
  numbers; users are finitely many and the worker thread is none of them
  (`HeapAssumption`);
* TCP: a read-ahead buffer has room for a packet (`ReadAheadAssumption`; the run needs it,
  and nothing is proved there).

The theorems about the heap have a hypothesis besides, `Separate`: no program both
aligns and resizes blocks. It cannot be dropped: the run `heap_sliver` shows with a
program that does both how a `realloc` destroys a header. A program may use either, with
any other calls, and different users interleave in any way.

`MqSpec` starts from any well-formed scheduler state without locks in which no task
waits for a message (`Scheduled`); the run `mqueue` starts from one such state.

### The inductive invariants

None of the properties is inductive by itself.

**Scheduler** (`IInv`). A merge needs the pending list sorted and the idle task at the
end of the ready list; `HeadRuns` needs the lists to be consistent; and a task that
`task_create` is working on must be known to be in no list, or inactive, and to be
nobody else's. `IInv` joins `SchedInv` (lists consistent and sorted, idle last, one
running task, nobody pending without a lock, tasks without a pid in no list), `CallInv`
(no call is about the idle task) and `CreateInv` (what `task_create` knows of its TCB).

**Pre-emption** (`PInv`). `ExclusiveCalls` needs `IInv`, from which the running task
heads the ready list and keeps that place while it has a lock, and the fact that
`sched_yield` is about its caller. `FifoWithinPriority` is about two
states: `OrderStays` says of each operation of `SchedOps` that two tasks it is not about
keep their order, `StaysBehind` that a task that is taken out and put in again with the
priority it had does not come before those it was behind.

**Task control** (`TInv`). With `task_delete` and `task_restart`, `CreateInv` is no longer
enough: a task may be deleted half way through its `task_create`, and the one it was
creating stays in no list for ever. `PInv` is kept, and `Control` adds what the calls know
of the task they are about: it is not one that a `task_create` in progress is working on
(`Apart`); it is not the caller (`Other`); a task that has been taken out for deletion is
in no list and nobody else deletes it (`Gone`); a task being restarted is inactive, has its
initial priority and is in no call (`Renewed`), and that priority is a valid one
(`BornValid`). What remains is `Halted`: `task_delete` or `task_restart` has found a pid whose task is in no list, and
`dq_rem` has been handed a null list. The code excludes it nowhere. It is reached when two
tasks delete the same third one, since a pid is found until the TCB is released
(`task_delete.c:160`); when a creator is deleted and then the task it left behind; and
when a task ends by itself while its exit hook waits on behalf of `task_delete`.
From the hook on `Control` lets other tasks run (`OpenLabels`), and knows of the task that
is deleted only that it is `Apart` and `Other` until it is out of its list.

**No assertion fails** (`NInv`). `NoPanic` is not true of all programs, and `Careful` says of
which ones it is:

* `ExitsUnlocked`: no task exits with pre-emption locked. `task_deletecurrent` locks the
  task that comes next and unlocks the one that heads the list after the merge. With
  tasks pending the two may differ, and the first keeps a lock it never took;
* `ShallowLocks`: `MaxNest + 4 <= MAX_LOCK_COUNT`. A program holds at most `MaxNest`
  locks, a failing `task_restart` leaves one more, a call takes one and its exit another;
* no task deletes or restarts; or one only does, no task but the idle one creates tasks
  (`OneController`), and tasks of `SlowToClose` do not exit by themselves. This excludes
  the three ways to `Halted` above. The hook may still wait, and others run meanwhile.

The run `core`, which checks `NoPanic`, satisfies all three, with a slow task that is
deleted and restarted. `NInv` joins `PInv` and
`Control` with `Counts`: how many locks a task can have at each step of each call
(`Limits`), that a task in no list is in no call (`Ended`), and that a pid whose task is in
no list belongs to a `task_create` or a `task_delete` in progress (`Accounted`), and that
a task under an exit hook keeps its pid (`Found`).

**Watchdogs** (`WdInv`). The lists have no watchdog twice, the marks agree with them,
lags are natural numbers, and outside the interrupt the first lag is positive. For the
refinement `Left`, the ticks left, is a sum of lags; the lemmas of `WdOpsProofs` show
that an insertion splits one lag, a removal joins two and a tick lowers the first, and
that the sums of the other watchdogs stay.

**Semaphores** (`SemInv`). `IInv` of the scheduler, `Counted` (each count against the
tasks whose `waitsem` names that semaphore), `CallsOK` (a task in `WAIT_SEM` is at the
waiting step of its call and its `errno` is clear until something ends the wait) and
`TimersOK` (a watchdog is in the pool or belongs to one timed wait, and its pid is that
of the waiting task). The last is what makes the timeout that comes late harmless. One
lemma per action shows three things at once (`Good`): the invariant is kept, the step
is one of `CountingSem` under the mapping or a stutter, and a post wakes a waiter of the
highest priority.

**Message queues** (`MqInv`), in five parts:

* `CallsInv`: the scheduler is sound; the lock count of a task is exactly 1 from the
  first section of its call to the last and 0 elsewhere, and a call inside its sections
  has the CPU unless it waits; so two calls are never between their sections, and only
  handlers, signals and timeouts come there, except to a sender that waits, or has waited
  and not run yet, for the heap. A waiting task, its call, `msgwaitq` and `errno` agree.
* `TimersInv`: the watchdog of a timed call is its own and not in the pool.
* `CountsInv`: both counts, as in `WaitersCounted`.
* `WakeupsInv`: `NoLostWakeup` counts every task that is past its wait. That is not
  inductive: one whose wait a signal ended leaves without looking at the queue. The
  invariant counts only those whose `errno` is still `OK`, and is the stronger.
* `FillInv`: for a sender that has found room and not gone to the heap (`Roomy`), there is
  still room among the tasks' messages; and those, with one more for each sender that has
  found room at any time (`Filling`), are fewer than `maxmsgs` and the sending tasks
  together. The second is what bounds the overfilling: a sender that finds room joins
  `Filling` when the queue is not full, so all the others there can be no more than fill
  it by their own number, and each message that is inserted takes its sender out.

The refinement of `PriorityQueue` needs `OrderInv` besides: a queue's messages descend in
priority, and every priority is one that a caller may give. The mapping shows a queue as
one sequence of senders per priority, the k-th being that of the k-th message of this
priority (`OfPrio`). Under `OrderInv` the messages of one priority are next to each other
(`Block`), so that a message inserted behind its equals extends one block, taking the head
shortens one, and the other blocks only move.

**Heap** (`HInv`). The model finds chunks by reading headers from memory, so an invariant
about `Walk` would say nothing of a word in the middle of a chunk that happens to look
like a header. `HInv` says instead that there is a set `C` of addresses, the chunks, such
that (`Kept`):

* `Good`: each chunk leads to the next by its size and back by the preceding size, no
  chunk of `C` lies inside another, and the guard nodes are at both ends (`Chain`); the
  lists hold the free chunks of `C`, each once, in the list of its size, by size (`Listed`);
* `Owned`: the allocated chunks and the hands correspond one to one, where a hand is a
  user's pointer, a call's pointer between two of its sections, or a place in the queue of
  delayed deallocations;
* without `memalign` all chunks have whole granules (`Evens`). That is why a `realloc`
  that takes a part of a neighbour leaves room for a free node or nothing, and it is what
  `Separate` is needed for;

and, of each user (`UserSound`), that its chunk has room for its block and holds its
words, and what its call knows between two sections: the new chunk of a `realloc` is
large enough and has the words already, the raw chunk of a `memalign` has room for the
aligned block and twice the alignment. What `Walk` visits is `C`
(`WalkIsChain`), by least counterexamples: a first step that leaves `C`, a first chunk
that is passed over. The mapping to `Allocator` needs no more than that: `HInv`
makes a block's words a function of its length, and a step changes lengths as one of
`Allocator` does.

### The argument, bottom up

* `TaskListProofs`: what insertion and removal do to a sequence's elements, its
  distinctness, its order and the positions of the others.
* `SchedOpsProofs`: adding to and removing from one list keeps a state well formed; the
  loop of `sched_mergepending`, by an invariant of the recursive function `MergeLoop`
  over the number of pending tasks merged; block, unblock, lock, unlock, reprioritise,
  `sched_setpriority` and the time slice, each with what it keeps (`Sound`, the fields
  and the order of other tasks).
* `SchedulerProofs`: one lemma per action of `Scheduler` and of `TaskControl`, and the
  theorems.
* `WdOpsProofs`: the operations on the delta list; `WatchdogProofs`: one step per action.
* `SemaphoreProofs`: a step of the scheduler leaves the semaphores alone; one lemma per
  action of a semaphore call.
* `MessageQueueProofs`: the steps fall into a few shapes (a call goes on without a
  context switch, a receiver or a sender blocks, a message is taken or added, a task is
  woken, a wait is ended by `mq_waitirq`). Each part of `MqInv` has a lemma for every
  shape that can disturb it, and each action is shown to have one of the shapes.
* `HeapProofs`: reading and writing headers; adding to and taking from a list; cutting a
  chunk in two and joining two, with the chunks and words that stay; then each section
  (`malloc`, `free`, shrinking, growing up and down, `realloc`, aligning) with the chunks
  it takes from the allocated ones and those it puts in their place (`Swaps`), the rest
  untouched; what a change of one hand does to `Owned`; one lemma per action; the walk;
  the properties.

### Only model-checked

* Liveness, which is outside what TLAPS handles: `RoundRobinTurns`, `TimedWaitEnds`,
  `ExpiresUnlessRestarted`, `InterruptEnds`.
* `Tcp`: it declares a recursive operator, which TLAPS cannot be used with; and
  `AckedMeansTaken`, `SendNotStuck` and `StreamsKept` relate sequence numbers at both ends
  and in every segment between them, modulo `SeqSpace`.

## 5. Not modelled, and the plan

Left out of the modelled parts:

* tasks: memory allocation and its failures, inheritance of files and environment, what
  the exit hook does besides waiting (the functions registered with `atexit`, the results
  for `waitpid` callers, whose waking is an `Unblock`), a full `g_pidhash` and the pid search, an invalid priority given to `task_create`, register
  contexts;
* watchdogs: their functions' parameters and the delay `INT_MAX`;
* semaphores: `sem_destroy`, named semaphores, priority inheritance (not configured)
  and how `sem_timedwait` turns an absolute time into ticks;
* message queues: `mq_open`, `mq_close`, `mq_unlink`, `mq_notify`, the contents and
  lengths of messages, absolute times, and the time slices of the timer interrupt (the
  tasks that call are SCHED_FIFO); who holds the mutex of the heap;
* memory manager: the mutex itself (`mm_sem.c`), several regions, `mallinfo`, and the
  product of sizes in `calloc`, which may overflow;
* TCP: several connections and the allocation of connections and ports, with the pool of
  read-ahead buffers that they share (so that data which `recv` cannot keep is dropped but
  acknowledged, `recvfrom.c:186`, only in a configuration this leaves out), a listener's
  backlog, windows, options, urgent data, checksums, round-trip times, segments that
  overtake each other, the socket options for timeouts, out-of-memory for callbacks; UDP and the other protocols.

The plan, with what is done:

1. Done: the scheduler core, its calls, task creation, exit, control; proofs of the
   core's invariants.
2. Done: `Watchdog`, `Semaphore`, `Heap`, `MessageQueue` and `Tcp` with their abstract
   specifications.
3. Done: proofs of the invariants and action properties of `Scheduler` and `TaskControl`,
   and of `Watchdog`, `Semaphore`, `MessageQueue` and `Heap` with their refinements.
   Left: `Tcp`, after its loop over read-ahead buffers is rewritten as a recursive
   function.
4. `PidTable`: the search of `task_assignpid` over a wrapping `g_lastpid`.
5. `PriorityInheritance`: `sem_holder.c`, as a configuration of its own.
6. `WaitPid`, then signals (`sig_received`, `sigtimedwait`, the delivery of queued
   actions), then `mq_notify`.

Not planned: file systems, drivers, loaders, graphics and applications (vendored,
register-level or on-media state), the work queue and paging (not configured). They
are most of the repository: the models are of the kernel's concurrent core.
