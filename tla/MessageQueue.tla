---------------------------- MODULE MessageQueue ----------------------------
(***************************************************************************)
(* POSIX message queues (sched/mq_*.c) on the scheduler and the watchdogs: *)
(* tasks that send and receive, with and without a timeout or O_NONBLOCK;  *)
(* interrupt handlers that send; signals; the timer interrupt with its     *)
(* timeouts.                                                               *)
(*                                                                         *)
(* A call holds sched_lock from beginning to end, so that other tasks run  *)
(* only while it is blocked: while it waits for the queue, and while a     *)
(* sender waits for the mutex of the heap, which it needs for a message    *)
(* when g_msgfree is empty.  Interrupts come between any two of its        *)
(* sections that have interrupts disabled; each such section is a step.    *)
(* The lock that mq_dosend nests in that of its caller changes nothing and *)
(* is left out.  Tasks are SCHED_FIFO here: sched_process_timeslice, which *)
(* the tick calls before the timeouts, is left out.                        *)
(***************************************************************************)
EXTENDS SchedOps, WdOps

CONSTANTS Queues,
          Prios,            \* the priorities of messages
          MaxMsgs,          \* maxmsgs of every queue
          NumMsgs,          \* CONFIG_PREALLOC_MQ_MSGS
          NumIrqMsgs,       \* NUM_INTERRUPT_MSGS
          MaxDyn,           \* the messages that the heap has room for
          Timeouts,         \* the ticks until the timeout of a call
          Workload,         \* the calls each task makes
          Signalled,        \* the tasks that may be sent signals
          HeapWaiters,      \* the tasks that may find the mutex of the heap taken
          NonBlocking,      \* the tasks whose descriptors have O_NONBLOCK
          Handler, None

ASSUME MqAssumption ==
  /\ MaxMsgs \in Nat \ {0} /\ NumMsgs \in Nat /\ NumIrqMsgs \in Nat /\ MaxDyn \in Nat
  /\ Timeouts \subseteq Int /\ Prios \subseteq Nat /\ Handler \notin Tasks
  /\ IsFiniteSet(Tasks) /\ None \notin Tasks \cup Queues \cup Wdogs

(* The idle loop uses no queue; a call holds one lock, and a handler that  *)
(* interrupts it takes another.                                            *)
ASSUME CallersAssumption == Workload[Idle] = {} /\ MAX_LOCK_COUNT >= 2

VARIABLES s,                \* the scheduler state of SchedOps
          g,                \* the watchdog state of WdOps
          msglist,          \* per queue: the messages; nmsgs is their number
          nwaitnotempty, nwaitnotfull,
                            \* per queue: the counts of waiting tasks
          msgwaitq, pterrno,\* per TCB
          free,             \* the numbers of messages in g_msgfree, g_msgfreeirq
                            \* and in the heap, by type
          call,             \* per task: the call it is in
          parm,             \* per watchdog: the pid its function is given and the
                            \* state it looks for
          isr               \* wd_timer is in its loop

mqvars == <<s, g, msglist, nwaitnotempty, nwaitnotfull, msgwaitq, pterrno, free, call, parm, isr>>

queuevars == <<msglist, nwaitnotempty, nwaitnotfull, msgwaitq>>

nmsgs(q) == Len(msglist[q])

User == [at |-> "user", q |-> None, prio |-> 0, msg |-> None, wdog |-> None]

-----------------------------------------------------------------------------
(* Task t runs and is at a step of a call; PANIC stops everything.         *)
Runs(t) == ~isr /\ s.panic = {} /\ Running(s) = t

CallAt(t, at) == Runs(t) /\ call[t].at = at

Makes(t, c) == CallAt(t, "user") /\ c \in Workload[t]

Goes(t, at) == call' = [call EXCEPT ![t].at = at]

(* mq_msgalloc in an interrupt handler: from the general list, then from   *)
(* the one for handlers.                                                   *)
AllocType == IF free.FIXED > 0 THEN "FIXED" ELSE "IRQ"

mq_msgalloc(type) == free' = [free EXCEPT ![type] = @ - 1]

(* The heap has its room back at once; sched_free leaves the message to    *)
(* the idle loop while the mutex is taken.                                 *)
mq_msgfree(type) == free' = [free EXCEPT ![type] = @ + 1]

(* A variant: in front of the messages of its priority.                    *)
InsertMessage_Lifo(q, m) ==
  LET prev == Cardinality({i \in DOMAIN msglist[q] : m.prio < msglist[q][i].prio})
  IN  [msglist EXCEPT ![q] = InsertAt(@, prev + 1, m)]

(* The insertion of mq_dosend: behind the leading messages whose priority  *)
(* is not lower.                                                           *)
InsertMessage(q, m) ==
  LET lower == {i \in DOMAIN msglist[q] : m.prio > msglist[q][i].prio}
  IN  [msglist EXCEPT ![q] = InsertAt(@, Min(lower \cup {Len(@) + 1}), m)]

(* The first task of a list that waits for the queue, if the count says    *)
(* that there is one.                                                      *)
Waiter(z, l, q) ==
  LET w == {i \in DOMAIN z.list[l] : msgwaitq[z.list[l][i]] = q}
  IN  IF w = {} THEN None ELSE z.list[l][Min(w)]

(* The end of mq_dosend: wake a receiver.                                  *)
WakeReceiver(z, q) ==
  LET btcb == Waiter(z, "g_waitingformqnotempty", q)
  IN  IF nwaitnotempty[q] <= 0 THEN z
      ELSE IF btcb = None THEN PanicUnless(z, FALSE, "MQNONEMPTYCOUNT")
      ELSE up_unblock_task(z, btcb)

ReceiverWoken(z, q) ==
  LET btcb  == Waiter(z, "g_waitingformqnotempty", q)
      wakes == nwaitnotempty[q] > 0 /\ btcb # None
  IN  /\ msgwaitq' = [t \in Tasks |-> IF wakes /\ t = btcb THEN None ELSE msgwaitq[t]]
      /\ nwaitnotempty' = [nwaitnotempty EXCEPT ![q] = IF wakes THEN @ - 1 ELSE @]

-----------------------------------------------------------------------------
(* The wait for a queue that is not full, and for one that is not empty.   *)
BlockSender(t, q) ==
  /\ msgwaitq' = [msgwaitq EXCEPT ![t] = q]
  /\ nwaitnotfull' = [nwaitnotfull EXCEPT ![q] = @ + 1]
  /\ pterrno' = [pterrno EXCEPT ![t] = "OK"]
  /\ UNCHANGED <<msglist, nwaitnotempty>>

BlockReceiver(t, q) ==
  /\ msgwaitq' = [msgwaitq EXCEPT ![t] = q]
  /\ nwaitnotempty' = [nwaitnotempty EXCEPT ![q] = @ + 1]
  /\ pterrno' = [pterrno EXCEPT ![t] = "OK"]
  /\ UNCHANGED <<msglist, nwaitnotfull>>

(* The timed calls first take a watchdog, or fail.                         *)
TimedCall(t, what, q, prio) ==
  /\ Makes(t, what)
  /\ \/ /\ g.g_wdfreelist = <<>>
        /\ pterrno' = [pterrno EXCEPT ![t] = "EINVAL"]
        /\ call' = [call EXCEPT ![t] = User]
        /\ UNCHANGED g
     \/ /\ g.g_wdfreelist # <<>>
        /\ g' = wd_create(g)
        /\ call' = [call EXCEPT ![t] = [User EXCEPT !.at = what, !.q = q, !.prio = prio,
                                                            !.wdog = Head(g.g_wdfreelist)]]
        /\ UNCHANGED pterrno
  /\ UNCHANGED <<s, queuevars, free, parm, isr>>

(* sched_lock and the first section of mq_send: go on if the queue has     *)
(* room; fail with O_NONBLOCK; or wait.                                    *)
mq_send(t, q, prio) ==
  LET locked == sched_lock(s)
  IN  /\ Makes(t, "send")
      /\ \/ /\ nmsgs(q) < MaxMsgs
            /\ call' = [call EXCEPT ![t] = [User EXCEPT !.at = "alloc", !.q = q, !.prio = prio]]
            /\ s' = locked
            /\ UNCHANGED <<queuevars, pterrno>>
         \/ /\ nmsgs(q) >= MaxMsgs /\ t \in NonBlocking
            /\ pterrno' = [pterrno EXCEPT ![t] = "EAGAIN"]
            /\ call' = [call EXCEPT ![t] = [User EXCEPT !.at = "unlock"]]
            /\ s' = locked
            /\ UNCHANGED queuevars
         \/ /\ nmsgs(q) >= MaxMsgs /\ t \notin NonBlocking
            /\ BlockSender(t, q)
            /\ call' = [call EXCEPT ![t] = [User EXCEPT !.at = "waitsend", !.q = q, !.prio = prio]]
            /\ s' = up_block_task(locked, t, "WAIT_MQNOTFULL")
      /\ UNCHANGED <<g, free, parm, isr>>

(* The same of mq_timedsend: the timeout may be over; else the watchdog is *)
(* started before the wait.                                                *)
mq_timedsend(t, ticks) ==
  LET q      == call[t].q
      w      == call[t].wdog
      locked == sched_lock(s)
  IN  /\ CallAt(t, "timedsend")
      /\ \/ /\ nmsgs(q) < MaxMsgs
            /\ Goes(t, "alloc")
            /\ s' = locked
            /\ UNCHANGED <<queuevars, pterrno, g, parm>>
         \/ /\ nmsgs(q) >= MaxMsgs /\ (ticks <= 0 \/ t \in NonBlocking)
            /\ pterrno' = [pterrno EXCEPT ![t] = IF ticks <= 0 THEN "ETIMEDOUT" ELSE "EAGAIN"]
            /\ Goes(t, "unlock")
            /\ s' = locked
            /\ UNCHANGED <<queuevars, g, parm>>
         \/ /\ nmsgs(q) >= MaxMsgs /\ ticks > 0 /\ t \notin NonBlocking
            /\ g' = wd_start(g, w, ticks)
            /\ parm' = [parm EXCEPT ![w] = [pid |-> t, state |-> "WAIT_MQNOTFULL"]]
            /\ BlockSender(t, q)
            /\ Goes(t, "waitsend")
            /\ s' = up_block_task(locked, t, "WAIT_MQNOTFULL")
      /\ UNCHANGED <<free, isr>>

(* wd_cancel when the wait of a timed call is over.                        *)
Cancelled(t) == IF call[t].wdog = None THEN g ELSE wd_cancel(g, call[t].wdog)

(* A variant: the queue is taken to have room for the task that was woken. *)
SendResumes_Trusts(t) ==
  /\ CallAt(t, "waitsend")
  /\ Goes(t, IF pterrno[t] # "OK" THEN "unlock" ELSE "alloc")
  /\ g' = Cancelled(t)
  /\ UNCHANGED <<s, queuevars, pterrno, free, parm, isr>>

(* The loop of mq_waitsend, when the task runs again.                      *)
SendResumes(t) ==
  LET q == call[t].q
  IN  /\ CallAt(t, "waitsend")
      /\ \/ /\ pterrno[t] # "OK" \/ nmsgs(q) < MaxMsgs
            /\ Goes(t, IF pterrno[t] # "OK" THEN "unlock" ELSE "alloc")
            /\ g' = Cancelled(t)
            /\ UNCHANGED <<s, queuevars, pterrno>>
         \/ /\ pterrno[t] = "OK" /\ nmsgs(q) >= MaxMsgs
            /\ BlockSender(t, q)
            /\ s' = up_block_task(s, t, "WAIT_MQNOTFULL")
            /\ UNCHANGED <<call, g>>
      /\ UNCHANGED <<free, parm, isr>>

(* mq_msgalloc in a task: the general list,                                *)
Gets(t, type) ==
  /\ mq_msgalloc(type)
  /\ call' = [call EXCEPT ![t] = [@ EXCEPT !.at = "dosend",
                !.msg = [prio |-> call[t].prio, from |-> t, type |-> type]]]

SendAllocates(t) ==
  /\ CallAt(t, "alloc")
  /\ \/ free.FIXED > 0 /\ Gets(t, "FIXED")
     \/ free.FIXED = 0 /\ Goes(t, "heap") /\ UNCHANGED free
  /\ UNCHANGED <<s, g, queuevars, pterrno, parm, isr>>

(* then the heap.  Its mutex is a semaphore that any other task may hold:  *)
(* the sender waits for it, pre-emption locked or not, and others run.     *)
HeapBlocks(t) ==
  /\ CallAt(t, "heap")
  /\ t \in HeapWaiters
  /\ s' = up_block_task(s, t, "WAIT_SEM")
  /\ UNCHANGED <<g, queuevars, pterrno, free, call, parm, isr>>

(* The mutex is given, or a signal makes the sender try again.             *)
HeapFreed(x) ==
  /\ ~isr /\ s.panic = {}
  /\ call[x].at = "heap" /\ s.task_state[x] = "WAIT_SEM"
  /\ s' = up_unblock_task(s, x)
  /\ UNCHANGED <<g, queuevars, pterrno, free, call, parm, isr>>

(* The sender has the mutex; it does not look at the queue again.          *)
HeapAllocates(t) ==
  /\ CallAt(t, "heap")
  /\ \/ free.DYN > 0 /\ Gets(t, "DYN") /\ UNCHANGED s
     \/ /\ free.DYN = 0
        /\ s' = PanicUnless(s, FALSE, "OUTOFMESSAGES")
        /\ UNCHANGED <<free, call>>
  /\ UNCHANGED <<g, queuevars, pterrno, parm, isr>>

(* mq_dosend: insert the message, then wake a receiver.                    *)
SendInserts(t) ==
  /\ CallAt(t, "dosend")
  /\ msglist' = InsertMessage(call[t].q, call[t].msg)
  /\ call' = [call EXCEPT ![t] = [@ EXCEPT !.at = "wakereceiver", !.msg = None]]
  /\ UNCHANGED <<s, g, nwaitnotempty, nwaitnotfull, msgwaitq, pterrno, free, parm, isr>>

(* A variant: nobody is woken while the queue has other messages.          *)
SendWakes_FirstOnly(t) ==
  LET q == call[t].q
  IN  /\ CallAt(t, "wakereceiver")
      /\ IF nmsgs(q) = 1 THEN s' = WakeReceiver(s, q) /\ ReceiverWoken(s, q)
         ELSE UNCHANGED <<s, msgwaitq, nwaitnotempty>>
      /\ Goes(t, "unlock")
      /\ UNCHANGED <<g, msglist, nwaitnotfull, pterrno, free, parm, isr>>

SendWakes(t) ==
  /\ CallAt(t, "wakereceiver")
  /\ s' = WakeReceiver(s, call[t].q)
  /\ ReceiverWoken(s, call[t].q)
  /\ Goes(t, "unlock")
  /\ UNCHANGED <<g, msglist, nwaitnotfull, pterrno, free, parm, isr>>

(* The end of every call: sched_unlock, which may switch tasks, then       *)
(* wd_delete of a timed call.                                              *)
Unlocks(t) ==
  /\ CallAt(t, "unlock")
  /\ s' = sched_unlock(s)
  /\ call' = [call EXCEPT ![t] = IF @.wdog = None THEN User ELSE [@ EXCEPT !.at = "delete"]]
  /\ UNCHANGED <<g, queuevars, pterrno, free, parm, isr>>

Deletes(t) ==
  /\ CallAt(t, "delete")
  /\ g' = wd_delete(g, call[t].wdog)
  /\ call' = [call EXCEPT ![t] = User]
  /\ UNCHANGED <<s, queuevars, pterrno, free, parm, isr>>

(* mq_send in an interrupt handler: no wait, and no message if both lists  *)
(* are empty.  It locks whichever task it interrupted.                     *)
InterruptSends(q, prio) ==
  LET z == sched_lock(s)
  IN  /\ ~isr /\ s.panic = {}
      /\ free[AllocType] > 0
      /\ mq_msgalloc(AllocType)
      /\ msglist' = InsertMessage(q, [prio |-> prio, from |-> Handler, type |-> AllocType])
      /\ s' = sched_unlock(WakeReceiver(z, q))
      /\ ReceiverWoken(z, q)
      /\ UNCHANGED <<g, nwaitnotfull, pterrno, call, parm, isr>>

-----------------------------------------------------------------------------
(* Take the first message.                                                 *)
TakesMessage(t, q) ==
  /\ msglist[q] # <<>>
  /\ msglist' = [msglist EXCEPT ![q] = Tail(@)]
  /\ call' = [call EXCEPT ![t] = [@ EXCEPT !.at = "doreceive", !.q = q, !.msg = Head(msglist[q])]]
  /\ UNCHANGED <<nwaitnotempty, nwaitnotfull, msgwaitq, pterrno>>

mq_receive(t, q) ==
  LET locked == sched_lock(s)
  IN  /\ Makes(t, "receive")
      /\ \/ /\ TakesMessage(t, q)
            /\ s' = locked
         \/ /\ msglist[q] = <<>> /\ t \in NonBlocking
            /\ pterrno' = [pterrno EXCEPT ![t] = "EAGAIN"]
            /\ call' = [call EXCEPT ![t] = [User EXCEPT !.at = "unlock"]]
            /\ s' = locked
            /\ UNCHANGED queuevars
         \/ /\ msglist[q] = <<>> /\ t \notin NonBlocking
            /\ BlockReceiver(t, q)
            /\ call' = [call EXCEPT ![t] = [User EXCEPT !.at = "waitreceive", !.q = q]]
            /\ s' = up_block_task(locked, t, "WAIT_MQNOTEMPTY")
      /\ UNCHANGED <<g, free, parm, isr>>

mq_timedreceive(t, ticks) ==
  LET q      == call[t].q
      w      == call[t].wdog
      locked == sched_lock(s)
  IN  /\ CallAt(t, "timedreceive")
      /\ \/ /\ TakesMessage(t, q)
            /\ s' = locked
            /\ UNCHANGED <<g, parm>>
         \/ /\ msglist[q] = <<>> /\ (ticks <= 0 \/ t \in NonBlocking)
            /\ pterrno' = [pterrno EXCEPT ![t] = IF ticks <= 0 THEN "ETIMEDOUT" ELSE "EAGAIN"]
            /\ Goes(t, "unlock")
            /\ s' = locked
            /\ UNCHANGED <<queuevars, g, parm>>
         \/ /\ msglist[q] = <<>> /\ ticks > 0 /\ t \notin NonBlocking
            /\ g' = wd_start(g, w, ticks)
            /\ parm' = [parm EXCEPT ![w] = [pid |-> t, state |-> "WAIT_MQNOTEMPTY"]]
            /\ BlockReceiver(t, q)
            /\ Goes(t, "waitreceive")
            /\ s' = up_block_task(locked, t, "WAIT_MQNOTEMPTY")
      /\ UNCHANGED <<free, isr>>

(* The loop of mq_waitreceive, when the task runs again.                   *)
ReceiveResumes(t) ==
  LET q == call[t].q
  IN  /\ CallAt(t, "waitreceive")
      /\ \/ /\ pterrno[t] # "OK"
            /\ Goes(t, "unlock")
            /\ g' = Cancelled(t)
            /\ UNCHANGED <<s, queuevars, pterrno>>
         \/ /\ pterrno[t] = "OK"
            /\ TakesMessage(t, q)
            /\ g' = Cancelled(t)
            /\ UNCHANGED s
         \/ /\ pterrno[t] = "OK" /\ msglist[q] = <<>>
            /\ BlockReceiver(t, q)
            /\ s' = up_block_task(s, t, "WAIT_MQNOTEMPTY")
            /\ UNCHANGED <<call, g>>
      /\ UNCHANGED <<free, parm, isr>>

(* mq_doreceive: the message is freed; the count of waiting senders is     *)
(* read with interrupts enabled,                                           *)
ReceiveFrees(t) ==
  /\ CallAt(t, "doreceive")
  /\ mq_msgfree(call[t].msg.type)
  /\ call' = [call EXCEPT ![t] = [@ EXCEPT !.msg = None,
                !.at = IF nwaitnotfull[call[t].q] > 0 THEN "wakesender" ELSE "unlock"]]
  /\ UNCHANGED <<s, g, queuevars, pterrno, parm, isr>>

(* A variant: the count stays.                                             *)
ReceiveWakes_KeepsCount(t) ==
  LET btcb == Waiter(s, "g_waitingformqnotfull", call[t].q)
  IN  /\ CallAt(t, "wakesender") /\ btcb # None
      /\ msgwaitq' = [msgwaitq EXCEPT ![btcb] = None]
      /\ s' = up_unblock_task(s, btcb)
      /\ Goes(t, "unlock")
      /\ UNCHANGED <<g, msglist, nwaitnotempty, nwaitnotfull, pterrno, free, parm, isr>>

(* and a sender is woken with interrupts disabled.                         *)
ReceiveWakes(t) ==
  LET q    == call[t].q
      btcb == Waiter(s, "g_waitingformqnotfull", q)
  IN  /\ CallAt(t, "wakesender")
      /\ \/ /\ btcb # None
            /\ msgwaitq' = [msgwaitq EXCEPT ![btcb] = None]
            /\ nwaitnotfull' = [nwaitnotfull EXCEPT ![q] = @ - 1]
            /\ s' = up_unblock_task(s, btcb)
            /\ Goes(t, "unlock")
         \/ /\ btcb = None
            /\ s' = PanicUnless(s, FALSE, "MQNOTFULLCOUNT")
            /\ UNCHANGED <<msgwaitq, nwaitnotfull, call>>
      /\ UNCHANGED <<g, msglist, nwaitnotempty, pterrno, free, parm, isr>>

-----------------------------------------------------------------------------
(* mq_waitirq ends the wait of x, which has not ended yet.                 *)
mq_waitirq(x, errcode) ==
  LET q == msgwaitq[x]
  IN  /\ msgwaitq' = [msgwaitq EXCEPT ![x] = None]
      /\ nwaitnotempty' = [nwaitnotempty EXCEPT
           ![q] = IF s.task_state[x] = "WAIT_MQNOTEMPTY" THEN @ - 1 ELSE @]
      /\ nwaitnotfull' = [nwaitnotfull EXCEPT
           ![q] = IF s.task_state[x] = "WAIT_MQNOTFULL" THEN @ - 1 ELSE @]
      /\ pterrno' = [pterrno EXCEPT ![x] = errcode]
      /\ s' = up_unblock_task(s, x)

(* sig_received, for a task that waits for a queue.                        *)
Signal(x) ==
  /\ ~isr /\ s.panic = {}
  /\ x \in Signalled
  /\ s.task_state[x] \in {"WAIT_MQNOTEMPTY", "WAIT_MQNOTFULL"}
  /\ mq_waitirq(x, "EINTR")
  /\ UNCHANGED <<g, msglist, free, call, parm, isr>>

(* sched_process_timer: wd_timer calls mq_sndtimeout or mq_rcvtimeout for  *)
(* each expired watchdog.                                                  *)
TimerBegins ==
  /\ ~isr /\ s.panic = {}
  /\ g.g_wdactivelist # <<>>
  /\ g' = TimerCounts(g)
  /\ isr' = TRUE
  /\ UNCHANGED <<s, queuevars, pterrno, free, call, parm>>

Timeout ==
  /\ isr /\ Expired(g)
  /\ g' = TimerRemoves(g)
  /\ LET p == parm[Head(g.g_wdactivelist)]
     IN  \/ s.task_state[p.pid] = p.state /\ mq_waitirq(p.pid, "ETIMEDOUT")
         \/ /\ s.task_state[p.pid] # p.state
            /\ UNCHANGED <<s, msgwaitq, nwaitnotempty, nwaitnotfull, pterrno>>
  /\ UNCHANGED <<msglist, free, call, parm, isr>>

TimerEnds ==
  /\ isr /\ ~Expired(g)
  /\ isr' = FALSE
  /\ UNCHANGED <<s, g, queuevars, pterrno, free, call, parm>>

-----------------------------------------------------------------------------
SendStep(t) ==
  \/ \E q \in Queues, p \in Prios : mq_send(t, q, p) \/ TimedCall(t, "timedsend", q, p)
  \/ \E ticks \in Timeouts : mq_timedsend(t, ticks)
  \/ SendResumes(t) \/ SendAllocates(t) \/ HeapBlocks(t) \/ HeapAllocates(t)
  \/ SendInserts(t) \/ SendWakes(t)

ReceiveStep(t) ==
  \/ \E q \in Queues : mq_receive(t, q) \/ TimedCall(t, "timedreceive", q, 0)
  \/ \E ticks \in Timeouts : mq_timedreceive(t, ticks)
  \/ ReceiveResumes(t) \/ ReceiveFrees(t) \/ ReceiveWakes(t)

MqNext ==
  \/ \E t \in Tasks : SendStep(t) \/ ReceiveStep(t) \/ Unlocks(t) \/ Deletes(t)
  \/ \E q \in Queues, p \in Prios : InterruptSends(q, p)
  \/ \E x \in Tasks : Signal(x) \/ HeapFreed(x)
  \/ TimerBegins \/ Timeout \/ TimerEnds

MqInit ==
  /\ g = wd_initialize
  /\ msglist = [q \in Queues |-> <<>>]
  /\ nwaitnotempty = [q \in Queues |-> 0]
  /\ nwaitnotfull = [q \in Queues |-> 0]
  /\ msgwaitq = [t \in Tasks |-> None]
  /\ pterrno = [t \in Tasks |-> "OK"]
  /\ free = [FIXED |-> NumMsgs, IRQ |-> NumIrqMsgs, DYN |-> MaxDyn]
  /\ call = [t \in Tasks |-> User]
  /\ parm = [w \in Wdogs |-> [pid |-> Idle, state |-> "WAIT_MQNOTEMPTY"]]
  /\ isr = FALSE

(* The tasks exist; none waits for a queue or has pre-emption locked.      *)
Scheduled ==
  /\ s \in SchedStates /\ Consistent(s) /\ InOrder(s) /\ IdleEnds(s) /\ HeadRuns(s)
  /\ PendingIsLocked(s)
  /\ s.panic = {} /\ \A t \in Tasks : s.lockcount[t] = 0
  /\ \A t \in Tasks : s.task_state[t] \notin {"WAIT_MQNOTEMPTY", "WAIT_MQNOTFULL"}

MqSpec == Scheduled /\ MqInit /\ [][MqNext]_mqvars

(* The timer interrupt keeps coming and runs to its end.                   *)
MqFairness == WF_mqvars(TimerBegins) /\ WF_mqvars(Timeout \/ TimerEnds)

-----------------------------------------------------------------------------
WaitsFor(q, st) == {t \in Tasks : s.task_state[t] = st /\ msgwaitq[t] = q}

(* The counts of waiting tasks are right, whichever of a message, a        *)
(* timeout and a signal ends a wait, from whatever context: a wrong count  *)
(* is a PANIC or a task that nobody wakes.                                 *)
WaitersCounted ==
  /\ \A q \in Queues : /\ nwaitnotempty[q] = Cardinality(WaitsFor(q, "WAIT_MQNOTEMPTY"))
                       /\ nwaitnotfull[q] = Cardinality(WaitsFor(q, "WAIT_MQNOTFULL"))
  /\ \A t \in Tasks : msgwaitq[t] # None
                      <=> s.task_state[t] \in {"WAIT_MQNOTEMPTY", "WAIT_MQNOTFULL"}

(* Tasks at a step of a call to the queue, and not blocked there.          *)
Under(q, at) == {t \in Tasks : call[t].q = q /\ call[t].at = at /\ msgwaitq[t] = None}

(* While receivers wait, each message in the queue has a receiver that was *)
(* woken for it, or a sender about to wake one; while senders wait, each   *)
(* free place has a sender on its way to fill it, or a receiver about to   *)
(* wake one.  No wakeup is lost to a task that overtakes the one woken.    *)
NoLostWakeup ==
  \A q \in Queues :
    /\ nwaitnotempty[q] > 0 =>
         nmsgs(q) <= Cardinality(Under(q, "waitreceive") \cup Under(q, "wakereceiver"))
    /\ nwaitnotfull[q] > 0 /\ s.panic = {} =>
         MaxMsgs - nmsgs(q)
           <= Cardinality(Under(q, "waitsend") \cup Under(q, "alloc") \cup Under(q, "heap")
                          \cup Under(q, "dosend") \cup Under(q, "doreceive")
                          \cup Under(q, "wakesender"))

(* The messages in the queue that a task has sent.                         *)
Sent(q) == {i \in DOMAIN msglist[q] : msglist[q][i].from # Handler}

SendingTasks == {t \in Tasks : {"send", "timedsend"} \cap Workload[t] # {}}

(* How far a queue is filled beyond maxmsgs.  Interrupt handlers do not    *)
(* look; a sender that finds room and then waits for the heap does not     *)
(* look again, and others send meanwhile.  Tasks go no further: a sender   *)
(* that had no need of the heap meets less than maxmsgs messages of other  *)
(* tasks, since one that was woken looks again; and the others exceed      *)
(* maxmsgs by less than the number of tasks that send.                     *)
NeverOverfilled ==
  \A q \in Queues :
    /\ \A t \in Tasks : call[t].q = q /\ call[t].at = "dosend" /\ call[t].msg.type = "FIXED"
                         => Cardinality(Sent(q)) < MaxMsgs
    /\ Cardinality(Sent(q)) < MaxMsgs + Cardinality(SendingTasks)

(* The senders of the messages of priority p in l, in the order of l.      *)
Positions(l, p) == {i \in DOMAIN l : l[i].prio = p}

Nth(D, k) == CHOOSE i \in D : Cardinality({j \in D : j <= i}) = k

OfPrio(l, p) == [k \in 1 .. Cardinality(Positions(l, p)) |-> l[Nth(Positions(l, p), k)].from]

(* The queues of PriorityQueue, and the messages its receivers were given: *)
(* those that mq_receive has taken and not freed yet.                      *)
FifoOf == [q \in Queues |-> [p \in Prios |-> OfPrio(msglist[q], p)]]

GotOf == [t \in Tasks |-> IF call[t].at = "doreceive"
                          THEN [prio |-> call[t].msg.prio, from |-> call[t].msg.from] ELSE None]

P == INSTANCE PriorityQueue WITH
       Senders <- Tasks \cup {Handler}, Receivers <- Tasks, fifo <- FifoOf, got <- GotOf

(* Every message is received once, the oldest of the highest priority      *)
(* first, whoever sends and whatever ends the calls: the queues implement  *)
(* PriorityQueue.                                                          *)
MessagesInOrder == P!PSpec

-----------------------------------------------------------------------------
(* What the documentation says and the code does not keep.                 *)

(* mq_timedreceive and mq_timedsend: the time given is "a ceiling on the   *)
(* time for which the call will block".                                    *)
TimedCallEnds ==
  \A t \in Tasks : call[t].wdog # None /\ msgwaitq[t] # None ~> msgwaitq[t] = None
=============================================================================
