----------------------------- MODULE Semaphore ------------------------------
(***************************************************************************)
(* Counting semaphores (sched/sem_*.c, without priority inheritance) on    *)
(* the scheduler and the watchdogs: tasks that wait, try, wait with a      *)
(* timeout and change priorities; posts and signals at any moment; the     *)
(* timer interrupt with its timeouts.                                      *)
(*                                                                         *)
(* sem_wait, sem_trywait, sem_post and sem_waitirq run with interrupts     *)
(* disabled: each is one step, and sem_wait another when a task that had   *)
(* to block runs again.  sem_timedwait enables interrupts before and after *)
(* its wait, around wd_create and wd_delete.                               *)
(***************************************************************************)
EXTENDS Scheduler, WdOps

CONSTANTS Sems, InitCount,
          SEM_VALUE_MAX,    \* include/limits.h
          MaxCount,         \* bounds the counts that posts pile up
          Timeouts          \* the ticks until the timeout of sem_timedwait; zero is a
                            \* time that has passed, a negative one no valid time

ASSUME SemAssumption ==
  /\ InitCount \in [Sems -> Nat] /\ Timeouts \subseteq Int
  /\ MaxCount \in Nat /\ SEM_VALUE_MAX \in Nat /\ MaxCount <= SEM_VALUE_MAX

(* There are CONFIG_MAX_TASKS TCBs; a NULL pointer and the words of        *)
(* CountingSem name no semaphore; and whoever waits for a semaphore is in  *)
(* one of the calls below.                                                 *)
ASSUME NamesAssumption ==
  /\ IsFiniteSet(Tasks)
  /\ {"NULL", "out", "granted", "failed"} \cap Sems = {} /\ "NULL" \notin Wdogs
  /\ "WAIT_SEM" \notin UsedWaits

VARIABLES semcount,         \* per semaphore
          waitsem, pterrno, \* per TCB
          sc,               \* per task: the step of its semaphore call, the
                            \* semaphore, the watchdog, and its last result
          g,                \* the watchdog state of WdOps
          parm,             \* per watchdog: the pid that sem_timeout is given
          isr               \* wd_timer is in its loop

semvars == <<semcount, waitsem, pterrno, sc, g, parm, isr>>
allvars == <<s, pc, semvars>>

Out(ret) == [at |-> "user", sem |-> "NULL", wdog |-> "NULL", ret |-> ret]

SemInit ==
  /\ semcount = InitCount
  /\ waitsem = [t \in Tasks |-> "NULL"]
  /\ pterrno = [t \in Tasks |-> "0"]
  /\ sc = [t \in Tasks |-> Out("none")]
  /\ g = wd_initialize
  /\ parm = [w \in Wdogs |-> Idle]
  /\ isr = FALSE

-----------------------------------------------------------------------------
(* Task t runs and is at a step of a semaphore call.                       *)
SemAt(t, at) == ~isr /\ At(t, "user") /\ sc[t].at = at

SemMakes(t, c) == SemAt(t, "user") /\ c \in Workload[t]

(* Take a count that is available.                                         *)
Takes(t, m) ==
  /\ semcount[m] > 0
  /\ semcount' = [semcount EXCEPT ![m] = @ - 1]
  /\ waitsem' = [waitsem EXCEPT ![t] = "NULL"]

(* The part of sem_wait that blocks, with errno cleared.                   *)
Blocks(t, m) ==
  /\ semcount[m] <= 0
  /\ semcount' = [semcount EXCEPT ![m] = @ - 1]
  /\ waitsem' = [waitsem EXCEPT ![t] = m]
  /\ pterrno' = [pterrno EXCEPT ![t] = "0"]
  /\ s' = up_block_task(PanicUnless(s, waitsem[t] = "NULL", "BADWAITSEM"), t, "WAIT_SEM")

(* A variant: the errno is not looked at.                                  *)
WaitResult_AlwaysOK(t) == "OK"

(* What sem_wait makes of errno when the task runs again.                  *)
WaitResult(t) == IF pterrno[t] \in {"EINTR", "ETIMEDOUT"} THEN "ERROR" ELSE "OK"

sem_wait(t, m) ==
  /\ SemMakes(t, "wait")
  /\ \/ /\ Takes(t, m)
        /\ pterrno' = [pterrno EXCEPT ![t] = "EINVAL"]
        /\ sc' = [sc EXCEPT ![t] = Out("OK")]
        /\ UNCHANGED s
     \/ /\ Blocks(t, m)
        /\ sc' = [sc EXCEPT ![t] = [@ EXCEPT !.at = "wait", !.sem = m]]
  /\ UNCHANGED <<pc, g, parm, isr>>

sem_wait_resumes(t) ==
  /\ SemAt(t, "wait")
  /\ sc' = [sc EXCEPT ![t] = Out(WaitResult(t))]
  /\ UNCHANGED <<s, pc, semcount, waitsem, pterrno, g, parm, isr>>

sem_trywait(t, m) ==
  /\ SemMakes(t, "trywait")
  /\ pterrno' = [pterrno EXCEPT ![t] = "EAGAIN"]
  /\ \/ /\ Takes(t, m)
        /\ sc' = [sc EXCEPT ![t] = Out("OK")]
     \/ /\ semcount[m] <= 0
        /\ sc' = [sc EXCEPT ![t] = Out("ERROR")]
        /\ UNCHANGED <<semcount, waitsem>>
  /\ UNCHANGED <<s, pc, g, parm, isr>>

(* A variant: the head of the list is woken, whatever it waits for.        *)
sem_post_AnyWaiter(m) ==
  LET q == s.list["g_waitingforsemaphore"]
  IN  /\ ~isr /\ s.panic = {} /\ semcount[m] < MaxCount
      /\ semcount' = [semcount EXCEPT ![m] = @ + 1]
      /\ IF semcount[m] + 1 <= 0 /\ q # <<>>
         THEN /\ waitsem' = [waitsem EXCEPT ![Head(q)] = "NULL"]
              /\ s' = up_unblock_task(s, Head(q))
         ELSE UNCHANGED <<waitsem, s>>
      /\ UNCHANGED <<pc, pterrno, sc, g, parm, isr>>

(* sem_post, by a task or an interrupt handler: the first task of the      *)
(* prioritized list that waits for this semaphore takes the count.         *)
sem_post(m) ==
  LET q       == s.list["g_waitingforsemaphore"]
      waiters == {i \in DOMAIN q : waitsem[q[i]] = m}
      stcb    == q[Min(waiters)]
      ok      == PanicUnless(s, semcount[m] < SEM_VALUE_MAX, "SEMCOUNT")
  IN  /\ ~isr /\ s.panic = {} /\ semcount[m] < MaxCount
      /\ semcount' = [semcount EXCEPT ![m] = @ + 1]
      /\ \/ /\ semcount[m] + 1 <= 0 /\ waiters # {}
            /\ waitsem' = [waitsem EXCEPT ![stcb] = "NULL"]
            /\ s' = up_unblock_task(ok, stcb)
         \/ /\ semcount[m] + 1 > 0 \/ waiters = {}
            /\ s' = ok
            /\ UNCHANGED waitsem
      /\ UNCHANGED <<pc, pterrno, sc, g, parm, isr>>

(* sem_waitirq ends the wait of x, if an interrupt or a context switch did *)
(* not beat it to that.                                                    *)
sem_waitirq(x, errcode) ==
  LET m == waitsem[x]
  IN  \/ /\ s.task_state[x] = "WAIT_SEM"
         /\ semcount' = [semcount EXCEPT ![m] = @ + 1]
         /\ waitsem' = [waitsem EXCEPT ![x] = "NULL"]
         /\ pterrno' = [pterrno EXCEPT ![x] = errcode]
         /\ s' = up_unblock_task(PanicUnless(s, semcount[m] < 0, "SEMCOUNT"), x)
      \/ /\ s.task_state[x] # "WAIT_SEM"
         /\ UNCHANGED <<semcount, waitsem, pterrno, s>>

(* sig_received, for a task that waits for a semaphore.                    *)
Signal(x) ==
  /\ ~isr /\ s.panic = {}
  /\ s.task_state[x] = "WAIT_SEM"
  /\ sem_waitirq(x, "EINTR")
  /\ UNCHANGED <<pc, sc, g, parm, isr>>

-----------------------------------------------------------------------------
(* sem_timedwait: a watchdog from the pool, or ENOMEM.                     *)
sem_timedwait(t, m) ==
  /\ SemMakes(t, "timedwait")
  /\ \/ /\ g.g_wdfreelist = <<>>
        /\ pterrno' = [pterrno EXCEPT ![t] = "ENOMEM"]
        /\ sc' = [sc EXCEPT ![t] = Out("ERROR")]
        /\ UNCHANGED g
     \/ /\ g.g_wdfreelist # <<>>
        /\ sc' = [sc EXCEPT ![t] = [@ EXCEPT !.at = "timed_try", !.sem = m,
                                             !.wdog = Head(g.g_wdfreelist)]]
        /\ g' = wd_create(g)
        /\ UNCHANGED pterrno
  /\ UNCHANGED <<s, pc, semcount, waitsem, parm, isr>>

(* With interrupts disabled: take the semaphore, find the time over, or    *)
(* start the watchdog and wait.                                            *)
TimedTry(t, ticks) ==
  LET m == sc[t].sem
      w == sc[t].wdog
  IN  /\ SemAt(t, "timed_try")
      /\ \/ /\ Takes(t, m)
            /\ pterrno' = [pterrno EXCEPT ![t] = "EAGAIN"]
            /\ sc' = [sc EXCEPT ![t] = [@ EXCEPT !.at = "timed_delete", !.ret = "OK"]]
            /\ UNCHANGED <<s, g, parm>>
         \/ /\ semcount[m] <= 0 /\ ticks <= 0
            /\ pterrno' = [pterrno EXCEPT ![t] = IF ticks < 0 THEN "EINVAL" ELSE "ETIMEDOUT"]
            /\ sc' = [sc EXCEPT ![t] = [@ EXCEPT !.at = "timed_delete", !.ret = "ERROR"]]
            /\ UNCHANGED <<s, semcount, waitsem, g, parm>>
         \/ /\ ticks > 0
            /\ g' = wd_start(g, w, ticks)
            /\ parm' = [parm EXCEPT ![w] = t]
            /\ Blocks(t, m)
            /\ sc' = [sc EXCEPT ![t].at = "timed_wait"]
      /\ UNCHANGED <<pc, isr>>

(* A variant: the watchdog is left running.                                *)
TimedResumes_Runs(t) ==
  /\ SemAt(t, "timed_wait")
  /\ sc' = [sc EXCEPT ![t] = [@ EXCEPT !.at = "timed_delete", !.ret = WaitResult(t)]]
  /\ UNCHANGED <<s, pc, semcount, waitsem, pterrno, g, parm, isr>>

(* The task runs again: wd_cancel before interrupts are enabled.           *)
TimedResumes(t) ==
  /\ SemAt(t, "timed_wait")
  /\ sc' = [sc EXCEPT ![t] = [@ EXCEPT !.at = "timed_delete", !.ret = WaitResult(t)]]
  /\ g' = wd_cancel(g, sc[t].wdog)
  /\ UNCHANGED <<s, pc, semcount, waitsem, pterrno, parm, isr>>

TimedDelete(t) ==
  /\ SemAt(t, "timed_delete")
  /\ g' = wd_delete(g, sc[t].wdog)
  /\ sc' = [sc EXCEPT ![t] = Out(@.ret)]
  /\ UNCHANGED <<s, pc, semcount, waitsem, pterrno, parm, isr>>

-----------------------------------------------------------------------------
(* sched_process_timer: wd_timer, which calls sem_timeout for each expired *)
(* watchdog, then the time slice.  Nothing else runs until it is over.     *)
TimerBegins ==
  /\ ~isr /\ s.panic = {}
  /\ g' = TimerCounts(g)
  /\ isr' = TRUE
  /\ UNCHANGED <<s, pc, semcount, waitsem, pterrno, sc, parm>>

(* Variants: the count is not given back; the errno is written even when   *)
(* the wait is over.                                                       *)
sem_timeout_KeepsCount(x) ==
  LET waits == s.task_state[x] = "WAIT_SEM"
  IN  /\ s' = IF waits THEN up_unblock_task(s, x) ELSE s
      /\ waitsem' = [waitsem EXCEPT ![x] = IF waits THEN "NULL" ELSE @]
      /\ pterrno' = [pterrno EXCEPT ![x] = IF waits THEN "ETIMEDOUT" ELSE @]
      /\ UNCHANGED semcount

sem_timeout_LateErrno(x) ==
  LET waits == s.task_state[x] = "WAIT_SEM"
  IN  /\ semcount' = [m \in Sems |-> IF waits /\ waitsem[x] = m THEN semcount[m] + 1
                                     ELSE semcount[m]]
      /\ waitsem' = [waitsem EXCEPT ![x] = "NULL"]
      /\ pterrno' = [pterrno EXCEPT ![x] = "ETIMEDOUT"]
      /\ s' = IF waits THEN up_unblock_task(s, x) ELSE s

(* sem_timeout, for the pid given to wd_start, if there is such a task.    *)
sem_timeout(x) ==
  \/ x \in s.g_pidhash /\ sem_waitirq(x, "ETIMEDOUT")
  \/ x \notin s.g_pidhash /\ UNCHANGED <<semcount, waitsem, pterrno, s>>

Timeout ==
  /\ isr /\ s.panic = {} /\ Expired(g)
  /\ g' = TimerRemoves(g)
  /\ sem_timeout(parm[Head(g.g_wdactivelist)])
  /\ UNCHANGED <<pc, sc, parm, isr>>

TimerEnds ==
  /\ isr /\ s.panic = {} /\ ~Expired(g)
  /\ s' = sched_process_timeslice(s)
  /\ isr' = FALSE
  /\ UNCHANGED <<pc, semcount, waitsem, pterrno, sc, g, parm>>

-----------------------------------------------------------------------------
(* The other calls of a task that is in no semaphore call, its exit among  *)
(* them.  A new TCB is zeroed.                                             *)
OtherCall(t) ==
  /\ ~isr /\ sc[t].at = "user"
  /\ TaskStep(t)
  /\ LET new == s'.g_pidhash \ s.g_pidhash
     IN  /\ waitsem' = [x \in Tasks |-> IF x \in new THEN "NULL" ELSE waitsem[x]]
         /\ pterrno' = [x \in Tasks |-> IF x \in new THEN "0" ELSE pterrno[x]]
  /\ UNCHANGED <<semcount, sc, g, parm, isr>>

SemStep(t) ==
  \/ \E m \in Sems : sem_wait(t, m) \/ sem_trywait(t, m) \/ sem_timedwait(t, m)
  \/ sem_wait_resumes(t) \/ TimedResumes(t) \/ TimedDelete(t)
  \/ \E ticks \in Timeouts : TimedTry(t, ticks)

SemNext ==
  \/ \E t \in Tasks : SemStep(t) \/ OtherCall(t)
  \/ \E m \in Sems : sem_post(m)
  \/ \E x \in Tasks : Signal(x)
  \/ TimerBegins \/ Timeout \/ TimerEnds

SemSpec == Init /\ SemInit /\ [][SemNext]_allvars

(* The timer interrupt keeps coming and runs to its end.                   *)
SemFairness == WF_allvars(TimerBegins) /\ WF_allvars(Timeout \/ TimerEnds)

-----------------------------------------------------------------------------
WaitingFor(m) == {t \in Tasks : s.task_state[t] = "WAIT_SEM" /\ waitsem[t] = m}

(* A negative count is the number of tasks that wait for the semaphore,    *)
(* and nobody waits while a count is available: no post is lost between a  *)
(* timeout, a signal, another post and a task on its way into the wait.    *)
CountIsWaiters ==
  /\ \A m \in Sems : IF semcount[m] < 0 THEN Cardinality(WaitingFor(m)) = -semcount[m]
                     ELSE WaitingFor(m) = {}
  /\ \A t \in Tasks : waitsem[t] # "NULL" <=> s.task_state[t] = "WAIT_SEM"

(* How a task's call looks to CountingSem.                                 *)
CallSeen(t) ==
  IF s.task_state[t] = "WAIT_SEM" THEN waitsem[t]
  ELSE IF sc[t].at \notin {"wait", "timed_wait"} THEN "out"
  ELSE IF pterrno[t] \in {"EINTR", "ETIMEDOUT"} THEN "failed" ELSE "granted"

C == INSTANCE CountingSem WITH
       avail <- [m \in Sems |-> IF semcount[m] > 0 THEN semcount[m] ELSE 0],
       call  <- [t \in Tasks |-> CallSeen(t)],
       ret   <- [t \in Tasks |-> sc[t].ret]

(* Every wait takes exactly one count or none, and says so, whichever of a *)
(* post, a timeout and a signal comes first and however long the task      *)
(* waits to run again: the semaphores implement CountingSem.               *)
CountsKept == C!CSpec

(* A post wakes a task of the highest priority among those that wait for   *)
(* the semaphore at that moment, also after a change of their priorities.  *)
PostWakesHighest ==
  [][\A m \in Sems : \A x \in WaitingFor(m) :
       /\ s'.task_state[x] # "WAIT_SEM"
       /\ pterrno'[x] = "0"
       => \A y \in WaitingFor(m) : s.sched_priority[y] <= s.sched_priority[x]]_allvars

(* The watchdogs in use are those of the timed waits in progress, one      *)
(* each; a watchdog counts only while its own task is in that wait, so no  *)
(* late timeout ends a later wait, and no path out of sem_timedwait leaks. *)
TimeoutIsOwn ==
  /\ ~g.wdnotfound
  /\ \A w \in Wdogs :
       \/ Linked(g.g_wdfreelist, w) /\ ~g.active[w]
       \/ \E t \in Tasks : /\ sc[t].wdog = w
                           /\ \A u \in Tasks \ {t} : sc[u].wdog # w
                           /\ g.active[w] => sc[t].at = "timed_wait" /\ parm[w] = t

(* A timed wait comes to an end, with or without the semaphore.            *)
TimedWaitEnds ==
  \A t \in Tasks : sc[t].at = "timed_wait" ~> s.task_state[t] # "WAIT_SEM"

=============================================================================
