----------------------------- MODULE Scheduler ------------------------------
(***************************************************************************)
(* The NuttX scheduler: tasks that create tasks, lock and unlock           *)
(* pre-emption, yield, change priorities and policies, block and exit,     *)
(* interleaved with interrupt handlers that wake blocked tasks and with    *)
(* clock ticks.                                                            *)
(*                                                                         *)
(* A step is what the code does with interrupts disabled (irqsave), or a   *)
(* stretch of code between two such regions that touches nothing an        *)
(* interrupt handler or another task reads.  Between two steps of a system *)
(* call an interrupt may come and, unless pre-emption is locked, another   *)
(* task may run: pc[t] says how far task t is in the call it makes.        *)
(***************************************************************************)
EXTENDS SchedOps

CONSTANTS Workload,          \* the calls the program of each task makes
          CreatePriorities,  \* priorities given to task_create
          SetPriorities,     \* priorities given to sched_setparam and sched_setscheduler
          UsedWaits,         \* the wait states tasks block in
          SlowToClose,       \* the tasks with streams or files whose closing may wait
          MaxNest            \* bound on the nesting of sched_lock in a program

CallNames == {"create", "lock", "yield", "setparam", "setscheduler", "block", "exit",
              "exit_locked", "delete", "restart", "restart_failing",
              "wait", "trywait", "timedwait"}

(* The idle task (os_start) only brings the system up: it creates the      *)
(* first tasks.  task_create is called with a valid priority.              *)
ASSUME WorkloadAssumption ==
  /\ Workload \in [Tasks -> SUBSET CallNames]
  /\ Workload[Idle] \subseteq {"create", "lock"}
ASSUME InputsAssumption ==
  /\ CreatePriorities \subseteq SCHED_PRIORITY_MIN .. SCHED_PRIORITY_MAX
  /\ SetPriorities \subseteq Int
  /\ UsedWaits \subseteq WaitStates
  /\ SlowToClose \subseteq Tasks
  /\ MaxNest \in Nat

VARIABLES s,   \* the scheduler state of SchedOps
          pc   \* for each task, where it is in the system call it makes

vars == <<s, pc>>

Labels == {"user", "assignpid_unlock", "schedsetup_lock", "schedsetup_unlock", "activate",
           "yield", "setscheduler_lock", "policy", "setparam",
           "setpriority", "unlock",
           "delete", "exithook", "delete_unlock", "release", "restart", "restart_activate"}

CreateLabels == {"assignpid_unlock", "schedsetup_lock", "schedsetup_unlock", "activate"}

(* In a call: the step to take next, the task the call is about, and the   *)
(* priority and policy it was given.                                       *)
Calls == [at : Labels, tcb : Tasks, pri : Int, rr : BOOLEAN]

User == [at |-> "user", tcb |-> Idle, pri |-> 0, rr |-> FALSE]

(* os_start: only the idle task exists, running at priority zero.          *)
InitSched ==
  [list           |-> [l \in Lists |-> IF l = "g_readytorun" THEN <<Idle>> ELSE <<>>],
   task_state     |-> [t \in Tasks |-> IF t = Idle THEN "RUNNING" ELSE "INVALID"],
   sched_priority |-> [t \in Tasks |-> 0],
   init_priority  |-> [t \in Tasks |-> 0],
   lockcount      |-> [t \in Tasks |-> 0],
   timeslice      |-> [t \in Tasks |-> 0],
   round_robin    |-> [t \in Tasks |-> FALSE],
   g_pidhash      |-> {Idle},
   panic          |-> {}]

Init ==
  /\ s = InitSched
  /\ pc = [t \in Tasks |-> User]

-----------------------------------------------------------------------------
(* Task t has the CPU and is at label at; nothing moves after a PANIC.     *)
At(t, at) ==
  /\ s.panic = {}
  /\ Running(s) = t
  /\ pc[t].at = at

(* Task t, in its own program, makes the call named c.                     *)
Makes(t, c) == At(t, "user") /\ c \in Workload[t]

Goto(t, at) == pc' = [pc EXCEPT ![t].at = at]

Return(t) == pc' = [pc EXCEPT ![t] = User]

(* A pid a program can name: task_create has returned it, or nobody has it.*)
Named(x) ==
  ~ \E t \in Tasks : pc[t].at \in CreateLabels /\ pc[t].tcb = x

-----------------------------------------------------------------------------
(* sched_lock() and sched_unlock() called by a program.                    *)

Lock(t) ==
  /\ Makes(t, "lock")
  /\ s.lockcount[t] < MaxNest
  /\ s' = sched_lock(s)
  /\ UNCHANGED pc

Unlock(t) ==
  /\ Makes(t, "lock")
  /\ s' = sched_unlock(s)
  /\ UNCHANGED pc

(* sched_yield reads its own priority, then sets it again: two steps,      *)
(* because sched_setpriority disables interrupts only after the read.      *)

YieldRead(t) ==
  /\ Makes(t, "yield")
  /\ pc' = [pc EXCEPT ![t] = [User EXCEPT !.at = "yield", !.tcb = t, !.pri = s.sched_priority[t]]]
  /\ UNCHANGED s

YieldSet(t) ==
  /\ At(t, "yield")
  /\ s' = sched_setpriority(s, t, pc[t].pri)
  /\ Return(t)

(* sched_setparam: sched_lock, look the pid up and set the priority,       *)
(* sched_unlock.  pid zero, the idle task's, means the caller.             *)

SetParam(t, x, pri) ==
  /\ Makes(t, "setparam")
  /\ Named(x) /\ x # Idle
  /\ s' = sched_lock(s)
  /\ pc' = [pc EXCEPT ![t] = [User EXCEPT !.at = "setparam", !.tcb = x, !.pri = pri]]

(* A pid that sched_gettcb does not find is ESRCH.                         *)
SetParamPriority(t) ==
  /\ At(t, "setparam")
  /\ s' = IF pc[t].tcb \in s.g_pidhash
          THEN sched_setpriority(s, pc[t].tcb, pc[t].pri) ELSE s
  /\ Goto(t, "unlock")

CallUnlock(t) ==
  /\ At(t, "unlock")
  /\ s' = sched_unlock(s)
  /\ Return(t)

(* sched_setscheduler: look the pid up, sched_lock, set the policy with    *)
(* interrupts disabled, set the priority, sched_unlock.                    *)

SetScheduler(t, x, pri, rr) ==
  /\ Makes(t, "setscheduler")
  /\ Named(x) /\ x # Idle /\ x \in s.g_pidhash
  /\ pc' = [pc EXCEPT ![t] = [at |-> "setscheduler_lock", tcb |-> x, pri |-> pri, rr |-> rr]]
  /\ UNCHANGED s

SetSchedulerLock(t) ==
  /\ At(t, "setscheduler_lock")
  /\ s' = sched_lock(s)
  /\ Goto(t, "policy")

SetPolicy(t) ==
  /\ At(t, "policy")
  /\ s' = [s EXCEPT !.round_robin[pc[t].tcb] = pc[t].rr,
                    !.timeslice[pc[t].tcb] = IF pc[t].rr THEN TimeSlice ELSE 0]
  /\ Goto(t, "setpriority")

(* The TCB found before the lock is used without a second look.            *)
SetPriority(t) ==
  /\ At(t, "setpriority")
  /\ s' = sched_setpriority(s, pc[t].tcb, pc[t].pri)
  /\ Goto(t, "unlock")

-----------------------------------------------------------------------------
(* task_create (thread_create): task_assignpid and task_schedsetup each    *)
(* lock and unlock pre-emption, then task_activate makes the task ready.   *)

(* sched_lock; the first free entry of g_pidhash takes the zeroed TCB.     *)
(* Pids count up, so the pid of a TCB that a task_delete still works on in *)
(* its exit hook is not given again, and a TCB that was freed under that   *)
(* hook is one that reads TSTATE_TASK_INVALID.                             *)
AssignPid(t, x, pri) ==
  /\ Makes(t, "create")
  /\ x \notin s.g_pidhash
  /\ ~ \E r \in Tasks : pc[r].at = "exithook" /\ pc[r].tcb = x
  /\ s' = [sched_lock(s) EXCEPT !.g_pidhash = @ \cup {x},
                                !.sched_priority[x] = 0, !.init_priority[x] = 0,
                                !.lockcount[x] = 0, !.timeslice[x] = 0,
                                !.round_robin[x] = FALSE]
  /\ pc' = [pc EXCEPT ![t] = [User EXCEPT !.at = "assignpid_unlock", !.tcb = x, !.pri = pri],
                      ![x] = User]

AssignPidUnlock(t) ==
  /\ At(t, "assignpid_unlock")
  /\ s' = sched_unlock(s)
  /\ Goto(t, "schedsetup_lock")

(* The priority, sched_lock, and the head of g_inactivetasks.              *)
SchedSetup(t) ==
  /\ At(t, "schedsetup_lock")
  /\ LET x == pc[t].tcb
     IN  s' = [sched_lock(s) EXCEPT !.sched_priority[x] = pc[t].pri,
                                    !.init_priority[x]  = pc[t].pri,
                                    !.list["g_inactivetasks"] = dq_addfirst(@, x),
                                    !.task_state[x] = "INACTIVE"]
  /\ Goto(t, "schedsetup_unlock")

SchedSetupUnlock(t) ==
  /\ At(t, "schedsetup_unlock")
  /\ s' = sched_unlock(s)
  /\ Goto(t, "activate")

Activate(t) ==
  /\ At(t, "activate")
  /\ s' = up_unblock_task(s, pc[t].tcb)
  /\ Return(t)

-----------------------------------------------------------------------------
(* A program blocks: sem_wait, mq_receive, mq_send and sigtimedwait end in *)
(* up_block_task(rtcb, st) with interrupts disabled.                       *)
Block(t, st) ==
  /\ Makes(t, "block")
  /\ s' = up_block_task(s, t, st)
  /\ UNCHANGED pc

(* An interrupt handler, or the running task, provides what x waits for.   *)
Unblock(x) ==
  /\ s.panic = {}
  /\ s.task_state[x] \in WaitStates
  /\ s' = up_unblock_task(s, x)
  /\ UNCHANGED pc

(* sched_process_timer, from the timer interrupt.                          *)
Tick ==
  /\ s.panic = {}
  /\ s' = sched_process_timeslice(s)
  /\ UNCHANGED pc

-----------------------------------------------------------------------------
(* exit: _exit disables interrupts and calls task_deletecurrent.           *)

(* sched_releasetcb, as far as other tasks can see.                        *)
sched_releasetcb(z, d) == [z EXCEPT !.g_pidhash = @ \ {d}]

(* The part of task_delete that follows the look-up of another task.       *)
DeleteOther(z, d) ==
  sched_releasetcb(sched_unlock(RemoveFromList(sched_lock(z), d)), d)

(* Variant: the successor is not locked while it stands in.                *)
task_deletecurrent_Unlocked(z) ==
  LET dtcb == Running(z)
      z1   == sched_removereadytorun(z, dtcb)
      rtcb == Running(z1)
      z2   == [z1 EXCEPT !.task_state[rtcb] = "READYTORUN"]
      z3   == DeleteOther(sched_addblocked(z2, dtcb, "INACTIVE"), dtcb)
  IN  MergeIfPending([z3 EXCEPT !.task_state[rtcb] = "RUNNING"])

(* The exiting task leaves g_readytorun; its successor, not running yet,   *)
(* is locked and stands in as the caller of task_delete; the pending tasks *)
(* are merged; sched_unlock releases the lock of the head.                 *)
task_deletecurrent(z) ==
  LET dtcb == Running(z)
      z1   == sched_removereadytorun(z, dtcb)
      rtcb == Running(z1)
      z2   == [sched_lock(z1) EXCEPT !.task_state[rtcb] = "READYTORUN"]
      z3   == DeleteOther(sched_addblocked(z2, dtcb, "INACTIVE"), dtcb)
      z4   == [z3 EXCEPT !.task_state[rtcb] = "RUNNING"]
  IN  sched_unlock(MergeIfPending(z4))

(* A program that exits has released pre-emption ("exit") or not           *)
(* ("exit_locked").                                                        *)
Exit(t) ==
  /\ Makes(t, IF s.lockcount[t] = 0 THEN "exit" ELSE "exit_locked")
  /\ s' = task_deletecurrent(s)
  /\ Return(t)

-----------------------------------------------------------------------------
(* Steps of the running task t.                                            *)
TaskStep(t) ==
  \/ Lock(t) \/ Unlock(t)
  \/ YieldRead(t) \/ YieldSet(t)
  \/ \E x \in Tasks, pri \in SetPriorities : SetParam(t, x, pri)
  \/ \E x \in Tasks, pri \in SetPriorities, rr \in BOOLEAN : SetScheduler(t, x, pri, rr)
  \/ SetSchedulerLock(t) \/ SetPolicy(t) \/ SetPriority(t)
  \/ SetParamPriority(t) \/ CallUnlock(t)
  \/ \E x \in Tasks, pri \in CreatePriorities : AssignPid(t, x, pri)
  \/ AssignPidUnlock(t) \/ SchedSetup(t) \/ SchedSetupUnlock(t) \/ Activate(t)
  \/ \E st \in UsedWaits : Block(t, st)
  \/ Exit(t)

Next ==
  \/ \E t \in Tasks : TaskStep(t)
  \/ \E x \in Tasks : Unblock(x)
  \/ Tick

Spec == Init /\ [][Next]_vars

-----------------------------------------------------------------------------
(* The types of the scheduler state and of the calls in progress.          *)
TypeOK ==
  /\ s \in SchedStates
  /\ pc \in [Tasks -> Calls]

(* A task is linked, once, in the list that g_tasklisttable gives for its  *)
(* task_state and in no other: every dq_rem and every walk relies on it.   *)
ListsConsistent == Consistent(s)

(* Every list that g_tasklisttable marks as prioritized is in priority     *)
(* order, which sched_addprioritized and sched_mergepending assume.        *)
ListsSorted == InOrder(s)

(* The idle task, alone at priority zero, ends g_readytorun: there is      *)
(* always a task to run and a place to insert before.                      *)
IdleLast == IdleEnds(s)

(* The head of g_readytorun, and nobody else, is marked RUNNING.           *)
OneRunning == HeadRuns(s)

(* Tasks are held back in g_pendingtasks only while the running task has   *)
(* pre-emption locked.                                                     *)
PendingOnlyWhileLocked == PendingIsLocked(s)

(* The promise of a priority scheduler: unless the running task has locked *)
(* pre-emption, no task that could run has a higher priority than it.      *)
HighestPriorityRuns ==
  s.lockcount[Running(s)] = 0 =>
    \A t \in Tasks : s.task_state[t] \in {"PENDING", "READYTORUN"} =>
      s.sched_priority[t] <= s.sched_priority[Running(s)]

(* No ASSERT fails and no PANIC is reached.                                *)
NoPanic == s.panic = {}

(* The steps of task t that may hand the CPU over: blocking, exiting,      *)
(* dropping the last lock, or setting its own priority.                    *)
GivesUp(t) ==
  \/ s'.task_state[t] \notin {"READYTORUN", "RUNNING"}
  \/ s'.lockcount[t] = 0
  \/ pc[t].at \in {"yield", "setparam", "setpriority"} /\ pc[t].tcb = t

(* While the running task has pre-emption locked, no interrupt and no tick *)
(* takes the CPU from it: only a step of its own does.                     *)
LockKeepsCPU ==
  [][s.lockcount[Running(s)] > 0 /\ Running(s') # Running(s) => GivesUp(Running(s))]_vars

(* The steps of a call between its sched_lock and its sched_unlock; of     *)
(* task_delete, those up to the exit hook of the task, which may wait.     *)
LockedLabels == {"assignpid_unlock", "schedsetup_unlock", "setparam", "policy", "setpriority",
                 "delete", "restart", "restart_activate"}

(* A call that works on another task's TCB has the CPU to itself from its  *)
(* sched_lock to its sched_unlock: no other task runs, so the TCB can      *)
(* neither go away nor change under it.  There are two exceptions.  A task *)
(* that sets its own priority may lose the CPU before it reaches the       *)
(* sched_unlock.  And task_delete calls the exit hook of the task with its *)
(* lock held: closing the files of a task in SlowToClose may wait, and     *)
(* then other tasks run, the one being deleted among them.                 *)
ExclusiveCalls ==
  \A t \in Tasks :
    \/ pc[t].at \in LockedLabels
    \/ pc[t].at = "unlock" /\ pc[t].tcb # t
    \/ pc[t].at = "exithook" /\ pc[t].tcb \notin SlowToClose
    => Running(s) = t /\ s.lockcount[t] > 0

(* t is about to set its own priority, or its time slice is over.          *)
TurnOver(t) ==
  \/ \E r \in Tasks : At(r, pc[r].at) /\ pc[r].at \in {"yield", "setparam", "setpriority"}
                      /\ pc[r].tcb = t
  \/ t = Running(s) /\ s.round_robin[t] /\ s.timeslice[t] <= 1 /\ s.lockcount[t] = 0

(* First come, first served within a priority: of two ready tasks of equal *)
(* priority the one ahead stays ahead, unless it yields, is given a        *)
(* priority, or has used up its time slice under round robin.  In          *)
(* particular a pre-empted task keeps its place.                           *)
FifoWithinPriority ==
  [][\A t, u \in Tasks :
       /\ Ahead(s.list["g_readytorun"], t, u)
       /\ Ahead(s'.list["g_readytorun"], u, t)
       /\ s.sched_priority[t] = s.sched_priority[u]
       /\ s'.sched_priority[u] = s.sched_priority[u]
       => TurnOver(t)]_vars

-----------------------------------------------------------------------------
(* The running task executes the call it is in, and the clock ticks.       *)
InCall(t) ==
  \/ YieldSet(t) \/ SetParamPriority(t) \/ SetPriority(t) \/ CallUnlock(t)
  \/ SetSchedulerLock(t) \/ SetPolicy(t)
  \/ AssignPidUnlock(t) \/ SchedSetup(t) \/ SchedSetupUnlock(t) \/ Activate(t)

Fairness ==
  /\ WF_vars(Tick)
  /\ WF_vars(\E t \in Tasks : InCall(t))

FairSpec == Spec /\ Fairness

=============================================================================
