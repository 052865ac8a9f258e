------------------------------ MODULE SchedOps ------------------------------
(***************************************************************************)
(* The internal operations of the scheduler (sched/sched_*.c and the       *)
(* context switching entry points of arch/arm/src/armv7-m), each as an     *)
(* operator from a scheduler state to the scheduler state it leaves.  A    *)
(* system call, an interrupt handler or a clock tick is a composition of   *)
(* these operators, so the modules that need the scheduler share them.     *)
(*                                                                         *)
(* A scheduler state s is a record:                                        *)
(*   s.list            the task lists g_readytorun, g_pendingtasks, ...    *)
(*   s.task_state, s.sched_priority, s.init_priority, s.lockcount,         *)
(*   s.timeslice, s.round_robin                                            *)
(*                     the fields of the TCBs                              *)
(*   s.g_pidhash       the tasks that sched_gettcb finds                   *)
(*   s.panic           the PANICs and failed ASSERTs met so far            *)
(* The CPU runs the task at the head of g_readytorun.                      *)
(***************************************************************************)
EXTENDS TaskList

CONSTANTS Tasks,            \* the TCBs, the idle task's included
          Idle,             \* g_idletcb
          MAX_LOCK_COUNT,   \* include/nuttx/sched.h
          TimeSlice         \* CONFIG_RR_INTERVAL / MSEC_PER_TICK

ASSUME IdleAssumption == Idle \in Tasks
ASSUME BoundsAssumption == MAX_LOCK_COUNT \in Nat /\ TimeSlice \in Nat

SCHED_PRIORITY_MIN == 1
SCHED_PRIORITY_MAX == 255

-----------------------------------------------------------------------------
(* tstate_e and g_tasklisttable.                                           *)

WaitStates == {"WAIT_SEM", "WAIT_SIG", "WAIT_MQNOTEMPTY", "WAIT_MQNOTFULL"}

BlockedStates == {"INACTIVE"} \cup WaitStates

TaskStates == {"INVALID", "PENDING", "READYTORUN", "RUNNING"} \cup BlockedStates

Lists == {"g_pendingtasks", "g_readytorun", "g_inactivetasks",
          "g_waitingforsemaphore", "g_waitingforsignal",
          "g_waitingformqnotempty", "g_waitingformqnotfull"}

(* The list column of g_tasklisttable.                                     *)
tasklist(st) ==
  CASE st = "INVALID"                  -> "NULL"
    [] st = "PENDING"                  -> "g_pendingtasks"
    [] st \in {"READYTORUN", "RUNNING"} -> "g_readytorun"
    [] st = "INACTIVE"                 -> "g_inactivetasks"
    [] st = "WAIT_SEM"                 -> "g_waitingforsemaphore"
    [] st = "WAIT_SIG"                 -> "g_waitingforsignal"
    [] st = "WAIT_MQNOTEMPTY"          -> "g_waitingformqnotempty"
    [] st = "WAIT_MQNOTFULL"           -> "g_waitingformqnotfull"

(* The prioritized column of g_tasklisttable.                              *)
prioritized(st) ==
  st \notin {"INVALID", "INACTIVE", "WAIT_SIG"}

PrioritizedLists == Lists \ {"g_inactivetasks", "g_waitingforsignal"}

-----------------------------------------------------------------------------
(* PANIC and ASSERT stop the system: record why.                           *)
Panics == {"PRIORITY_MIN", "LOCKED_SWITCH", "NOIDLETASK", "NULL_LIST", "MAX_LOCK_COUNT",
           "BADUNBLOCKSTATE", "BADBLOCKSTATE", "BADREPRIORITIZESTATE", "BADDELETESTATE",
           "BADWAITSEM", "SEMCOUNT", "MQNONEMPTYCOUNT", "MQNOTFULLCOUNT", "OUTOFMESSAGES"}

PanicUnless(s, ok, why) ==
  IF ok THEN s ELSE [s EXCEPT !.panic = @ \cup {why}]

(* The task the CPU executes.                                              *)
Running(s) == Head(s.list["g_readytorun"])

(* sched_addprioritized on one of the lists, with its sanity check.        *)
AddPrioritized(s, l, t) ==
  PanicUnless([s EXCEPT !.list[l] = sched_addprioritized(@, s.sched_priority, t)],
              s.sched_priority[t] >= SCHED_PRIORITY_MIN, "PRIORITY_MIN")

(* A variant: pre-emption although the running task has it locked.         *)
sched_addreadytorun_IgnoresLock(s, t) ==
  LET s1   == AddPrioritized(s, "g_readytorun", t)
      next == s1.list["g_readytorun"][2]
  IN  IF Running(s1) = t
      THEN [s1 EXCEPT !.task_state = [@ EXCEPT ![t] = "RUNNING", ![next] = "READYTORUN"]]
      ELSE [s1 EXCEPT !.task_state[t] = "READYTORUN"]

(* sched_addreadytorun: a task that would preempt a running task that has  *)
(* pre-emption disabled goes to g_pendingtasks.  It returns true when t    *)
(* was added at the head, that is, when Running has become t.              *)
sched_addreadytorun(s, t) ==
  LET rtcb == Running(s)
      s1   == AddPrioritized(s, "g_readytorun", t)
      next == s1.list["g_readytorun"][2]
  IN  IF s.lockcount[rtcb] > 0 /\ s.sched_priority[rtcb] < s.sched_priority[t]
      THEN [AddPrioritized(s, "g_pendingtasks", t) EXCEPT !.task_state[t] = "PENDING"]
      ELSE IF Running(s1) = t
           THEN [PanicUnless(s1, s.lockcount[rtcb] = 0, "LOCKED_SWITCH")
                   EXCEPT !.task_state = [@ EXCEPT ![t] = "RUNNING", ![next] = "READYTORUN"]]
           ELSE [s1 EXCEPT !.task_state[t] = "READYTORUN"]

(* sched_removereadytorun: it returns true when t was the head.            *)
sched_removereadytorun(s, t) ==
  LET q  == s.list["g_readytorun"]
      s1 == [s EXCEPT !.list["g_readytorun"] = dq_rem(@, t),
                      !.task_state[t] = "INVALID"]
  IN  IF Head(q) # t THEN s1
      ELSE IF Len(q) = 1 THEN PanicUnless(s1, FALSE, "NOIDLETASK")
      ELSE [s1 EXCEPT !.task_state[q[2]] = "RUNNING"]

(* Variants: the pending task is inserted behind rtrtcb; the old head of   *)
(* g_readytorun keeps its state.                                           *)
MergeOne_Behind(s, m, p) ==
  LET i == SearchFrom(m.list, s.sched_priority, s.sched_priority[p], m.at)
  IN  [list  |-> InsertAt(m.list, i + 1, p), at |-> i,
       state |-> [m.state EXCEPT ![p] = "READYTORUN"], panic |-> m.panic]

MergeOne_KeepsHead(s, m, p) ==
  LET i == SearchFrom(m.list, s.sched_priority, s.sched_priority[p], m.at)
  IN  [list  |-> InsertAt(m.list, i, p), at |-> i,
       state |-> [m.state EXCEPT ![p] = IF i = 1 THEN "RUNNING" ELSE "READYTORUN"],
       panic |-> m.panic]

(* One turn of the loop of sched_mergepending: m.list is g_readytorun so   *)
(* far, m.at the position of rtrtcb, from which the search goes on.        *)
MergeOne(s, m, p) ==
  LET i == SearchFrom(m.list, s.sched_priority, s.sched_priority[p], m.at)
  IN  IF i = Len(m.list) + 1
      THEN [m EXCEPT !.panic = TRUE]
      ELSE [list  |-> InsertAt(m.list, i, p),
            at    |-> i,
            state |-> IF i = 1
                      THEN [m.state EXCEPT ![m.list[1]] = "READYTORUN", ![p] = "RUNNING"]
                      ELSE [m.state EXCEPT ![p] = "READYTORUN"],
            panic |-> m.panic]

(* The loop, after k pending tasks.                                        *)
MergeLoop(s) ==
  LET pnd == s.list["g_pendingtasks"]
      merge[k \in 0 .. Len(pnd)] ==
        IF k = 0 THEN [list |-> s.list["g_readytorun"], at |-> 1,
                       state |-> s.task_state, panic |-> FALSE]
        ELSE MergeOne(s, merge[k-1], pnd[k])
  IN  merge

(* sched_mergepending: it returns true when Running has changed.           *)
sched_mergepending(s) ==
  LET m == MergeLoop(s)[Len(s.list["g_pendingtasks"])]
  IN  PanicUnless([s EXCEPT !.list["g_readytorun"]   = m.list,
                            !.list["g_pendingtasks"] = <<>>,
                            !.task_state             = m.state],
                  ~m.panic, "NOIDLETASK")

(* The test `if (g_pendingtasks.head)' every caller makes first.           *)
MergeIfPending(s) ==
  IF s.list["g_pendingtasks"] = <<>> THEN s ELSE sched_mergepending(s)

-----------------------------------------------------------------------------
(* The blocked lists.                                                      *)

sched_addblocked(s, t, st) ==
  LET l  == tasklist(st)
      s1 == IF prioritized(st) THEN AddPrioritized(s, l, t)
            ELSE [s EXCEPT !.list[l] = dq_addlast(@, t)]
  IN  [s1 EXCEPT !.task_state[t] = st]

(* A variant: the entry stays linked.                                      *)
RemoveFromList_Linked(s, t) == [s EXCEPT !.task_state[t] = "INVALID"]

(* dq_rem from the list the task's state names, and TSTATE_TASK_INVALID.   *)
(* The list of an INVALID task is a NULL pointer.                          *)
RemoveFromList(s, t) ==
  IF s.task_state[t] = "INVALID" THEN PanicUnless(s, FALSE, "NULL_LIST")
  ELSE [s EXCEPT !.list[tasklist(s.task_state[t])] = dq_rem(@, t),
                 !.task_state[t] = "INVALID"]

sched_removeblocked(s, t) ==
  PanicUnless(RemoveFromList(s, t), s.task_state[t] \in BlockedStates, "BADUNBLOCKSTATE")

-----------------------------------------------------------------------------
(* Context switching.  The switch itself saves the registers of the old    *)
(* head of g_readytorun and restores those of the new one: nothing to do,  *)
(* since the CPU is taken to run the head.                                 *)

(* A variant: the pending tasks are forgotten.                             *)
up_block_task_NoMerge(s, t, st) ==
  sched_addblocked(sched_removereadytorun(s, t), t, st)

up_block_task(s, t, st) ==
  IF s.task_state[t] \notin {"READYTORUN", "RUNNING"}
  THEN PanicUnless(s, FALSE, "BADBLOCKSTATE")
  ELSE MergeIfPending(sched_addblocked(sched_removereadytorun(s, t), t, st))

up_unblock_task(s, t) ==
  IF s.task_state[t] \notin BlockedStates
  THEN PanicUnless(s, FALSE, "BADUNBLOCKSTATE")
  ELSE sched_addreadytorun([sched_removeblocked(s, t) EXCEPT !.timeslice[t] = TimeSlice], t)

up_release_pending(s) == sched_mergepending(s)

(* A variant: the pending tasks are forgotten.                             *)
up_reprioritize_rtr_NoMerge(s, t, pri) ==
  sched_addreadytorun([sched_removereadytorun(s, t) EXCEPT !.sched_priority[t] = pri], t)

(* Remove, change the priority, add again; a switch is needed when one and *)
(* only one of the two changes the head, and only then are the pending     *)
(* tasks merged.                                                           *)
up_reprioritize_rtr(s, t, pri) ==
  IF \/ s.task_state[t] \notin {"READYTORUN", "RUNNING"}
     \/ pri \notin SCHED_PRIORITY_MIN .. SCHED_PRIORITY_MAX
  THEN PanicUnless(s, FALSE, "BADREPRIORITIZESTATE")
  ELSE LET s1 == [sched_removereadytorun(s, t) EXCEPT !.sched_priority[t] = pri]
           s2 == sched_addreadytorun(s1, t)
           switch_needed == (Running(s) = t) # (Running(s2) = t)
       IN  IF switch_needed THEN MergeIfPending(s2) ELSE s2

-----------------------------------------------------------------------------
(* The pre-emption lock.  Both act on the task at the head of              *)
(* g_readytorun, whichever task that is.                                   *)

sched_lock(s) ==
  PanicUnless([s EXCEPT !.lockcount[Running(s)] = @ + 1],
              s.lockcount[Running(s)] < MAX_LOCK_COUNT, "MAX_LOCK_COUNT")

(* Variants: no check that the count is positive; no release of the        *)
(* pending tasks.                                                          *)
sched_unlock_Unguarded(s) ==
  LET s1 == [s EXCEPT !.lockcount[Running(s)] = @ - 1]
  IN  IF s1.lockcount[Running(s)] <= 0 /\ s.list["g_pendingtasks"] # <<>>
      THEN up_release_pending(s1)
      ELSE s1

sched_unlock_NoRelease(s) ==
  [s EXCEPT !.lockcount[Running(s)] = IF @ > 0 THEN @ - 1 ELSE 0]

sched_unlock(s) ==
  LET rtcb == Running(s)
      s1   == [s EXCEPT !.lockcount[rtcb] = IF @ > 0 THEN @ - 1 ELSE 0]
  IN  IF s1.lockcount[rtcb] = 0 /\ s.list["g_pendingtasks"] # <<>>
      THEN up_release_pending(s1)
      ELSE s1

-----------------------------------------------------------------------------
(* Variants: the task stays where it is in its list; the priority is not   *)
(* checked.                                                                *)
sched_setpriority_InPlace(s, t, pri) ==
  IF pri \notin SCHED_PRIORITY_MIN .. SCHED_PRIORITY_MAX THEN s
  ELSE [s EXCEPT !.sched_priority[t] = pri]

sched_setpriority_Unchecked(s, t, pri) ==
  IF s.task_state[t] \in {"READYTORUN", "RUNNING"} THEN up_reprioritize_rtr(s, t, pri)
  ELSE [s EXCEPT !.sched_priority[t] = pri]

(* sched_setpriority, which is sched_reprioritize when priority            *)
(* inheritance is not configured.  An invalid priority is EINVAL.          *)

sched_setpriority(s, t, pri) ==
  LET rtcb == Running(s)
      next == s.list["g_readytorun"][2]
      st   == s.task_state[t]
      set(x) == [x EXCEPT !.sched_priority[t] = pri]
      relist == AddPrioritized(set([s EXCEPT !.list[tasklist(st)] = dq_rem(@, t)]),
                               tasklist(st), t)
  IN  IF pri \notin SCHED_PRIORITY_MIN .. SCHED_PRIORITY_MAX THEN s
      ELSE IF st = "RUNNING"
      THEN IF pri <= s.sched_priority[next] THEN up_reprioritize_rtr(s, t, pri) ELSE set(s)
      ELSE IF st = "READYTORUN"
      THEN IF pri > s.sched_priority[rtcb] THEN up_reprioritize_rtr(s, t, pri)
           ELSE LET s1 == sched_addreadytorun(set(sched_removereadytorun(s, t)), t)
                IN  PanicUnless(s1, Running(s1) # t, "LOCKED_SWITCH")
      ELSE IF prioritized(st) THEN relist ELSE set(s)

(* Variants: the time slice of a task that has locked pre-emption, or of a *)
(* SCHED_FIFO task, ends too; a new slice and no switch.                   *)
sched_process_timeslice_IgnoresLock(s) ==
  LET rtcb == Running(s)
  IN  IF ~s.round_robin[rtcb] THEN s
      ELSE IF s.timeslice[rtcb] > 1 THEN [s EXCEPT !.timeslice[rtcb] = @ - 1]
      ELSE up_reprioritize_rtr([s EXCEPT !.timeslice[rtcb] = TimeSlice],
                               rtcb, s.sched_priority[rtcb])

sched_process_timeslice_IgnoresPolicy(s) ==
  LET rtcb == Running(s)
  IN  IF s.timeslice[rtcb] > 1 THEN [s EXCEPT !.timeslice[rtcb] = @ - 1]
      ELSE IF s.lockcount[rtcb] > 0 \/ rtcb = Idle THEN s
      ELSE up_reprioritize_rtr([s EXCEPT !.timeslice[rtcb] = TimeSlice],
                               rtcb, s.sched_priority[rtcb])

sched_process_timeslice_NoSwitch(s) ==
  LET rtcb == Running(s)
  IN  [s EXCEPT !.timeslice[rtcb] = IF @ > 1 THEN @ - 1 ELSE TimeSlice]

(* sched_process_timeslice, called from every clock tick.                  *)
sched_process_timeslice(s) ==
  LET rtcb == Running(s)
      q    == s.list["g_readytorun"]
      s1   == [s EXCEPT !.timeslice[rtcb] = TimeSlice]
  IN  IF ~s.round_robin[rtcb] THEN s
      ELSE IF s.timeslice[rtcb] > 1 THEN [s EXCEPT !.timeslice[rtcb] = @ - 1]
      ELSE IF s.lockcount[rtcb] > 0 THEN s
      ELSE IF Len(q) > 1 /\ s.sched_priority[q[2]] >= s.sched_priority[rtcb]
           THEN up_reprioritize_rtr(s1, rtcb, s.sched_priority[rtcb])
           ELSE s1

-----------------------------------------------------------------------------
(* What a scheduler state looks like and what the operations preserve.     *)

SchedStates ==
  [list           : [Lists -> Seq(Tasks)],
   task_state     : [Tasks -> TaskStates],
   sched_priority : [Tasks -> 0 .. SCHED_PRIORITY_MAX],
   init_priority  : [Tasks -> 0 .. SCHED_PRIORITY_MAX],
   lockcount      : [Tasks -> Nat],
   timeslice      : [Tasks -> 0 .. TimeSlice],
   round_robin    : [Tasks -> BOOLEAN],
   g_pidhash      : SUBSET Tasks,
   panic          : SUBSET Panics]

Consistent(z) ==
  \A l \in Lists :
    /\ Distinct(z.list[l])
    /\ \A t \in Tasks : Linked(z.list[l], t) <=> tasklist(z.task_state[t]) = l

InOrder(z) ==
  \A l \in PrioritizedLists : Sorted(z.list[l], z.sched_priority)

IdleEnds(z) ==
  /\ z.list["g_readytorun"] # <<>>
  /\ Last(z.list["g_readytorun"]) = Idle
  /\ z.sched_priority[Idle] = 0
  /\ \A t \in Tasks \ {Idle} : z.task_state[t] # "INVALID" => z.sched_priority[t] > 0

HeadRuns(z) ==
  \A t \in Tasks : z.task_state[t] = "RUNNING" <=> t = Running(z)

PendingIsLocked(z) ==
  z.list["g_pendingtasks"] # <<>> => z.lockcount[Running(z)] > 0
=============================================================================
