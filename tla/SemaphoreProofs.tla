-------------------------- MODULE SemaphoreProofs ---------------------------
(***************************************************************************)
(* The semaphores, for any number of tasks, semaphores and watchdogs: the  *)
(* counts, the timeouts, the order in which posts wake the waiting tasks,  *)
(* and the refinement of CountingSem.  The scheduler's part of a step is   *)
(* SchedulerProofs', the watchdogs' part WdOpsProofs'.                     *)
(***************************************************************************)
EXTENDS Semaphore, SchedulerProofs, WdOpsProofs

Waits(z, t) == z.task_state[t] = "WAIT_SEM"

Waiters(z, ws, m) == {t \in Tasks : Waits(z, t) /\ ws[t] = m}

(* The counts n are those of the tasks that wait in z, for the semaphores  *)
(* that ws says: CountIsWaiters with its types.                            *)
Counted(z, ws, n) ==
  /\ n \in [Sems -> Int] /\ ws \in [Tasks -> Sems \cup {"NULL"}]
  /\ \A m \in Sems : IF n[m] < 0 THEN Cardinality(Waiters(z, ws, m)) = -n[m]
                     ELSE Waiters(z, ws, m) = {}
  /\ \A t \in Tasks : ws[t] # "NULL" <=> Waits(z, t)

Errnos == {"0", "EINVAL", "EAGAIN", "ENOMEM", "EINTR", "ETIMEDOUT"}

SemCalls ==
  [at : {"user", "wait", "timed_try", "timed_wait", "timed_delete"},
   sem : Sems \cup {"NULL"}, wdog : Wdogs \cup {"NULL"}, ret : {"none", "OK", "ERROR"}]

(* What holds of a task that is, by r, in a semaphore call.                *)
CallOK(z, t, r, e) ==
  /\ r.at \in {"user", "wait"} => r.wdog = "NULL"
  /\ r.at \notin {"user", "wait"} => r.sem \in Sems /\ r.wdog \in Wdogs
  /\ r.at # "user" => t \in z.g_pidhash /\ t # Idle
  /\ Waits(z, t) => r.at \in {"wait", "timed_wait"} /\ e = "0"

CallsOK(z, c, e) ==
  /\ c \in [Tasks -> SemCalls] /\ e \in [Tasks -> Errnos]
  /\ \A t \in Tasks : CallOK(z, t, c[t], e[t])

(* The watchdogs are in the pool or in a timed wait, one each, and run     *)
(* only while their task waits; none is due outside the timer interrupt.   *)
Owned(c, f, p) ==
  /\ \A w \in Wdogs : Linked(f.g_wdfreelist, w) \/ \E t \in Tasks : c[t].wdog = w
  /\ \A t \in Tasks : c[t].wdog \in Wdogs =>
       /\ ~Linked(f.g_wdfreelist, c[t].wdog)
       /\ \A u \in Tasks \ {t} : c[u].wdog # c[t].wdog
       /\ f.active[c[t].wdog] => c[t].at = "timed_wait" /\ p[c[t].wdog] = t

TimersOK(c, f, p, i) ==
  /\ WdSound(f) /\ p \in [Wdogs -> Tasks] /\ i \in BOOLEAN
  /\ ~i => ~Expired(f)
  /\ Owned(c, f, p)

(* The inductive invariant.                                                *)
SemInv ==
  /\ IInv
  /\ Counted(s, waitsem, semcount)
  /\ CallsOK(s, sc, pterrno)
  /\ TimersOK(sc, g, parm, isr)

-----------------------------------------------------------------------------
(* The counts.                                                             *)

(* The waiting tasks of a semaphore are finitely many.                     *)
LEMMA WaitersFinite ==
  ASSUME NEW z, NEW ws, NEW m
  PROVE  IsFiniteSet(Waiters(z, ws, m)) /\ Cardinality(Waiters(z, ws, m)) \in Nat
<1>1. Waiters(z, ws, m) \subseteq Tasks
  BY DEF Waiters
<1>2. IsFiniteSet(Waiters(z, ws, m))
  BY <1>1, NamesAssumption, FS_Subset
<1> QED BY <1>2, FS_CardinalityType

(* A semaphore that a task waits for has a negative count, and one with a  *)
(* negative count has a task that waits for it.                            *)
LEMMA SomebodyWaits ==
  ASSUME NEW z, NEW ws, NEW n, Counted(z, ws, n), NEW m \in Sems
  PROVE  n[m] \in Int /\ (n[m] < 0 <=> \E t \in Tasks : Waits(z, t) /\ ws[t] = m)
<1> DEFINE W == Waiters(z, ws, m)
<1>1. n[m] \in Int
  BY DEF Counted
<1>2. IF n[m] < 0 THEN Cardinality(W) = -n[m] ELSE W = {}
  BY DEF Counted
<1>3. W = {} <=> ~ \E t \in Tasks : Waits(z, t) /\ ws[t] = m
  BY DEF Waiters
<1>4. IsFiniteSet(W)
  BY WaitersFinite
<1> HIDE DEF W
<1>5. Cardinality(W) = 0 <=> W = {}
  BY <1>4, FS_EmptySet
<1> QED BY <1>1, <1>2, <1>3, <1>5

(* Nobody begins or ends a wait, and no count of a semaphore that is       *)
(* waited for changes.                                                     *)
LEMMA CountsStay ==
  ASSUME NEW z, NEW ws, NEW n, Counted(z, ws, n), NEW y, NEW vs, NEW k \in [Sems -> Int],
         \A t \in Tasks : Waits(y, t) <=> Waits(z, t),
         vs \in [Tasks -> Sems \cup {"NULL"}], \A t \in Tasks : vs[t] = ws[t],
         \A m \in Sems : k[m] = n[m] \/ (n[m] >= 0 /\ k[m] >= 0)
  PROVE  Counted(y, vs, k)
<1>1. ASSUME NEW m \in Sems
      PROVE  IF k[m] < 0 THEN Cardinality(Waiters(y, vs, m)) = -k[m] ELSE Waiters(y, vs, m) = {}
  <2>1. Waiters(y, vs, m) = Waiters(z, ws, m)
    BY DEF Waiters
  <2>2. IF n[m] < 0 THEN Cardinality(Waiters(z, ws, m)) = -n[m] ELSE Waiters(z, ws, m) = {}
    BY DEF Counted
  <2>3. n[m] \in Int /\ k[m] \in Int /\ (k[m] = n[m] \/ (n[m] >= 0 /\ k[m] >= 0))
    BY DEF Counted
  <2>4. CASE k[m] = n[m]
    BY <2>1, <2>2, <2>4
  <2>5. CASE n[m] >= 0 /\ k[m] >= 0
    BY <2>1, <2>2, <2>3, <2>5
  <2> QED BY <2>3, <2>4, <2>5
<1>2. \A t \in Tasks : vs[t] # "NULL" <=> Waits(y, t)
  BY DEF Counted
<1> QED BY <1>1, <1>2 DEF Counted

(* A task begins to wait for m, which has no count available.              *)
LEMMA CountsEnter ==
  ASSUME NEW z, NEW ws, NEW n, Counted(z, ws, n), NEW y, NEW t \in Tasks, NEW m \in Sems,
         ~Waits(z, t), Waits(y, t), \A x \in Tasks \ {t} : Waits(y, x) <=> Waits(z, x),
         n[m] <= 0
  PROVE  Counted(y, [ws EXCEPT ![t] = m], [n EXCEPT ![m] = @ - 1])
<1> DEFINE vs == [ws EXCEPT ![t] = m]
           k == [n EXCEPT ![m] = @ - 1]
           W == Waiters(z, ws, m)
<1>1. n \in [Sems -> Int] /\ ws \in [Tasks -> Sems \cup {"NULL"}] /\ m # "NULL" /\ n[m] \in Int
  BY NamesAssumption DEF Counted
<1>2. /\ k \in [Sems -> Int] /\ k[m] = n[m] - 1 /\ \A l \in Sems \ {m} : k[l] = n[l]
      /\ vs \in [Tasks -> Sems \cup {"NULL"}] /\ vs[t] = m /\ \A x \in Tasks \ {t} : vs[x] = ws[x]
  BY <1>1
<1> HIDE DEF k, vs
<1>3. Waiters(y, vs, m) = W \cup {t} /\ t \notin W
  BY <1>2 DEF Waiters
<1>4. \A l \in Sems \ {m} : Waiters(y, vs, l) = Waiters(z, ws, l)
  BY <1>2 DEF Waiters
<1>5. IF n[m] < 0 THEN Cardinality(W) = -n[m] ELSE W = {}
  BY DEF Counted
<1>6. IsFiniteSet(W) /\ Cardinality(W) \in Nat
  BY WaitersFinite
<1> HIDE DEF W
<1>7. Cardinality(W) = -n[m]
  BY <1>1, <1>5, <1>6, FS_EmptySet
<1>8. Cardinality(W \cup {t}) = Cardinality(W) + 1
  BY <1>3, <1>6, FS_AddElement
<1>9. ASSUME NEW l \in Sems
      PROVE  IF k[l] < 0 THEN Cardinality(Waiters(y, vs, l)) = -k[l] ELSE Waiters(y, vs, l) = {}
  <2>1. CASE l = m
    BY <2>1, <1>1, <1>2, <1>3, <1>6, <1>7, <1>8
  <2>2. CASE l # m
    <3>1. IF n[l] < 0 THEN Cardinality(Waiters(z, ws, l)) = -n[l] ELSE Waiters(z, ws, l) = {}
      BY DEF Counted
    <3> QED BY <2>2, <3>1, <1>2, <1>4
  <2> QED BY <2>1, <2>2
<1>10. \A x \in Tasks : vs[x] # "NULL" <=> Waits(y, x)
  BY <1>1, <1>2 DEF Counted
<1> QED BY <1>2, <1>9, <1>10 DEF Counted, k, vs

(* A task that waits for m is woken or gives up, and the count goes up.    *)
LEMMA CountsLeave ==
  ASSUME NEW z, NEW ws, NEW n, Counted(z, ws, n), NEW y, NEW t \in Tasks, NEW m \in Sems,
         Waits(z, t), ws[t] = m, ~Waits(y, t), \A x \in Tasks \ {t} : Waits(y, x) <=> Waits(z, x)
  PROVE  Counted(y, [ws EXCEPT ![t] = "NULL"], [n EXCEPT ![m] = @ + 1])
<1> DEFINE vs == [ws EXCEPT ![t] = "NULL"]
           k == [n EXCEPT ![m] = @ + 1]
           W == Waiters(z, ws, m)
<1>1. n \in [Sems -> Int] /\ ws \in [Tasks -> Sems \cup {"NULL"}] /\ m # "NULL" /\ n[m] \in Int
  BY NamesAssumption DEF Counted
<1>2. /\ k \in [Sems -> Int] /\ k[m] = n[m] + 1 /\ \A l \in Sems \ {m} : k[l] = n[l]
      /\ vs \in [Tasks -> Sems \cup {"NULL"}] /\ vs[t] = "NULL"
      /\ \A x \in Tasks \ {t} : vs[x] = ws[x]
  BY <1>1
<1>3. n[m] < 0
  BY SomebodyWaits
<1> HIDE DEF k, vs
<1>4. Waiters(y, vs, m) = W \ {t} /\ t \in W
  BY <1>2 DEF Waiters
<1>5. \A l \in Sems \ {m} : Waiters(y, vs, l) = Waiters(z, ws, l)
  BY <1>2 DEF Waiters
<1>6. Cardinality(W) = -n[m]
  BY <1>3 DEF Counted
<1>7. IsFiniteSet(W) /\ Cardinality(W) \in Nat
  BY WaitersFinite
<1> HIDE DEF W
<1>8. IsFiniteSet(W \ {t}) /\ Cardinality(W \ {t}) = Cardinality(W) - 1
  BY <1>4, <1>7, FS_RemoveElement
<1>9. Cardinality(W \ {t}) = 0 <=> W \ {t} = {}
  BY <1>8, FS_EmptySet
<1>10. ASSUME NEW l \in Sems
       PROVE  IF k[l] < 0 THEN Cardinality(Waiters(y, vs, l)) = -k[l] ELSE Waiters(y, vs, l) = {}
  <2>1. CASE l = m
    <3>1. Cardinality(W \ {t}) = -k[m] /\ k[m] <= 0
      BY <1>1, <1>2, <1>3, <1>6, <1>7, <1>8
    <3>2. IF k[m] < 0 THEN Cardinality(W \ {t}) = -k[m] ELSE W \ {t} = {}
      BY <3>1, <1>1, <1>2, <1>9
    <3> QED BY <2>1, <3>2, <1>4
  <2>2. CASE l # m
    <3>1. IF n[l] < 0 THEN Cardinality(Waiters(z, ws, l)) = -n[l] ELSE Waiters(z, ws, l) = {}
      BY DEF Counted
    <3> QED BY <2>2, <3>1, <1>2, <1>5
  <2> QED BY <2>1, <2>2
<1>11. \A x \in Tasks : vs[x] # "NULL" <=> Waits(y, x)
  BY <1>1, <1>2 DEF Counted
<1> QED BY <1>2, <1>10, <1>11 DEF Counted, k, vs

-----------------------------------------------------------------------------
(* The scheduler's part of a step.                                         *)

(* Waiting for a semaphore is being in neither g_readytorun nor            *)
(* g_pendingtasks, so what leaves those tasks alone leaves the waits alone.*)
LEMMA WaitsStay ==
  /\ "WAIT_SEM" \in Unready /\ "WAIT_SEM" \in BlockedStates
  /\ \A y, z : UnreadyStay(y, z) => \A x \in Tasks : Waits(y, x) <=> Waits(z, x)
  /\ \A y, z : \A t \in Tasks : OthersStay(y, z, t) =>
                 \A x \in Tasks \ {t} : Waits(y, x) <=> Waits(z, x)
<1>1. "WAIT_SEM" \in Unready /\ "WAIT_SEM" \in BlockedStates
  BY UnreadyStates DEF BlockedStates, WaitStates
<1> QED BY <1>1 DEF UnreadyStay, OthersStay, Waits

(* Nobody begins or ends a wait for a semaphore.                           *)
WaitsKept == \A x \in Tasks : Waits(s', x) <=> Waits(s, x)

(* The task that is moved is in no such wait before or after.              *)
LEMMA OneStays ==
  ASSUME NEW d \in Tasks, OthersStay(s', s, d), ~Waits(s, d), ~Waits(s', d)
  PROVE  WaitsKept
BY WaitsStay DEF WaitsKept

(* sched_unlock, wherever it is called.                                    *)
LEMMA UnlockWaits ==
  ASSUME IInv, s' = sched_unlock(s)
  PROVE  WaitsKept /\ s'.g_pidhash = s.g_pidhash
<1>1. UnreadyStay(s', s) /\ SameRest(s', s)
  BY IInvParts, UnlockSound
<1> QED BY <1>1, WaitsStay DEF WaitsKept, SameRest

(* sched_lock, wherever it is called.                                      *)
LEMMA LockWaits ==
  ASSUME IInv, s' = sched_lock(s)
  PROVE  WaitsKept /\ s'.g_pidhash = s.g_pidhash
<1>1. UnreadyStay(s', s) /\ s'.g_pidhash = s.g_pidhash
  BY IInvParts, LockSound
<1> QED BY <1>1, WaitsStay DEF WaitsKept

(* sched_setpriority of the task a call is about.                          *)
LEMMA SetWaits ==
  ASSUME IInv, NEW t \in Tasks, NEW x \in Tasks \ {Idle}, s' = sched_setpriority(s, x, pc[t].pri)
  PROVE  WaitsKept /\ s'.g_pidhash = s.g_pidhash
<1>1. pc[t].pri \in Int
  BY IInvParts, CallTypes
<1>2. UnreadyStay(s', s) /\ SameRest(s', s)
  BY <1>1, IInvParts, SetPrioritySound
<1> QED BY <1>2, WaitsStay DEF WaitsKept, SameRest

(* The TCB of a call in progress is not the idle task's.                   *)
LEMMA CallTcb ==
  ASSUME IInv, NEW t \in Tasks, pc[t].at # "user"
  PROVE  pc[t].tcb \in Tasks \ {Idle}
BY IInvParts, CallTypes DEF CallInv

(* task_assignpid changes no task_state.                                   *)
LEMMA AssignPidWaits ==
  ASSUME IInv, NEW t \in Tasks, NEW x \in Tasks, NEW pri \in CreatePriorities, AssignPid(t, x, pri)
  PROVE  WaitsKept /\ s.g_pidhash \subseteq s'.g_pidhash
<1> DEFINE zl == sched_lock(s)
<1>1. s' = [zl EXCEPT !.g_pidhash = @ \cup {x},
                      !.sched_priority[x] = 0, !.init_priority[x] = 0,
                      !.lockcount[x] = 0, !.timeslice[x] = 0,
                      !.round_robin[x] = FALSE]
  BY DEF AssignPid
<1>2. zl \in SchedStates /\ zl.task_state = s.task_state /\ zl.g_pidhash = s.g_pidhash
  <2>1. Sound(zl) /\ zl.task_state = s.task_state /\ zl.g_pidhash = s.g_pidhash
    BY IInvParts, LockSound
  <2> QED BY <2>1 DEF Sound, WellFormed
<1> HIDE DEF zl
<1>3. s'.task_state = s.task_state /\ s'.g_pidhash = s.g_pidhash \cup {x}
  BY <1>1, <1>2 DEF SchedStates
<1> QED BY <1>3 DEF WaitsKept, Waits

(* task_schedsetup makes the new task INACTIVE.                            *)
LEMMA SchedSetupWaits ==
  ASSUME IInv, NEW t \in Tasks, SchedSetup(t)
  PROVE  WaitsKept /\ s'.g_pidhash = s.g_pidhash
<1> DEFINE zl == sched_lock(s)
           x == pc[t].tcb
<1>1. /\ s' = [zl EXCEPT !.sched_priority[x] = pc[t].pri, !.init_priority[x] = pc[t].pri,
                         !.list["g_inactivetasks"] = dq_addfirst(@, x),
                         !.task_state[x] = "INACTIVE"]
      /\ pc[t].at = "schedsetup_lock"
  BY DEF SchedSetup, At
<1>2. zl \in SchedStates /\ zl.task_state = s.task_state /\ zl.g_pidhash = s.g_pidhash
  <2>1. Sound(zl) /\ zl.task_state = s.task_state /\ zl.g_pidhash = s.g_pidhash
    BY IInvParts, LockSound
  <2> QED BY <2>1 DEF Sound, WellFormed
<1>3. x \in Tasks /\ s.task_state[x] = "INVALID"
  BY <1>1, CallTcb, IInvParts DEF CreateInv, CreateLabels
<1> HIDE DEF zl, x
<1>4. s'.task_state = [s.task_state EXCEPT ![x] = "INACTIVE"] /\ s'.g_pidhash = s.g_pidhash
  BY <1>1, <1>2 DEF SchedStates
<1>5. s.task_state \in [Tasks -> TaskStates]
  BY IInvParts DEF SchedStates
<1> QED BY <1>3, <1>4, <1>5 DEF WaitsKept, Waits

(* task_activate wakes a task that was INACTIVE.                           *)
LEMMA ActivateWaits ==
  ASSUME IInv, NEW t \in Tasks, Activate(t)
  PROVE  WaitsKept /\ s'.g_pidhash = s.g_pidhash
<1> DEFINE d == pc[t].tcb
<1>1. s' = up_unblock_task(s, d) /\ pc[t].at = "activate"
  BY DEF Activate, At
<1>2. d \in Tasks \ {Idle} /\ s.task_state[d] = "INACTIVE" /\ s.task_state[d] \in BlockedStates
  <2>1. d \in Tasks \ {Idle} /\ s.task_state[d] = "INACTIVE"
    BY <1>1, CallTcb, IInvParts DEF CreateInv, CreateLabels
  <2> QED BY <2>1 DEF BlockedStates
<1> HIDE DEF d
<1>3. OthersStay(s', s, d) /\ s'.task_state[d] \notin Unready /\ SameRest(s', s)
  BY <1>1, <1>2, IInvParts, UnblockSound
<1>4. ~Waits(s, d) /\ ~Waits(s', d)
  BY <1>2, <1>3, WaitsStay DEF Waits
<1> QED BY <1>2, <1>3, <1>4, OneStays DEF SameRest

(* A wait for something else than a semaphore.                             *)
LEMMA BlockWaits ==
  ASSUME IInv, NEW t \in Tasks, NEW st \in UsedWaits, Block(t, st)
  PROVE  WaitsKept /\ s'.g_pidhash = s.g_pidhash
<1>1. s' = up_block_task(s, t, st) /\ Running(s) = t /\ t \in Tasks \ {Idle}
  BY IdleCalls DEF Block, Makes, At
<1>2. st \in BlockedStates /\ st # "WAIT_SEM"
  BY InputsAssumption, NamesAssumption DEF BlockedStates
<1>3. OthersStay(s', s, t) /\ s'.task_state[t] = st /\ SameRest(s', s)
  BY <1>1, <1>2, IInvParts, BlockSound, ZenonT(30)
<1>4. ~Waits(s, t) /\ ~Waits(s', t)
  BY <1>1, <1>2, <1>3, RunningState DEF Waits
<1> QED BY <1>3, <1>4, OneStays DEF SameRest

(* The task that exits gives up its pid.                                   *)
LEMMA ExitWaits ==
  ASSUME IInv, NEW t \in Tasks, Exit(t)
  PROVE  WaitsKept /\ s'.g_pidhash = s.g_pidhash \ {t}
<1>1. s' = task_deletecurrent(s) /\ Running(s) = t /\ t \in Tasks \ {Idle}
  BY WorkloadAssumption DEF Exit, Makes, At
<1>2. OthersStay(s', s, t) /\ s'.task_state[t] = "INVALID" /\ s'.g_pidhash = s.g_pidhash \ {t}
  BY <1>1, IInvParts, DeleteCurrentSound
<1>3. ~Waits(s, t) /\ ~Waits(s', t)
  BY <1>1, <1>2, RunningState DEF Waits
<1> QED BY <1>2, <1>3, OneStays

(* No call but those on semaphores begins or ends a wait for one, and only *)
(* the caller can lose its pid.                                            *)
LEMMA TaskStepWaits ==
  ASSUME IInv, NEW t \in Tasks, TaskStep(t)
  PROVE  WaitsKept /\ s.g_pidhash \ {t} \subseteq s'.g_pidhash
<1>1. CASE Lock(t) \/ SetSchedulerLock(t) \/ \E x \in Tasks, pri \in SetPriorities : SetParam(t, x, pri)
  <2>1. s' = sched_lock(s)
    BY <1>1 DEF Lock, SetSchedulerLock, SetParam
  <2> QED BY <2>1, LockWaits
<1>2. CASE Unlock(t) \/ CallUnlock(t) \/ AssignPidUnlock(t) \/ SchedSetupUnlock(t)
  <2>1. s' = sched_unlock(s)
    BY <1>2 DEF Unlock, CallUnlock, AssignPidUnlock, SchedSetupUnlock
  <2> QED BY <2>1, UnlockWaits
<1>3. CASE \/ YieldRead(t)
           \/ \E x \in Tasks, pri \in SetPriorities, rr \in BOOLEAN : SetScheduler(t, x, pri, rr)
  <2>1. s' = s
    BY <1>3 DEF YieldRead, SetScheduler
  <2> QED BY <2>1 DEF WaitsKept
<1>4. CASE YieldSet(t)
  <2>1. s' = sched_setpriority(s, t, pc[t].pri) /\ t \in Tasks \ {Idle}
    BY <1>4, IdleLabels DEF YieldSet, CreateLabels
  <2> QED BY <2>1, SetWaits
<1>5. CASE SetPriority(t) \/ SetParamPriority(t)
  <2>1. /\ pc[t].at # "user"
        /\ s' = s \/ s' = sched_setpriority(s, pc[t].tcb, pc[t].pri)
    BY <1>5 DEF SetPriority, SetParamPriority, At
  <2>2. CASE s' = s
    BY <2>2 DEF WaitsKept
  <2>3. CASE s' = sched_setpriority(s, pc[t].tcb, pc[t].pri)
    BY <2>1, <2>3, CallTcb, SetWaits
  <2> QED BY <2>1, <2>2, <2>3
<1>6. CASE SetPolicy(t)
  <2>1. s'.task_state = s.task_state /\ s'.g_pidhash = s.g_pidhash
    BY <1>6, IInvParts DEF SetPolicy, SchedStates
  <2> QED BY <2>1 DEF WaitsKept, Waits
<1>7. CASE \E x \in Tasks, pri \in CreatePriorities : AssignPid(t, x, pri)
  BY <1>7, AssignPidWaits
<1>8. CASE SchedSetup(t) \/ Activate(t)
  BY <1>8, SchedSetupWaits, ActivateWaits
<1>9. CASE \E st \in UsedWaits : Block(t, st)
  BY <1>9, BlockWaits
<1>10. CASE Exit(t)
  BY <1>10, ExitWaits
<1> QED BY <1>1, <1>2, <1>3, <1>4, <1>5, <1>6, <1>7, <1>8, <1>9, <1>10 DEF TaskStep

(* The running task is blocked.                                            *)
LEMMA BlockRunning ==
  ASSUME IInv, NEW t \in Tasks \ {Idle}, Running(s) = t, NEW st \in BlockedStates,
         NEW y, y = up_block_task(s, t, st)
  PROVE  Sound(y) /\ SameRest(y, s) /\ OthersStay(y, s, t) /\ y.task_state[t] = st
BY IInvParts, BlockSound, ZenonT(30)

(* sem_wait blocks the running task.                                       *)
LEMMA BlockForSem ==
  ASSUME IInv, NEW t \in Tasks \ {Idle}, Running(s) = t, s.panic = {}, pc' = pc,
         s' = up_block_task(s, t, "WAIT_SEM")
  PROVE  /\ IInv' /\ Waits(s', t) /\ s'.g_pidhash = s.g_pidhash
         /\ \A x \in Tasks \ {t} : Waits(s', x) <=> Waits(s, x)
<1>1. Sound(s') /\ SameRest(s', s) /\ OthersStay(s', s, t) /\ s'.task_state[t] = "WAIT_SEM"
  <2>1. "WAIT_SEM" \in BlockedStates
    BY WaitsStay
  <2> QED BY <2>1, BlockRunning
<1>2. s.task_state[t] = "RUNNING" /\ t \in s.g_pidhash
  BY RunningState, ListedHasPid
<1>3. \A u \in Tasks : pc'[u].at \in CreateLabels => pc'[u] = pc[u] /\ pc[u].tcb # t
  BY <1>2, CreatedTasks
<1>4. s'.panic \subseteq {"MAX_LOCK_COUNT"} /\ s'.g_pidhash = s.g_pidhash /\ CallInv(pc')
  BY <1>1, IInvParts DEF SameRest
<1>5. IInv'
  BY <1>1, <1>2, <1>3, <1>4, OneTaskStep
<1> QED BY <1>1, <1>4, <1>5, WaitsStay DEF Waits

(* A task that waits for a semaphore is made ready.                        *)
LEMMA WakeFromSem ==
  ASSUME IInv, NEW x \in Tasks, Waits(s, x), s.panic = {}, pc' = pc, s' = up_unblock_task(s, x)
  PROVE  /\ IInv' /\ ~Waits(s', x) /\ s'.g_pidhash = s.g_pidhash
         /\ \A y \in Tasks \ {x} : Waits(s', y) <=> Waits(s, y)
<1>1. s.task_state[x] \in WaitStates /\ s.task_state[x] \in BlockedStates
  BY DEF Waits, WaitStates, BlockedStates
<1>2. Unblock(x)
  BY <1>1 DEF Unblock
<1>3. x \in Tasks \ {Idle}
  BY <1>1, WaitingIsNotIdle
<1>4. SameRest(s', s) /\ OthersStay(s', s, x) /\ s'.task_state[x] \notin Unready
  BY <1>1, <1>3, IInvParts, UnblockSound
<1> QED BY <1>2, <1>4, UnblockStep, WaitsStay DEF Waits, SameRest

(* A task that runs waits for nothing.                                     *)
LEMMA RunsIsOut ==
  ASSUME SemInv, NEW t \in Tasks, NEW at, SemAt(t, at)
  PROVE  /\ ~isr /\ s.panic = {} /\ Running(s) = t /\ ~Waits(s, t) /\ waitsem[t] = "NULL"
         /\ t \in s.g_pidhash /\ sc[t].at = at
<1>1. ~isr /\ s.panic = {} /\ Running(s) = t /\ sc[t].at = at
  BY DEF SemAt, At
<1>2. s.task_state[t] = "RUNNING" /\ t \in s.g_pidhash
  BY <1>1, RunningState, ListedHasPid DEF SemInv
<1>3. ~Waits(s, t)
  BY <1>2 DEF Waits
<1> QED BY <1>1, <1>2, <1>3 DEF SemInv, Counted

-----------------------------------------------------------------------------
(* The calls and the watchdogs.                                            *)

(* The fields of a call.                                                   *)
LEMMA CallFields ==
  ASSUME NEW c \in [Tasks -> SemCalls], NEW t \in Tasks
  PROVE  /\ c[t] \in SemCalls
         /\ c[t].at \in {"user", "wait", "timed_try", "timed_wait", "timed_delete"}
         /\ c[t].sem \in Sems \cup {"NULL"} /\ c[t].wdog \in Wdogs \cup {"NULL"}
         /\ c[t].ret \in {"none", "OK", "ERROR"}
BY DEF SemCalls

(* A watchdog is active exactly while ticks remain to it.                  *)
LEMMA ActiveIsLeft ==
  ASSUME NEW z, WdSound(z)
  PROVE  \A w \in Wdogs : z.active[w] <=> Left(z)[w] # -1
<1>1. \A w \in Wdogs : /\ Left(z)[w] \in Int
                       /\ z.active[w] => Left(z)[w] >= 0
                       /\ ~z.active[w] => Left(z)[w] = -1
  BY ExpiredIsDue
<1> QED BY <1>1

(* No watchdog changes hands or starts; the task of one that runs stays in *)
(* its wait.                                                               *)
LEMMA OwnersStay ==
  ASSUME NEW c, NEW f, NEW p, Owned(c, f, p), NEW c2, NEW f2,
         \A t \in Tasks : c2[t].wdog = c[t].wdog,
         \A w \in Wdogs : Linked(f2.g_wdfreelist, w) <=> Linked(f.g_wdfreelist, w),
         \A t \in Tasks : c[t].wdog \in Wdogs /\ f2.active[c[t].wdog] =>
           f.active[c[t].wdog] /\ (c[t].at = "timed_wait" => c2[t].at = "timed_wait")
  PROVE  Owned(c2, f2, p)
BY DEF Owned

(* sem_timedwait takes a watchdog from the pool.                           *)
LEMMA OwnerTakes ==
  ASSUME NEW c, NEW f, NEW p, TimersOK(c, f, p, FALSE), f.g_wdfreelist # <<>>,
         NEW t \in Tasks, c[t].wdog = "NULL", NEW c2,
         c2[t].wdog = Head(f.g_wdfreelist), \A x \in Tasks \ {t} : c2[x] = c[x]
  PROVE  TimersOK(c2, wd_create(f), p, FALSE)
<1> DEFINE f2 == wd_create(f)
           w == Head(f.g_wdfreelist)
<1>1. /\ WdSound(f2) /\ Left(f2) = Left(f) /\ w \in Wdogs /\ Linked(f.g_wdfreelist, w)
      /\ \A x \in Wdogs : Linked(f2.g_wdfreelist, x) <=> Linked(f.g_wdfreelist, x) /\ x # w
  BY CreateSound DEF TimersOK
<1> HIDE DEF f2, w
<1>2. \A x \in Wdogs : f2.active[x] <=> f.active[x]
  BY <1>1, ActiveIsLeft DEF TimersOK
<1>3. ~Expired(f2)
  BY <1>1, ExpiredIsDue DEF TimersOK
<1>4. ~f.active[w]
  BY <1>1 DEF TimersOK, WdSound
<1>5. Owned(c2, f2, p)
  <2>1. c2[t].wdog = w
    BY DEF w
  <2>2. \A x \in Wdogs : Linked(f2.g_wdfreelist, x) \/ \E u \in Tasks : c2[u].wdog = x
    BY <1>1, <2>1, NamesAssumption DEF TimersOK, Owned
  <2>3. ASSUME NEW u \in Tasks, c2[u].wdog \in Wdogs
        PROVE  /\ ~Linked(f2.g_wdfreelist, c2[u].wdog)
               /\ \A x \in Tasks \ {u} : c2[x].wdog # c2[u].wdog
               /\ f2.active[c2[u].wdog] => c2[u].at = "timed_wait" /\ p[c2[u].wdog] = u
    <3>1. CASE u = t
      <4>1. \A x \in Tasks \ {t} : c[x].wdog # w
        BY <1>1 DEF TimersOK, Owned
      <4> QED BY <3>1, <4>1, <2>1, <1>1, <1>2, <1>4
    <3>2. CASE u # t
      <4>1. /\ c2[u] = c[u] /\ ~Linked(f.g_wdfreelist, c[u].wdog)
            /\ \A x \in Tasks \ {u} : c[x].wdog # c[u].wdog
            /\ f.active[c[u].wdog] => c[u].at = "timed_wait" /\ p[c[u].wdog] = u
        BY <2>3, <3>2 DEF TimersOK, Owned
      <4>2. c[u].wdog # w
        BY <1>1, <4>1
      <4> QED BY <2>1, <2>3, <4>1, <4>2, <1>1, <1>2
    <3> QED BY <3>1, <3>2
  <2> QED BY <2>2, <2>3 DEF Owned
<1> QED BY <1>1, <1>3, <1>5 DEF TimersOK, f2

(* sem_timedwait starts its watchdog, and waits.                           *)
LEMMA OwnerStarts ==
  ASSUME NEW c, NEW f, NEW p, TimersOK(c, f, p, FALSE), NEW t \in Tasks, NEW ticks \in Nat,
         c[t].wdog \in Wdogs, NEW c2, c2[t].wdog = c[t].wdog, c2[t].at = "timed_wait",
         \A x \in Tasks \ {t} : c2[x] = c[x]
  PROVE  TimersOK(c2, wd_start(f, c[t].wdog, ticks), [p EXCEPT ![c[t].wdog] = t], FALSE)
<1> DEFINE w == c[t].wdog
           f2 == wd_start(f, w, ticks)
           p2 == [p EXCEPT ![w] = t]
<1>1. w \in Wdogs /\ ~Linked(f.g_wdfreelist, w) /\ \A u \in Tasks \ {t} : c[u].wdog # w
  BY DEF TimersOK, Owned
<1>2. /\ WdSound(f2) /\ f2.g_wdfreelist = f.g_wdfreelist
      /\ Left(f2) = [Left(f) EXCEPT ![w] = AtLeast(ticks)]
  BY <1>1, StartSound DEF TimersOK
<1>3. AtLeast(ticks) \in Int /\ AtLeast(ticks) # 0 /\ AtLeast(ticks) # -1
  BY DEF AtLeast
<1>4. p2 \in [Wdogs -> Tasks] /\ p2[w] = t /\ \A x \in Wdogs \ {w} : p2[x] = p[x]
  BY <1>1 DEF TimersOK
<1> HIDE DEF w, f2, p2
<1>5. ~Expired(f2)
  BY <1>1, <1>2, <1>3, NotDueStays DEF TimersOK
<1>6. \A x \in Wdogs \ {w} : f2.active[x] <=> f.active[x]
  <2>1. \A x \in Wdogs \ {w} : Left(f2)[x] = Left(f)[x]
    BY <1>2 DEF Left
  <2>2. \A x \in Wdogs : (f.active[x] <=> Left(f)[x] # -1) /\ (f2.active[x] <=> Left(f2)[x] # -1)
    BY <1>2, ActiveIsLeft DEF TimersOK
  <2> QED BY <2>1, <2>2
<1>7. Owned(c2, f2, p2)
  <2>1. c2[t].wdog = w
    BY DEF w
  <2>2. \A x \in Wdogs : Linked(f2.g_wdfreelist, x) \/ \E u \in Tasks : c2[u].wdog = x
    <3>1. \A u \in Tasks : c2[u].wdog = c[u].wdog
      OBVIOUS
    <3> QED BY <3>1, <1>2 DEF TimersOK, Owned
  <2>3. ASSUME NEW u \in Tasks, c2[u].wdog \in Wdogs
        PROVE  /\ ~Linked(f2.g_wdfreelist, c2[u].wdog)
               /\ \A x \in Tasks \ {u} : c2[x].wdog # c2[u].wdog
               /\ f2.active[c2[u].wdog] => c2[u].at = "timed_wait" /\ p2[c2[u].wdog] = u
    <3>1. CASE u = t
      BY <3>1, <2>1, <1>1, <1>2, <1>4
    <3>2. CASE u # t
      <4>1. /\ c2[u] = c[u] /\ c[u].wdog # w /\ ~Linked(f.g_wdfreelist, c[u].wdog)
            /\ \A x \in Tasks \ {u} : c[x].wdog # c[u].wdog
            /\ f.active[c[u].wdog] => c[u].at = "timed_wait" /\ p[c[u].wdog] = u
        BY <2>3, <3>2, <1>1 DEF TimersOK, Owned
      <4> QED BY <2>1, <2>3, <4>1, <1>2, <1>4, <1>6
    <3> QED BY <3>1, <3>2
  <2> QED BY <2>2, <2>3 DEF Owned
<1> QED BY <1>2, <1>4, <1>5, <1>7 DEF TimersOK, f2, p2, w

(* The wait is over: the watchdog is stopped before interrupts are enabled.*)
LEMMA OwnerStops ==
  ASSUME NEW c, NEW f, NEW p, TimersOK(c, f, p, FALSE), NEW t \in Tasks,
         c[t].wdog \in Wdogs, NEW c2, c2[t].wdog = c[t].wdog,
         \A x \in Tasks \ {t} : c2[x] = c[x]
  PROVE  TimersOK(c2, wd_cancel(f, c[t].wdog), p, FALSE)
<1> DEFINE w == c[t].wdog
           f2 == wd_cancel(f, w)
<1>1. w \in Wdogs
  OBVIOUS
<1>2. /\ WdSound(f2) /\ f2.g_wdfreelist = f.g_wdfreelist
      /\ Left(f2) = [Left(f) EXCEPT ![w] = -1]
  BY <1>1, CancelSound DEF TimersOK
<1> HIDE DEF w, f2
<1>3. ~Expired(f2)
  BY <1>1, <1>2, NotDueStays DEF TimersOK
<1>4. \A x \in Wdogs : f2.active[x] <=> f.active[x] /\ x # w
  <2>1. \A x \in Wdogs : Left(f2)[x] = IF x = w THEN -1 ELSE Left(f)[x]
    BY <1>2 DEF Left
  <2>2. \A x \in Wdogs : (f.active[x] <=> Left(f)[x] # -1) /\ (f2.active[x] <=> Left(f2)[x] # -1)
    BY <1>2, ActiveIsLeft DEF TimersOK
  <2> QED BY <2>1, <2>2
<1>5. Owned(c2, f2, p)
  <2>1. \A x \in Tasks : c2[x].wdog = c[x].wdog
    OBVIOUS
  <2>2. \A x \in Tasks : c[x].wdog \in Wdogs /\ f2.active[c[x].wdog] =>
          f.active[c[x].wdog] /\ (c[x].at = "timed_wait" => c2[x].at = "timed_wait")
    BY <1>4 DEF w
  <2> QED BY <2>1, <2>2, <1>2, OwnersStay DEF TimersOK
<1> QED BY <1>2, <1>3, <1>5 DEF TimersOK, f2, w

(* The watchdog goes back to the pool.                                     *)
LEMMA OwnerReturns ==
  ASSUME NEW c, NEW f, NEW p, TimersOK(c, f, p, FALSE), NEW t \in Tasks,
         c[t].wdog \in Wdogs, NEW c2, c2[t].wdog = "NULL",
         \A x \in Tasks \ {t} : c2[x] = c[x]
  PROVE  TimersOK(c2, wd_delete(f, c[t].wdog), p, FALSE)
<1> DEFINE w == c[t].wdog
           f2 == wd_delete(f, w)
<1>1. w \in Wdogs /\ ~Linked(f.g_wdfreelist, w) /\ \A u \in Tasks \ {t} : c[u].wdog # w
  BY DEF TimersOK, Owned
<1>2. /\ WdSound(f2) /\ Left(f2) = [Left(f) EXCEPT ![w] = -1]
      /\ \A x \in Wdogs : Linked(f2.g_wdfreelist, x) <=> Linked(f.g_wdfreelist, x) \/ x = w
  BY <1>1, DeleteSound DEF TimersOK
<1> HIDE DEF f2, w
<1>3. ~Expired(f2)
  BY <1>1, <1>2, NotDueStays DEF TimersOK
<1>4. \A x \in Wdogs \ {w} : f2.active[x] <=> f.active[x]
  <2>1. \A x \in Wdogs \ {w} : Left(f2)[x] = Left(f)[x]
    BY <1>2 DEF Left
  <2>2. \A x \in Wdogs : (f.active[x] <=> Left(f)[x] # -1) /\ (f2.active[x] <=> Left(f2)[x] # -1)
    BY <1>2, ActiveIsLeft DEF TimersOK
  <2> QED BY <2>1, <2>2
<1>5. Owned(c2, f2, p)
  <2>1. ASSUME NEW x \in Wdogs
        PROVE  Linked(f2.g_wdfreelist, x) \/ \E u \in Tasks : c2[u].wdog = x
    <3>1. Linked(f.g_wdfreelist, x) \/ \E u \in Tasks : c[u].wdog = x
      BY DEF TimersOK, Owned
    <3> QED BY <3>1, <1>2 DEF w
  <2> USE DEF w
  <2>2. ASSUME NEW u \in Tasks, c2[u].wdog \in Wdogs
        PROVE  /\ ~Linked(f2.g_wdfreelist, c2[u].wdog)
               /\ \A x \in Tasks \ {u} : c2[x].wdog # c2[u].wdog
               /\ f2.active[c2[u].wdog] => c2[u].at = "timed_wait" /\ p[c2[u].wdog] = u
    <3>1. u # t
      BY <2>2, NamesAssumption
    <3>2. /\ c2[u] = c[u] /\ c[u].wdog # w /\ ~Linked(f.g_wdfreelist, c[u].wdog)
          /\ \A x \in Tasks \ {u} : c[x].wdog # c[u].wdog
          /\ f.active[c[u].wdog] => c[u].at = "timed_wait" /\ p[c[u].wdog] = u
      BY <2>2, <3>1, <1>1 DEF TimersOK, Owned
    <3>3. \A x \in Tasks \ {u} : c2[x].wdog # c2[u].wdog
      BY <2>2, <3>2, NamesAssumption
    <3> QED BY <2>2, <3>2, <3>3, <1>2, <1>4
  <2> QED BY <2>1, <2>2 DEF Owned
<1> QED BY <1>2, <1>3, <1>5 DEF TimersOK, f2, w

-----------------------------------------------------------------------------
(* What CountingSem sees.                                                  *)

AvailNow == [m \in Sems |-> IF semcount[m] > 0 THEN semcount[m] ELSE 0]
SeenNow  == [t \in Tasks |-> CallSeen(t)]
RetNow   == [t \in Tasks |-> sc[t].ret]

(* The mapping of the refinement, action by action.                        *)
LEMMA CMapping ==
  /\ C!CInit <=> /\ AvailNow = InitCount /\ SeenNow = [t \in Tasks |-> "out"]
                 /\ RetNow = [t \in Tasks |-> "none"]
  /\ \A t \in Tasks, m \in Sems :
       /\ C!Take(t, m) <=> /\ SeenNow[t] = "out" /\ AvailNow[m] > 0
                           /\ AvailNow' = [AvailNow EXCEPT ![m] = @ - 1]
                           /\ RetNow' = [RetNow EXCEPT ![t] = "OK"] /\ SeenNow' = SeenNow
       /\ C!Queue(t, m) <=> /\ SeenNow[t] = "out" /\ AvailNow[m] = 0
                            /\ SeenNow' = [SeenNow EXCEPT ![t] = m]
                            /\ AvailNow' = AvailNow /\ RetNow' = RetNow
  /\ \A t \in Tasks :
       /\ C!Refuse(t) <=> /\ SeenNow[t] = "out" /\ RetNow' = [RetNow EXCEPT ![t] = "ERROR"]
                          /\ AvailNow' = AvailNow /\ SeenNow' = SeenNow
       /\ C!GiveUp(t) <=> /\ SeenNow[t] \in Sems /\ SeenNow' = [SeenNow EXCEPT ![t] = "failed"]
                          /\ AvailNow' = AvailNow /\ RetNow' = RetNow
       /\ C!Report(t) <=> /\ SeenNow[t] \in {"granted", "failed"}
                          /\ RetNow' = [RetNow EXCEPT ![t] = IF SeenNow[t] = "granted" THEN "OK" ELSE "ERROR"]
                          /\ SeenNow' = [SeenNow EXCEPT ![t] = "out"]
                          /\ AvailNow' = AvailNow
  /\ \A m \in Sems :
       C!Post(m) <=> /\ RetNow' = RetNow
                     /\ \/ /\ \A t \in Tasks : SeenNow[t] # m
                           /\ AvailNow' = [AvailNow EXCEPT ![m] = @ + 1]
                           /\ SeenNow' = SeenNow
                        \/ /\ \E t \in Tasks : SeenNow[t] = m /\ SeenNow' = [SeenNow EXCEPT ![t] = "granted"]
                           /\ AvailNow' = AvailNow
  /\ UNCHANGED <<AvailNow, SeenNow, RetNow>> <=> UNCHANGED C!cvars
<1> USE DEF AvailNow, SeenNow, RetNow
<1>1. C!CInit <=> /\ AvailNow = InitCount /\ SeenNow = [t \in Tasks |-> "out"]
                  /\ RetNow = [t \in Tasks |-> "none"]
  BY Zenon DEF C!CInit
<1>2. \A t \in Tasks, m \in Sems :
       C!Take(t, m) <=> /\ SeenNow[t] = "out" /\ AvailNow[m] > 0
                        /\ AvailNow' = [AvailNow EXCEPT ![m] = @ - 1]
                        /\ RetNow' = [RetNow EXCEPT ![t] = "OK"] /\ SeenNow' = SeenNow
  BY Zenon DEF C!Take
<1>3. \A t \in Tasks, m \in Sems :
       C!Queue(t, m) <=> /\ SeenNow[t] = "out" /\ AvailNow[m] = 0
                         /\ SeenNow' = [SeenNow EXCEPT ![t] = m]
                         /\ AvailNow' = AvailNow /\ RetNow' = RetNow
  BY Zenon DEF C!Queue
<1>4. \A t \in Tasks :
       C!Refuse(t) <=> /\ SeenNow[t] = "out" /\ RetNow' = [RetNow EXCEPT ![t] = "ERROR"]
                       /\ AvailNow' = AvailNow /\ SeenNow' = SeenNow
  BY Zenon DEF C!Refuse
<1>5. \A t \in Tasks :
       C!GiveUp(t) <=> /\ SeenNow[t] \in Sems /\ SeenNow' = [SeenNow EXCEPT ![t] = "failed"]
                       /\ AvailNow' = AvailNow /\ RetNow' = RetNow
  BY Zenon DEF C!GiveUp
<1>6. \A t \in Tasks :
       C!Report(t) <=> /\ SeenNow[t] \in {"granted", "failed"}
                       /\ RetNow' = [RetNow EXCEPT ![t] = IF SeenNow[t] = "granted" THEN "OK" ELSE "ERROR"]
                       /\ SeenNow' = [SeenNow EXCEPT ![t] = "out"]
                       /\ AvailNow' = AvailNow
  BY Zenon DEF C!Report
<1>7. \A m \in Sems :
       C!Post(m) <=> /\ RetNow' = RetNow
                     /\ \/ /\ \A t \in Tasks : SeenNow[t] # m
                           /\ AvailNow' = [AvailNow EXCEPT ![m] = @ + 1]
                           /\ SeenNow' = SeenNow
                        \/ /\ \E t \in Tasks : SeenNow[t] = m /\ SeenNow' = [SeenNow EXCEPT ![t] = "granted"]
                           /\ AvailNow' = AvailNow
  BY Zenon DEF C!Post
<1>8. UNCHANGED <<AvailNow, SeenNow, RetNow>> <=> UNCHANGED C!cvars
  BY Zenon DEF C!cvars
<1> HIDE DEF AvailNow, SeenNow, RetNow
<1> QED BY <1>1, <1>2, <1>3, <1>4, <1>5, <1>6, <1>7, <1>8

(* What a step may do to the abstract state.                               *)
Allowed == C!CNext \/ UNCHANGED C!cvars

(* The three abstract variables, pointwise.                                *)
LEMMA NowTypes ==
  /\ DOMAIN AvailNow = Sems /\ \A m \in Sems : AvailNow[m] = IF semcount[m] > 0 THEN semcount[m] ELSE 0
  /\ DOMAIN SeenNow = Tasks /\ \A t \in Tasks : SeenNow[t] = CallSeen(t)
  /\ DOMAIN RetNow = Tasks /\ \A t \in Tasks : RetNow[t] = sc[t].ret
BY DEF AvailNow, SeenNow, RetNow

(* What nobody touches looks the same.                                     *)
LEMMA SeenStays ==
  ASSUME NEW x \in Tasks, Waits(s', x) <=> Waits(s, x), waitsem'[x] = waitsem[x],
         sc'[x].at = sc[x].at \/ {sc'[x].at, sc[x].at} \cap {"wait", "timed_wait"} = {},
         pterrno'[x] = pterrno[x] \/ {sc'[x].at, sc[x].at} \cap {"wait", "timed_wait"} = {}
  PROVE  CallSeen(x)' = CallSeen(x)
BY DEF CallSeen, Waits

(* The counts available to CountingSem stay.                               *)
LEMMA AvailStays ==
  ASSUME \A m \in Sems : semcount'[m] = semcount[m] \/ ~(semcount'[m] > 0 \/ semcount[m] > 0)
  PROVE  AvailNow' = AvailNow
BY DEF AvailNow

(* One count changes.                                                      *)
LEMMA AvailMoves ==
  ASSUME NEW m \in Sems, NEW v, (IF semcount'[m] > 0 THEN semcount'[m] ELSE 0) = v,
         \A l \in Sems \ {m} : semcount'[l] = semcount[l]
  PROVE  AvailNow' = [AvailNow EXCEPT ![m] = v]
<1> DEFINE old == [l \in Sems |-> IF semcount[l] > 0 THEN semcount[l] ELSE 0]
           new == [l \in Sems |-> IF semcount'[l] > 0 THEN semcount'[l] ELSE 0]
<1>1. new = [l \in Sems |-> IF l = m THEN v ELSE old[l]]
  <2>1. \A l \in Sems : new[l] = IF l = m THEN v ELSE old[l]
    OBVIOUS
  <2> QED BY <2>1
<1>2. [old EXCEPT ![m] = v] = [l \in Sems |-> IF l = m THEN v ELSE old[l]]
  <2> HIDE DEF old
  <2>1. DOMAIN old = Sems
    BY DEF old
  <2> QED BY <2>1
<1>3. AvailNow' = new /\ AvailNow = old
  BY DEF AvailNow
<1> QED BY <1>1, <1>2, <1>3, Zenon

(* Nobody's wait looks different.                                          *)
LEMMA AllSeenStay ==
  ASSUME \A x \in Tasks : CallSeen(x)' = CallSeen(x)
  PROVE  SeenNow' = SeenNow
BY DEF SeenNow

(* No call returns.                                                        *)
LEMMA RetStays ==
  ASSUME \A x \in Tasks : sc'[x].ret = sc[x].ret
  PROVE  RetNow' = RetNow
BY DEF RetNow

(* One task's wait looks different.                                        *)
LEMMA SeenMoves ==
  ASSUME NEW t \in Tasks, NEW v, CallSeen(t)' = v, \A x \in Tasks \ {t} : CallSeen(x)' = CallSeen(x)
  PROVE  SeenNow' = [SeenNow EXCEPT ![t] = v]
BY DEF SeenNow

(* One task's call returns.                                                *)
LEMMA RetMoves ==
  ASSUME NEW t \in Tasks, NEW v, sc'[t].ret = v, \A x \in Tasks \ {t} : sc'[x].ret = sc[x].ret
  PROVE  RetNow' = [RetNow EXCEPT ![t] = v]
BY DEF RetNow

-----------------------------------------------------------------------------
(* The steps of a task in a semaphore call.                                *)

(* A task woken with errno zero was woken by a post.                       *)
Woken ==
  \A m \in Sems : \A x \in WaitingFor(m) :
    /\ s'.task_state[x] # "WAIT_SEM"
    /\ pterrno'[x] = "0"
    => \A y \in WaitingFor(m) : s.sched_priority[y] <= s.sched_priority[x]

(* What is to be shown of every step.                                      *)
Good == SemInv' /\ Allowed /\ Woken

(* Nobody is woken, or not by a post.                                      *)
LEMMA NoneWoken ==
  ASSUME \A x \in Tasks : Waits(s, x) => Waits(s', x) \/ pterrno'[x] # "0"
  PROVE  Woken
BY DEF Woken, WaitingFor, Waits

(* A task's call and errno are set.                                        *)
LEMMA CallsSet ==
  ASSUME SemInv, NEW t \in Tasks, NEW r \in SemCalls, NEW e \in Errnos,
         sc' = [sc EXCEPT ![t] = r], pterrno' = [pterrno EXCEPT ![t] = e]
  PROVE  /\ sc' \in [Tasks -> SemCalls] /\ pterrno' \in [Tasks -> Errnos]
         /\ sc'[t] = r /\ pterrno'[t] = e
         /\ \A x \in Tasks \ {t} : sc'[x] = sc[x] /\ pterrno'[x] = pterrno[x]
BY DEF SemInv, CallsOK

(* One task's call moves, in a step.                                       *)
LEMMA OneCallMoves ==
  ASSUME CallsOK(s, sc, pterrno), NEW t \in Tasks,
         sc' \in [Tasks -> SemCalls], pterrno' \in [Tasks -> Errnos],
         CallOK(s', t, sc'[t], pterrno'[t]), s.g_pidhash \ {t} \subseteq s'.g_pidhash,
         \A x \in Tasks \ {t} : /\ sc'[x] = sc[x] /\ pterrno'[x] = pterrno[x]
                                /\ Waits(s', x) <=> Waits(s, x)
  PROVE  CallsOK(s', sc', pterrno')
<1>1. ASSUME NEW x \in Tasks \ {t} PROVE CallOK(s', x, sc'[x], pterrno'[x])
  <2>1. CallOK(s, x, sc[x], pterrno[x])
    BY DEF CallsOK
  <2> QED BY <2>1 DEF CallOK
<1> QED BY <1>1 DEF CallsOK

(* A step that leaves the scheduler and the waits alone.                   *)
LEMMA QuietStep ==
  ASSUME SemInv, s' = s, pc' = pc, NEW t \in Tasks,
         semcount' \in [Sems -> Int],
         \A m \in Sems : semcount'[m] = semcount[m] \/ (semcount[m] >= 0 /\ semcount'[m] >= 0),
         waitsem' = waitsem, NEW r \in SemCalls, NEW e \in Errnos,
         sc' = [sc EXCEPT ![t] = r], pterrno' = [pterrno EXCEPT ![t] = e],
         CallOK(s, t, r, e), TimersOK(sc', g', parm', isr')
  PROVE  /\ SemInv' /\ Woken /\ sc'[t] = r /\ pterrno'[t] = e
         /\ \A x \in Tasks \ {t} : CallSeen(x)' = CallSeen(x) /\ sc'[x].ret = sc[x].ret
<1>1. /\ sc' \in [Tasks -> SemCalls] /\ pterrno' \in [Tasks -> Errnos]
      /\ sc'[t] = r /\ pterrno'[t] = e
      /\ \A x \in Tasks \ {t} : sc'[x] = sc[x] /\ pterrno'[x] = pterrno[x]
  BY CallsSet
<1>2. CallsOK(s', sc', pterrno')
  <2>1. CallsOK(s, sc, pterrno)
    BY DEF SemInv
  <2>2. \A x \in Tasks : CallOK(s', x, sc'[x], pterrno'[x])
    BY <2>1, <1>1 DEF CallsOK
  <2> QED BY <2>2, <1>1 DEF CallsOK
<1>3. Counted(s', waitsem', semcount')
  <2>1. waitsem' \in [Tasks -> Sems \cup {"NULL"}] /\ Counted(s, waitsem, semcount)
    BY DEF SemInv, Counted
  <2> QED BY <2>1, CountsStay
<1>4. IInv'
  BY DEF SemInv, IInv
<1>5. \A x \in Tasks \ {t} : CallSeen(x)' = CallSeen(x) /\ sc'[x].ret = sc[x].ret
  BY <1>1, SeenStays
<1> QED BY <1>1, <1>2, <1>3, <1>4, <1>5, NoneWoken DEF SemInv

(* A task out of any wait looks so.                                        *)
LEMMA SeenOut ==
  /\ \A t \in Tasks : ~Waits(s, t) /\ sc[t].at \notin {"wait", "timed_wait"} => CallSeen(t) = "out"
  /\ \A t \in Tasks : ~Waits(s', t) /\ sc'[t].at \notin {"wait", "timed_wait"} => CallSeen(t)' = "out"
BY DEF CallSeen, Waits

(* A count that is available is taken.                                     *)
LEMMA TakesStep ==
  ASSUME SemInv, NEW t \in Tasks, NEW at, SemAt(t, at), at \notin {"wait", "timed_wait"},
         NEW m \in Sems, Takes(t, m), s' = s, pc' = pc, NEW r \in SemCalls, NEW e \in Errnos,
         sc' = [sc EXCEPT ![t] = r], pterrno' = [pterrno EXCEPT ![t] = e],
         r.at \notin {"wait", "timed_wait"}, r.ret = "OK",
         CallOK(s, t, r, e), TimersOK(sc', g', parm', isr')
  PROVE  Good
<1>1. ~Waits(s, t) /\ waitsem[t] = "NULL" /\ sc[t].at = at
  BY RunsIsOut
<1>2. /\ semcount \in [Sems -> Int] /\ semcount[m] > 0 /\ semcount[m] \in Int
      /\ waitsem \in [Tasks -> Sems \cup {"NULL"}]
  BY DEF SemInv, Counted, Takes
<1>3. /\ semcount' \in [Sems -> Int] /\ semcount'[m] = semcount[m] - 1
      /\ \A l \in Sems \ {m} : semcount'[l] = semcount[l]
      /\ waitsem' = waitsem
  BY <1>1, <1>2 DEF Takes
<1>4. \A l \in Sems : semcount'[l] = semcount[l] \/ (semcount[l] >= 0 /\ semcount'[l] >= 0)
  BY <1>2, <1>3
<1>5. /\ SemInv' /\ Woken /\ sc'[t] = r
      /\ \A x \in Tasks \ {t} : CallSeen(x)' = CallSeen(x) /\ sc'[x].ret = sc[x].ret
  BY <1>3, <1>4, QuietStep
<1>6. CallSeen(t) = "out" /\ CallSeen(t)' = "out"
  BY <1>1, <1>5, SeenOut
<1>7. SeenNow' = SeenNow /\ RetNow' = [RetNow EXCEPT ![t] = "OK"]
  BY <1>5, <1>6, AllSeenStay, RetMoves
<1>8. AvailNow[m] > 0 /\ AvailNow' = [AvailNow EXCEPT ![m] = @ - 1]
  <2>1. AvailNow[m] = semcount[m]
    BY <1>2, NowTypes
  <2>2. (IF semcount'[m] > 0 THEN semcount'[m] ELSE 0) = AvailNow[m] - 1
    BY <2>1, <1>2, <1>3
  <2>3. AvailNow' = [AvailNow EXCEPT ![m] = AvailNow[m] - 1]
    BY <2>2, <1>3, AvailMoves
  <2> QED BY <2>1, <2>3, <1>2
<1>9. C!Take(t, m)
  BY <1>6, <1>7, <1>8, NowTypes, CMapping
<1> QED BY <1>5, <1>9 DEF Good, Allowed, C!CNext

(* A call fails without having waited.                                     *)
LEMMA RefusedStep ==
  ASSUME SemInv, NEW t \in Tasks, NEW at, SemAt(t, at), at \notin {"wait", "timed_wait"},
         semcount' = semcount, waitsem' = waitsem, s' = s, pc' = pc,
         NEW r \in SemCalls, NEW e \in Errnos,
         sc' = [sc EXCEPT ![t] = r], pterrno' = [pterrno EXCEPT ![t] = e],
         r.at \notin {"wait", "timed_wait"}, r.ret = "ERROR",
         CallOK(s, t, r, e), TimersOK(sc', g', parm', isr')
  PROVE  Good
<1>1. ~Waits(s, t) /\ sc[t].at = at /\ semcount \in [Sems -> Int]
  BY RunsIsOut DEF SemInv, Counted
<1>2. /\ SemInv' /\ Woken /\ sc'[t] = r
      /\ \A x \in Tasks \ {t} : CallSeen(x)' = CallSeen(x) /\ sc'[x].ret = sc[x].ret
  BY <1>1, QuietStep
<1>3. CallSeen(t) = "out" /\ CallSeen(t)' = "out"
  BY <1>1, <1>2, SeenOut
<1>4. SeenNow' = SeenNow /\ RetNow' = [RetNow EXCEPT ![t] = "ERROR"] /\ AvailNow' = AvailNow
  BY <1>2, <1>3, AllSeenStay, RetMoves, AvailStays
<1>5. C!Refuse(t)
  BY <1>3, <1>4, NowTypes, CMapping
<1> QED BY <1>2, <1>5 DEF Good, Allowed, C!CNext

(* A step inside sem_timedwait, before or after the wait.                  *)
LEMMA InnerStep ==
  ASSUME SemInv, NEW t \in Tasks, NEW at, SemAt(t, at), at \notin {"wait", "timed_wait"},
         semcount' = semcount, waitsem' = waitsem, s' = s, pc' = pc,
         NEW r \in SemCalls, NEW e \in Errnos,
         sc' = [sc EXCEPT ![t] = r], pterrno' = [pterrno EXCEPT ![t] = e],
         r.at \notin {"wait", "timed_wait"}, r.ret = sc[t].ret,
         CallOK(s, t, r, e), TimersOK(sc', g', parm', isr')
  PROVE  Good
<1>1. ~Waits(s, t) /\ sc[t].at = at /\ semcount \in [Sems -> Int]
  BY RunsIsOut DEF SemInv, Counted
<1>2. /\ SemInv' /\ Woken /\ sc'[t] = r
      /\ \A x \in Tasks \ {t} : CallSeen(x)' = CallSeen(x) /\ sc'[x].ret = sc[x].ret
  BY <1>1, QuietStep
<1>3. CallSeen(t) = "out" /\ CallSeen(t)' = "out"
  BY <1>1, <1>2, SeenOut
<1>4. SeenNow' = SeenNow /\ RetNow' = RetNow /\ AvailNow' = AvailNow
  BY <1>2, <1>3, AllSeenStay, RetStays, AvailStays
<1>5. UNCHANGED C!cvars
  BY <1>4, CMapping
<1> QED BY <1>2, <1>5 DEF Good, Allowed

(* A task that waited runs again and finds out from errno how it ended.    *)
LEMMA ReportStep ==
  ASSUME SemInv, NEW t \in Tasks, NEW at \in {"wait", "timed_wait"}, SemAt(t, at),
         semcount' = semcount, waitsem' = waitsem, s' = s, pc' = pc, pterrno' = pterrno,
         NEW r \in SemCalls, sc' = [sc EXCEPT ![t] = r],
         r.at \notin {"wait", "timed_wait"}, r.ret = WaitResult(t),
         CallOK(s, t, r, pterrno[t]), TimersOK(sc', g', parm', isr')
  PROVE  Good
<1>1. /\ ~Waits(s, t) /\ sc[t].at = at /\ semcount \in [Sems -> Int]
      /\ pterrno \in [Tasks -> Errnos] /\ pterrno[t] \in Errnos
  BY RunsIsOut DEF SemInv, Counted, CallsOK
<1>2. pterrno' = [pterrno EXCEPT ![t] = pterrno[t]]
  BY <1>1
<1>3. /\ SemInv' /\ Woken /\ sc'[t] = r
      /\ \A x \in Tasks \ {t} : CallSeen(x)' = CallSeen(x) /\ sc'[x].ret = sc[x].ret
  BY <1>1, <1>2, QuietStep
<1>4. CallSeen(t) = IF pterrno[t] \in {"EINTR", "ETIMEDOUT"} THEN "failed" ELSE "granted"
  BY <1>1 DEF CallSeen, Waits
<1>5. CallSeen(t)' = "out"
  BY <1>1, <1>3, SeenOut
<1>6. r.ret = IF CallSeen(t) = "granted" THEN "OK" ELSE "ERROR"
  BY <1>4 DEF WaitResult
<1>7. /\ SeenNow' = [SeenNow EXCEPT ![t] = "out"] /\ AvailNow' = AvailNow
      /\ RetNow' = [RetNow EXCEPT ![t] = r.ret]
  BY <1>3, <1>5, SeenMoves, RetMoves, AvailStays
<1>8. SeenNow[t] = CallSeen(t) /\ CallSeen(t) \in {"granted", "failed"}
  BY <1>4, NowTypes
<1>9. C!Report(t)
  BY <1>6, <1>7, <1>8, CMapping
<1> QED BY <1>3, <1>9 DEF Good, Allowed, C!CNext

(* The task begins to wait.                                                *)
LEMMA BlocksStep ==
  ASSUME SemInv, NEW t \in Tasks \ {Idle}, NEW at, SemAt(t, at), at \notin {"wait", "timed_wait"},
         NEW m \in Sems, Blocks(t, m), pc' = pc,
         NEW r \in SemCalls, sc' = [sc EXCEPT ![t] = r],
         r.at \in {"wait", "timed_wait"}, r.ret = sc[t].ret,
         CallOK(s, t, r, "0"), TimersOK(sc', g', parm', isr')
  PROVE  Good
<1>0. t \in Tasks
  OBVIOUS
<1>1. ~Waits(s, t) /\ waitsem[t] = "NULL" /\ sc[t].at = at /\ s.panic = {} /\ Running(s) = t
  BY RunsIsOut
<1>2. /\ semcount[m] <= 0
      /\ semcount' = [semcount EXCEPT ![m] = @ - 1]
      /\ waitsem' = [waitsem EXCEPT ![t] = m]
      /\ pterrno' = [pterrno EXCEPT ![t] = "0"]
      /\ s' = up_block_task(s, t, "WAIT_SEM")
  BY <1>1 DEF Blocks, PanicUnless
<1>3. /\ IInv' /\ Waits(s', t) /\ s'.g_pidhash = s.g_pidhash
      /\ \A x \in Tasks \ {t} : Waits(s', x) <=> Waits(s, x)
  BY <1>1, <1>2, BlockForSem DEF SemInv
<1>4. Counted(s', waitsem', semcount')
  BY <1>1, <1>2, <1>3, CountsEnter DEF SemInv
<1>5. /\ sc' \in [Tasks -> SemCalls] /\ pterrno' \in [Tasks -> Errnos]
      /\ sc'[t] = r /\ pterrno'[t] = "0"
      /\ \A x \in Tasks \ {t} : sc'[x] = sc[x] /\ pterrno'[x] = pterrno[x]
  <2>1. "0" \in Errnos
    BY DEF Errnos
  <2> QED BY <2>1, <1>2, CallsSet
<1>6. CallsOK(s', sc', pterrno')
  <2>1. CallOK(s', t, sc'[t], pterrno'[t])
    BY <1>3, <1>5 DEF CallOK
  <2>2. CallsOK(s, sc, pterrno) /\ s.g_pidhash \ {t} \subseteq s'.g_pidhash
    BY <1>3 DEF SemInv
  <2>3. \A x \in Tasks \ {t} : /\ sc'[x] = sc[x] /\ pterrno'[x] = pterrno[x]
                               /\ Waits(s', x) <=> Waits(s, x)
    BY <1>3, <1>5
  <2>4. sc' \in [Tasks -> SemCalls] /\ pterrno' \in [Tasks -> Errnos]
    BY <1>5
  <2> QED BY <1>0, <2>1, <2>2, <2>3, <2>4, OneCallMoves
<1>7. SemInv'
  BY <1>3, <1>4, <1>6 DEF SemInv
<1>8. /\ semcount[m] \in Int /\ semcount'[m] = semcount[m] - 1
      /\ \A l \in Sems \ {m} : semcount'[l] = semcount[l]
      /\ waitsem'[t] = m /\ \A x \in Tasks \ {t} : waitsem'[x] = waitsem[x]
  BY <1>2 DEF SemInv, Counted
<1>9. AvailNow' = AvailNow /\ AvailNow[m] = 0
  <2>1. ~(semcount[m] > 0) /\ ~(semcount'[m] > 0)
    BY <1>2, <1>8
  <2> QED BY <2>1, <1>8, AvailStays, NowTypes
<1>10. CallSeen(t) = "out" /\ CallSeen(t)' = m
  <2>1. CallSeen(t) = "out"
    BY <1>1, SeenOut
  <2>2. CallSeen(t)' = m
    BY <1>3, <1>8 DEF CallSeen, Waits
  <2> QED BY <2>1, <2>2
<1>11. \A x \in Tasks \ {t} : CallSeen(x)' = CallSeen(x)
  BY <1>3, <1>5, <1>8, SeenStays
<1>12. SeenNow' = [SeenNow EXCEPT ![t] = m] /\ RetNow' = RetNow
  <2>1. \A x \in Tasks : sc'[x].ret = sc[x].ret
    BY <1>5
  <2> QED BY <2>1, <1>10, <1>11, SeenMoves, RetStays
<1>13. C!Queue(t, m)
  <2>1. SeenNow[t] = "out"
    BY <1>0, <1>10, NowTypes
  <2> QED BY <1>0, <2>1, <1>9, <1>12, CMapping
<1>14. Woken
  BY <1>3, NoneWoken
<1> QED BY <1>7, <1>13, <1>14 DEF Good, Allowed, C!CNext

(* A call that has returned.                                               *)
LEMMA OutCall ==
  ASSUME NEW v \in {"none", "OK", "ERROR"}
  PROVE  /\ Out(v) \in SemCalls
         /\ Out(v).at = "user" /\ Out(v).wdog = "NULL" /\ Out(v).ret = v
BY DEF Out, SemCalls

(* The watchdogs are not touched by a step outside a timed wait.           *)
LEMMA TimersCalls ==
  ASSUME NEW c, NEW f, NEW p, NEW i, TimersOK(c, f, p, i), NEW t \in Tasks, NEW c2,
         c2[t].wdog = c[t].wdog, c[t].at # "timed_wait", \A x \in Tasks \ {t} : c2[x] = c[x]
  PROVE  TimersOK(c2, f, p, i)
<1>1. Owned(c2, f, p)
  <2>1. Owned(c, f, p)
    BY DEF TimersOK
  <2>2. \A x \in Tasks : c2[x].wdog = c[x].wdog
    OBVIOUS
  <2>3. \A x \in Tasks : c[x].at = "timed_wait" => c2[x].at = "timed_wait"
    OBVIOUS
  <2> QED BY <2>1, <2>2, <2>3, OwnersStay
<1> QED BY <1>1 DEF TimersOK

(* A task that runs is where its call says.                                *)
LEMMA CallNow ==
  ASSUME SemInv, NEW t \in Tasks
  PROVE  /\ sc[t] \in SemCalls /\ CallOK(s, t, sc[t], pterrno[t]) /\ sc \in [Tasks -> SemCalls]
         /\ pterrno \in [Tasks -> Errnos] /\ pterrno[t] \in Errnos
         /\ TimersOK(sc, g, parm, isr)
BY DEF SemInv, CallsOK

(* A call that returns, out of any timed wait.                             *)
LEMMA OutOK ==
  ASSUME SemInv, NEW t \in Tasks, NEW at, SemAt(t, at), NEW v \in {"OK", "ERROR"}, NEW e
  PROVE  CallOK(s, t, Out(v), e) /\ Out(v) \in SemCalls /\ Out(v).at = "user" /\ Out(v).ret = v
<1>1. ~Waits(s, t)
  BY RunsIsOut
<1>2. Out(v) \in SemCalls /\ Out(v).at = "user" /\ Out(v).wdog = "NULL" /\ Out(v).ret = v
  BY OutCall
<1> QED BY <1>1, <1>2 DEF CallOK

(* It leaves the watchdogs alone.                                          *)
LEMMA OutTimers ==
  ASSUME SemInv, NEW t \in Tasks, sc[t].at \in {"user", "wait"}, NEW r \in SemCalls, r.wdog = "NULL",
         sc' = [sc EXCEPT ![t] = r], g' = g, parm' = parm, isr' = isr
  PROVE  TimersOK(sc', g', parm', isr')
<1>1. /\ sc[t].wdog = "NULL" /\ sc \in [Tasks -> SemCalls] /\ TimersOK(sc, g, parm, isr)
      /\ sc[t].at # "timed_wait"
  BY CallNow DEF CallOK
<1>2. sc'[t] = r /\ \A x \in Tasks \ {t} : sc'[x] = sc[x]
  BY <1>1
<1> QED BY <1>1, <1>2, TimersCalls

(* Only the tasks of the workload make semaphore calls.                    *)
LEMMA CallerIsNotIdle ==
  ASSUME NEW t \in Tasks, NEW c, SemMakes(t, c), c \notin {"create", "lock"}
  PROVE  t \in Tasks \ {Idle} /\ SemAt(t, "user") /\ sc[t].at = "user"
BY WorkloadAssumption DEF SemMakes, SemAt

(* sem_wait.                                                               *)
LEMMA WaitGood ==
  ASSUME SemInv, NEW t \in Tasks, NEW m \in Sems, sem_wait(t, m)
  PROVE  Good
<1>1. t \in Tasks \ {Idle} /\ SemAt(t, "user") /\ sc[t].at = "user"
  BY CallerIsNotIdle DEF sem_wait
<1>2. pc' = pc /\ g' = g /\ parm' = parm /\ isr' = isr
  BY DEF sem_wait
<1>3. CASE /\ Takes(t, m)
           /\ pterrno' = [pterrno EXCEPT ![t] = "EINVAL"]
           /\ sc' = [sc EXCEPT ![t] = Out("OK")]
           /\ s' = s
  <2>1. CallOK(s, t, Out("OK"), "EINVAL") /\ Out("OK") \in SemCalls /\ Out("OK").at = "user" /\ Out("OK").ret = "OK"
    BY <1>1, OutOK
  <2>2. TimersOK(sc', g', parm', isr')
    BY <1>1, <1>2, <1>3, <2>1, OutTimers, OutCall
  <2>3. "EINVAL" \in Errnos
    BY DEF Errnos
  <2> QED BY <1>1, <1>2, <1>3, <2>1, <2>2, <2>3, TakesStep
<1>4. CASE Blocks(t, m) /\ sc' = [sc EXCEPT ![t] = [@ EXCEPT !.at = "wait", !.sem = m]]
  <2> DEFINE r == [sc[t] EXCEPT !.at = "wait", !.sem = m]
  <2>1. sc[t] \in SemCalls /\ sc[t].wdog = "NULL" /\ t \in s.g_pidhash /\ ~Waits(s, t)
    BY <1>1, CallNow, RunsIsOut DEF CallOK
  <2>2. r \in SemCalls /\ r.at = "wait" /\ r.sem = m /\ r.wdog = "NULL" /\ r.ret = sc[t].ret
    BY <2>1 DEF SemCalls
  <2>3. sc' = [sc EXCEPT ![t] = r]
    BY <1>4
  <2> HIDE DEF r
  <2>4. CallOK(s, t, r, "0")
    BY <1>1, <2>1, <2>2 DEF CallOK
  <2>5. TimersOK(sc', g', parm', isr')
    BY <1>1, <1>2, <2>2, <2>3, OutTimers
  <2> QED BY <1>1, <1>2, <1>4, <2>2, <2>3, <2>4, <2>5, BlocksStep
<1> QED BY <1>3, <1>4 DEF sem_wait

(* sem_wait, when the task runs again.                                     *)
LEMMA WaitResumesGood ==
  ASSUME SemInv, NEW t \in Tasks, sem_wait_resumes(t)
  PROVE  Good
<1> DEFINE v == WaitResult(t)
<1>1. /\ SemAt(t, "wait") /\ sc[t].at = "wait" /\ v \in {"OK", "ERROR"}
      /\ sc' = [sc EXCEPT ![t] = Out(v)]
      /\ UNCHANGED <<s, pc, semcount, waitsem, pterrno, g, parm, isr>>
  BY DEF sem_wait_resumes, SemAt, WaitResult
<1> HIDE DEF v
<1>2. CallOK(s, t, Out(v), pterrno[t]) /\ Out(v) \in SemCalls /\ Out(v).at = "user" /\ Out(v).ret = v
  BY <1>1, OutOK
<1>3. TimersOK(sc', g', parm', isr')
  BY <1>1, <1>2, OutTimers, OutCall
<1> QED BY <1>1, <1>2, <1>3, ReportStep DEF v

(* sem_trywait.                                                            *)
LEMMA TryWaitGood ==
  ASSUME SemInv, NEW t \in Tasks, NEW m \in Sems, sem_trywait(t, m)
  PROVE  Good
<1>1. t \in Tasks \ {Idle} /\ SemAt(t, "user") /\ sc[t].at = "user"
  BY CallerIsNotIdle DEF sem_trywait
<1>2. /\ s' = s /\ pc' = pc /\ g' = g /\ parm' = parm /\ isr' = isr
      /\ pterrno' = [pterrno EXCEPT ![t] = "EAGAIN"] /\ "EAGAIN" \in Errnos
  BY DEF sem_trywait, Errnos
<1>3. \A v \in {"OK", "ERROR"} :
        /\ CallOK(s, t, Out(v), "EAGAIN") /\ Out(v) \in SemCalls
        /\ Out(v).at = "user" /\ Out(v).ret = v /\ Out(v).wdog = "NULL"
  BY <1>1, OutOK, OutCall
<1>4. CASE Takes(t, m) /\ sc' = [sc EXCEPT ![t] = Out("OK")]
  <2>1. TimersOK(sc', g', parm', isr')
    BY <1>1, <1>2, <1>3, <1>4, OutTimers
  <2> QED BY <1>1, <1>2, <1>3, <1>4, <2>1, TakesStep
<1>5. CASE sc' = [sc EXCEPT ![t] = Out("ERROR")] /\ UNCHANGED <<semcount, waitsem>>
  <2>1. TimersOK(sc', g', parm', isr')
    BY <1>1, <1>2, <1>3, <1>5, OutTimers
  <2> QED BY <1>1, <1>2, <1>3, <1>5, <2>1, RefusedStep
<1> QED BY <1>4, <1>5 DEF sem_trywait

(* sem_timedwait takes a watchdog, or finds none.                          *)
LEMMA TimedWaitGood ==
  ASSUME SemInv, NEW t \in Tasks, NEW m \in Sems, sem_timedwait(t, m)
  PROVE  Good
<1>1. t \in Tasks \ {Idle} /\ SemAt(t, "user") /\ sc[t].at = "user"
  BY CallerIsNotIdle DEF sem_timedwait
<1>2. /\ s' = s /\ pc' = pc /\ semcount' = semcount /\ waitsem' = waitsem
      /\ parm' = parm /\ isr' = isr
  BY DEF sem_timedwait
<1>3. CASE /\ pterrno' = [pterrno EXCEPT ![t] = "ENOMEM"]
           /\ sc' = [sc EXCEPT ![t] = Out("ERROR")] /\ g' = g
  <2>1. CallOK(s, t, Out("ERROR"), "ENOMEM") /\ Out("ERROR") \in SemCalls /\ Out("ERROR").at = "user" /\ Out("ERROR").ret = "ERROR"
    BY <1>1, OutOK
  <2>2. TimersOK(sc', g', parm', isr')
    BY <1>1, <1>2, <1>3, <2>1, OutTimers, OutCall
  <2>3. "ENOMEM" \in Errnos
    BY DEF Errnos
  <2> QED BY <1>1, <1>2, <1>3, <2>1, <2>2, <2>3, RefusedStep
<1>4. CASE /\ g.g_wdfreelist # <<>> /\ g' = wd_create(g) /\ pterrno' = pterrno
           /\ sc' = [sc EXCEPT ![t] = [@ EXCEPT !.at = "timed_try", !.sem = m,
                                                !.wdog = Head(g.g_wdfreelist)]]
  <2> DEFINE w == Head(g.g_wdfreelist)
             r == [sc[t] EXCEPT !.at = "timed_try", !.sem = m, !.wdog = w]
  <2>1. /\ sc[t] \in SemCalls /\ sc[t].wdog = "NULL" /\ t \in s.g_pidhash /\ ~Waits(s, t) /\ isr = FALSE
        /\ sc \in [Tasks -> SemCalls] /\ pterrno \in [Tasks -> Errnos] /\ pterrno[t] \in Errnos
        /\ TimersOK(sc, g, parm, isr)
    BY <1>1, CallNow, RunsIsOut DEF CallOK, TimersOK
  <2>2. w \in Wdogs
    BY <1>4, <2>1, CreateSound DEF TimersOK
  <2>3. sc' = [sc EXCEPT ![t] = r] /\ pterrno' = [pterrno EXCEPT ![t] = pterrno[t]]
    BY <1>4, <2>1
  <2>4. r \in SemCalls /\ r.at = "timed_try" /\ r.sem = m /\ r.wdog = w /\ r.ret = sc[t].ret
    <3> HIDE DEF w
    <3> QED BY <2>1, <2>2 DEF SemCalls
  <2> HIDE DEF r
  <2>5. CallOK(s, t, r, pterrno[t])
    BY <1>1, <2>1, <2>2, <2>4 DEF CallOK
  <2>6. TimersOK(sc', g', parm', isr')
    <3>1. sc'[t].wdog = w /\ \A x \in Tasks \ {t} : sc'[x] = sc[x]
      BY <2>1, <2>3, <2>4
    <3>2. TimersOK(sc', wd_create(g), parm, FALSE)
      BY <3>1, <2>1, <1>4, OwnerTakes
    <3> QED BY <3>2, <2>1, <1>2, <1>4
  <2> QED BY <1>1, <1>2, <2>1, <2>3, <2>4, <2>5, <2>6, InnerStep
<1> QED BY <1>3, <1>4 DEF sem_timedwait

(* A task in sem_timedwait has a semaphore and a watchdog.                 *)
LEMMA TimedHas ==
  ASSUME SemInv, NEW t \in Tasks, NEW at \in {"timed_try", "timed_wait", "timed_delete"}, SemAt(t, at)
  PROVE  /\ t \in Tasks \ {Idle} /\ sc[t].at = at /\ sc[t].sem \in Sems /\ sc[t].wdog \in Wdogs
         /\ sc[t] \in SemCalls /\ sc \in [Tasks -> SemCalls] /\ sc[t].ret \in {"none", "OK", "ERROR"}
         /\ t \in s.g_pidhash /\ ~Waits(s, t) /\ isr = FALSE
         /\ pterrno \in [Tasks -> Errnos] /\ pterrno[t] \in Errnos
         /\ TimersOK(sc, g, parm, FALSE)
<1>1. isr = FALSE
  BY RunsIsOut DEF SemInv, TimersOK
<1>2. sc[t].at = at /\ t \in s.g_pidhash /\ ~Waits(s, t)
  BY RunsIsOut
<1>3. /\ sc[t] \in SemCalls /\ CallOK(s, t, sc[t], pterrno[t]) /\ sc \in [Tasks -> SemCalls]
      /\ pterrno \in [Tasks -> Errnos] /\ pterrno[t] \in Errnos
      /\ TimersOK(sc, g, parm, FALSE)
  BY <1>1, CallNow
<1>4. t # Idle /\ sc[t].sem \in Sems /\ sc[t].wdog \in Wdogs
  BY <1>2, <1>3 DEF CallOK
<1>5. sc[t].ret \in {"none", "OK", "ERROR"}
  BY <1>3, CallFields
<1> QED BY <1>1, <1>2, <1>3, <1>4, <1>5

(* The next step of sem_timedwait.                                         *)
LEMMA TimedMoves ==
  ASSUME SemInv, NEW t \in Tasks, NEW at \in {"timed_try", "timed_wait", "timed_delete"}, SemAt(t, at),
         NEW r \in SemCalls, r.at \in {"timed_wait", "timed_delete"},
         r.sem = sc[t].sem, r.wdog = sc[t].wdog
  PROVE  \A e : CallOK(s, t, r, e)
<1>1. /\ sc[t].sem \in Sems /\ sc[t].wdog \in Wdogs
      /\ t \in s.g_pidhash /\ t # Idle /\ ~Waits(s, t)
  BY TimedHas
<1> QED BY <1>1 DEF CallOK

(* sem_timedwait tries, finds the time over, or waits.                     *)
LEMMA TimedTryGood ==
  ASSUME SemInv, NEW t \in Tasks, NEW ticks \in Timeouts, TimedTry(t, ticks)
  PROVE  Good
<1> DEFINE m == sc[t].sem
           w == sc[t].wdog
<1>1. SemAt(t, "timed_try") /\ pc' = pc /\ isr' = isr
  BY DEF TimedTry
<1>2. /\ t \in Tasks \ {Idle} /\ sc[t].at = "timed_try" /\ m \in Sems /\ w \in Wdogs
      /\ sc \in [Tasks -> SemCalls] /\ sc[t].ret \in {"none", "OK", "ERROR"}
      /\ isr = FALSE /\ TimersOK(sc, g, parm, FALSE) /\ sc[t] \in SemCalls
  BY <1>1, TimedHas
<1>3. ASSUME NEW r \in SemCalls, sc' = [sc EXCEPT ![t] = r], r.wdog = w, g' = g, parm' = parm
      PROVE  TimersOK(sc', g', parm', isr')
  <2>1. sc'[t] = r /\ \A x \in Tasks \ {t} : sc'[x] = sc[x]
    BY <1>2, <1>3
  <2> QED BY <1>1, <1>2, <1>3, <2>1, TimersCalls
<1>4. CASE /\ Takes(t, m)
           /\ pterrno' = [pterrno EXCEPT ![t] = "EAGAIN"]
           /\ sc' = [sc EXCEPT ![t] = [@ EXCEPT !.at = "timed_delete", !.ret = "OK"]]
           /\ s' = s /\ g' = g /\ parm' = parm
  <2> DEFINE r == [sc[t] EXCEPT !.at = "timed_delete", !.ret = "OK"]
  <2>1. sc' = [sc EXCEPT ![t] = r]
    BY <1>4
  <2>2. r \in SemCalls /\ r.at = "timed_delete" /\ r.wdog = w /\ r.ret = "OK" /\ CallOK(s, t, r, "EAGAIN")
    <3>1. r \in SemCalls /\ r.at = "timed_delete" /\ r.sem = m /\ r.wdog = w /\ r.ret = "OK"
      BY <1>2 DEF SemCalls
    <3> HIDE DEF r
    <3> QED BY <3>1, <1>1, TimedMoves
  <2> HIDE DEF r, m, w
  <2>3. TimersOK(sc', g', parm', isr')
    BY <1>3, <1>4, <2>1, <2>2
  <2>4. "EAGAIN" \in Errnos
    BY DEF Errnos
  <2> QED BY <1>1, <1>2, <1>4, <2>1, <2>2, <2>3, <2>4, TakesStep
<1>5. CASE /\ \E e \in {"EINVAL", "ETIMEDOUT"} : pterrno' = [pterrno EXCEPT ![t] = e]
           /\ sc' = [sc EXCEPT ![t] = [@ EXCEPT !.at = "timed_delete", !.ret = "ERROR"]]
           /\ UNCHANGED <<s, semcount, waitsem, g, parm>>
  <2> DEFINE r == [sc[t] EXCEPT !.at = "timed_delete", !.ret = "ERROR"]
  <2>1. sc' = [sc EXCEPT ![t] = r]
    BY <1>5
  <2>2. /\ r \in SemCalls /\ r.at = "timed_delete" /\ r.wdog = w /\ r.ret = "ERROR"
        /\ \A e : CallOK(s, t, r, e)
    <3>1. r \in SemCalls /\ r.at = "timed_delete" /\ r.sem = m /\ r.wdog = w /\ r.ret = "ERROR"
      BY <1>2 DEF SemCalls
    <3> HIDE DEF r
    <3> QED BY <3>1, <1>1, TimedMoves
  <2> HIDE DEF r, m, w
  <2>3. TimersOK(sc', g', parm', isr')
    BY <1>3, <1>5, <2>1, <2>2
  <2>4. PICK e \in Errnos : pterrno' = [pterrno EXCEPT ![t] = e]
    BY <1>5 DEF Errnos
  <2> QED BY <1>1, <1>2, <1>5, <2>1, <2>2, <2>3, <2>4, RefusedStep
<1>6. CASE /\ ticks > 0
           /\ g' = wd_start(g, w, ticks)
           /\ parm' = [parm EXCEPT ![w] = t]
           /\ Blocks(t, m)
           /\ sc' = [sc EXCEPT ![t].at = "timed_wait"]
  <2> DEFINE r == [sc[t] EXCEPT !.at = "timed_wait"]
  <2>1. sc' = [sc EXCEPT ![t] = r]
    BY <1>6
  <2>2. r \in SemCalls /\ r.at = "timed_wait" /\ r.wdog = w /\ r.ret = sc[t].ret /\ CallOK(s, t, r, "0")
    <3>1. r \in SemCalls /\ r.at = "timed_wait" /\ r.sem = m /\ r.wdog = w /\ r.ret = sc[t].ret
      BY <1>2 DEF SemCalls
    <3> HIDE DEF r
    <3> QED BY <3>1, <1>1, <1>2, TimedMoves
  <2> HIDE DEF r
  <2>3. sc'[t] = r /\ \A x \in Tasks \ {t} : sc'[x] = sc[x]
    BY <1>2, <2>1
  <2>4. ticks \in Nat
    BY <1>6, SemAssumption
  <2>5. TimersOK(sc', wd_start(g, sc[t].wdog, ticks), [parm EXCEPT ![sc[t].wdog] = t], FALSE)
    BY <1>2, <2>2, <2>3, <2>4, OwnerStarts
  <2>6. TimersOK(sc', g', parm', isr')
    BY <2>5, <1>1, <1>2, <1>6
  <2> HIDE DEF m, w
  <2> QED BY <1>1, <1>2, <1>6, <2>1, <2>2, <2>6, BlocksStep
<1>7. \/ Takes(t, m) /\ pterrno' = [pterrno EXCEPT ![t] = "EAGAIN"]
         /\ sc' = [sc EXCEPT ![t] = [@ EXCEPT !.at = "timed_delete", !.ret = "OK"]]
         /\ s' = s /\ g' = g /\ parm' = parm
      \/ /\ pterrno' = [pterrno EXCEPT ![t] = IF ticks < 0 THEN "EINVAL" ELSE "ETIMEDOUT"]
         /\ sc' = [sc EXCEPT ![t] = [@ EXCEPT !.at = "timed_delete", !.ret = "ERROR"]]
         /\ UNCHANGED <<s, semcount, waitsem, g, parm>>
      \/ /\ ticks > 0
         /\ g' = wd_start(g, w, ticks)
         /\ parm' = [parm EXCEPT ![w] = t]
         /\ Blocks(t, m)
         /\ sc' = [sc EXCEPT ![t].at = "timed_wait"]
  BY Zenon DEF TimedTry
<1>8. (IF ticks < 0 THEN "EINVAL" ELSE "ETIMEDOUT") \in {"EINVAL", "ETIMEDOUT"}
  OBVIOUS
<1> QED BY <1>4, <1>5, <1>6, <1>7, <1>8

(* The task runs again and stops its watchdog.                             *)
LEMMA TimedResumesGood ==
  ASSUME SemInv, NEW t \in Tasks, TimedResumes(t)
  PROVE  Good
<1> DEFINE v == WaitResult(t)
           r == [sc[t] EXCEPT !.at = "timed_delete", !.ret = v]
<1>1. /\ SemAt(t, "timed_wait") /\ v \in {"OK", "ERROR"}
      /\ sc' = [sc EXCEPT ![t] = r] /\ g' = wd_cancel(g, sc[t].wdog)
      /\ UNCHANGED <<s, pc, semcount, waitsem, pterrno, parm, isr>>
  BY DEF TimedResumes, WaitResult
<1>2. /\ sc[t].wdog \in Wdogs /\ sc \in [Tasks -> SemCalls] /\ sc[t] \in SemCalls
      /\ isr = FALSE /\ TimersOK(sc, g, parm, FALSE)
  BY <1>1, TimedHas
<1>3. r \in SemCalls /\ r.at = "timed_delete" /\ r.sem = sc[t].sem /\ r.wdog = sc[t].wdog /\ r.ret = v
  <2> HIDE DEF v
  <2> QED BY <1>1, <1>2 DEF SemCalls
<1> HIDE DEF r
<1>4. CallOK(s, t, r, pterrno[t])
  BY <1>1, <1>3, TimedMoves
<1>5. TimersOK(sc', g', parm', isr')
  <2>1. sc'[t] = r /\ \A x \in Tasks \ {t} : sc'[x] = sc[x]
    BY <1>1, <1>2
  <2>2. TimersOK(sc', wd_cancel(g, sc[t].wdog), parm, FALSE)
    BY <2>1, <1>2, <1>3, OwnerStops
  <2> QED BY <2>2, <1>1, <1>2
<1> QED BY <1>1, <1>3, <1>4, <1>5, ReportStep

(* sem_timedwait gives its watchdog back.                                  *)
LEMMA TimedDeleteGood ==
  ASSUME SemInv, NEW t \in Tasks, TimedDelete(t)
  PROVE  Good
<1> DEFINE v == sc[t].ret
<1>1. /\ SemAt(t, "timed_delete")
      /\ sc' = [sc EXCEPT ![t] = Out(v)] /\ g' = wd_delete(g, sc[t].wdog)
      /\ UNCHANGED <<s, pc, semcount, waitsem, pterrno, parm, isr>>
  BY DEF TimedDelete
<1>2. /\ sc[t].wdog \in Wdogs /\ sc \in [Tasks -> SemCalls] /\ v \in {"none", "OK", "ERROR"}
      /\ isr = FALSE /\ TimersOK(sc, g, parm, FALSE) /\ ~Waits(s, t)
      /\ pterrno \in [Tasks -> Errnos] /\ pterrno[t] \in Errnos
  BY <1>1, TimedHas
<1>3. Out(v) \in SemCalls /\ Out(v).at = "user" /\ Out(v).wdog = "NULL" /\ Out(v).ret = v
  BY <1>2, OutCall
<1>4. CallOK(s, t, Out(v), pterrno[t])
  BY <1>2, <1>3 DEF CallOK
<1>5. TimersOK(sc', g', parm', isr')
  <2>1. sc'[t] = Out(v) /\ \A x \in Tasks \ {t} : sc'[x] = sc[x]
    BY <1>1, <1>2
  <2>2. TimersOK(sc', wd_delete(g, sc[t].wdog), parm, FALSE)
    BY <2>1, <1>2, <1>3, OwnerReturns
  <2> QED BY <2>2, <1>1, <1>2
<1>6. pterrno' = [pterrno EXCEPT ![t] = pterrno[t]]
  BY <1>1, <1>2
<1> QED BY <1>1, <1>2, <1>3, <1>4, <1>5, <1>6, InnerStep

-----------------------------------------------------------------------------
(* Posts, signals, timeouts.                                               *)

(* The wait of x ends: by a post, with errno zero, or without the count.   *)
LEMMA WakesStep ==
  ASSUME SemInv, NEW x \in Tasks, Waits(s, x), s.panic = {}, pc' = pc, s' = up_unblock_task(s, x),
         NEW m, m = waitsem[x],
         semcount' = [semcount EXCEPT ![m] = @ + 1], waitsem' = [waitsem EXCEPT ![x] = "NULL"],
         NEW e \in {"0", "EINTR", "ETIMEDOUT"}, pterrno' = [pterrno EXCEPT ![x] = e],
         sc' = sc, TimersOK(sc', g', parm', isr')
  PROVE  SemInv' /\ Allowed /\ pterrno'[x] = e /\ \A y \in Tasks \ {x} : Waits(s', y) <=> Waits(s, y)
<1>1. /\ m \in Sems /\ Counted(s, waitsem, semcount) /\ CallsOK(s, sc, pterrno)
      /\ pterrno \in [Tasks -> Errnos] /\ sc \in [Tasks -> SemCalls]
      /\ waitsem \in [Tasks -> Sems \cup {"NULL"}] /\ semcount \in [Sems -> Int]
  BY DEF SemInv, Counted, CallsOK
<1>2. /\ IInv' /\ ~Waits(s', x) /\ s'.g_pidhash = s.g_pidhash
      /\ \A y \in Tasks \ {x} : Waits(s', y) <=> Waits(s, y)
  BY WakeFromSem DEF SemInv
<1>3. Counted(s', waitsem', semcount')
  BY <1>1, <1>2, CountsLeave
<1>4. /\ pterrno' \in [Tasks -> Errnos] /\ pterrno'[x] = e
      /\ \A y \in Tasks \ {x} : pterrno'[y] = pterrno[y]
  <2>1. e \in Errnos
    BY DEF Errnos
  <2> QED BY <2>1, <1>1
<1>5. sc[x].at \in {"wait", "timed_wait"} /\ CallOK(s, x, sc[x], pterrno[x])
  BY <1>1 DEF CallsOK, CallOK
<1>6. CallOK(s', x, sc'[x], pterrno'[x])
  BY <1>2, <1>5 DEF CallOK
<1>7. CallsOK(s', sc', pterrno')
  BY <1>1, <1>2, <1>4, <1>6, OneCallMoves
<1>8. SemInv'
  BY <1>2, <1>3, <1>7 DEF SemInv
<1>9. semcount[m] < 0 /\ semcount[m] \in Int
  BY <1>1, SomebodyWaits
<1>10. AvailNow' = AvailNow
  <2>1. semcount'[m] = semcount[m] + 1 /\ \A l \in Sems \ {m} : semcount'[l] = semcount[l]
    BY <1>1
  <2>2. ~(semcount[m] > 0) /\ ~(semcount'[m] > 0)
    BY <2>1, <1>9
  <2> QED BY <2>1, <2>2, AvailStays
<1>11. CallSeen(x) = m /\ CallSeen(x)' = IF e = "0" THEN "granted" ELSE "failed"
  <2>1. CallSeen(x) = m
    BY DEF CallSeen, Waits
  <2>2. CallSeen(x)' = IF e = "0" THEN "granted" ELSE "failed"
    BY <1>2, <1>4, <1>5 DEF CallSeen, Waits
  <2> QED BY <2>1, <2>2
<1>12. \A y \in Tasks \ {x} : CallSeen(y)' = CallSeen(y)
  <2>1. \A y \in Tasks \ {x} : waitsem'[y] = waitsem[y]
    BY <1>1
  <2> QED BY <2>1, <1>2, <1>4, SeenStays
<1>13. RetNow' = RetNow
  BY RetStays
<1>14. SeenNow[x] = m
  BY <1>11, NowTypes
<1>15. CASE e = "0"
  <2>1. SeenNow' = [SeenNow EXCEPT ![x] = "granted"]
    BY <1>11, <1>12, <1>15, SeenMoves
  <2>2. C!Post(m)
    <3>1. m \in Sems /\ \E t \in Tasks : SeenNow[t] = m /\ SeenNow' = [SeenNow EXCEPT ![t] = "granted"]
      BY <2>1, <1>1, <1>14
    <3> QED BY <3>1, <1>10, <1>13, CMapping
  <2> QED BY <1>1, <1>2, <1>4, <1>8, <2>2 DEF Allowed, C!CNext
<1>16. CASE e # "0"
  <2>1. SeenNow' = [SeenNow EXCEPT ![x] = "failed"]
    BY <1>11, <1>12, <1>16, SeenMoves
  <2>2. C!GiveUp(x)
    <3>1. SeenNow[x] \in Sems
      BY <1>1, <1>14
    <3> QED BY <3>1, <2>1, <1>10, <1>13, CMapping
  <2> QED BY <1>2, <1>4, <1>8, <2>2 DEF Allowed, C!CNext
<1> QED BY <1>15, <1>16

(* The tasks in g_waitingforsemaphore are those that wait, by priority.    *)
LEMMA WaitingList ==
  ASSUME IInv, NEW q, q = s.list["g_waitingforsemaphore"]
  PROVE  /\ q \in Seq(Tasks) /\ DOMAIN q \subseteq Nat
         /\ \A i \in DOMAIN q : q[i] \in Tasks /\ Waits(s, q[i])
         /\ \A t \in Tasks : Waits(s, t) => \E i \in DOMAIN q : q[i] = t
         /\ \A i, j \in DOMAIN q : i <= j => s.sched_priority[q[j]] <= s.sched_priority[q[i]]
<1>1. s \in SchedStates /\ Consistent(s) /\ InOrder(s)
  BY IInvParts DEF Sound, WellFormed
<1>2. /\ q \in Seq(Tasks) /\ s.task_state \in [Tasks -> TaskStates]
      /\ s.sched_priority \in [Tasks -> 0 .. SCHED_PRIORITY_MAX]
  BY <1>1 DEF SchedStates, Lists
<1>3. DOMAIN q = 1 .. Len(q) /\ Len(q) \in Nat /\ \A i \in DOMAIN q : q[i] \in Tasks
  BY <1>2
<1>4. \A t \in Tasks : Linked(q, t) <=> Waits(s, t)
  <2>1. ASSUME NEW t \in Tasks PROVE Linked(q, t) <=> tasklist(s.task_state[t]) = "g_waitingforsemaphore"
    BY <1>1 DEF Consistent, Lists
  <2>2. ASSUME NEW t \in Tasks
        PROVE  tasklist(s.task_state[t]) = "g_waitingforsemaphore" <=> s.task_state[t] = "WAIT_SEM"
    BY <1>2 DEF tasklist, TaskStates, BlockedStates, WaitStates
  <2> QED BY <2>1, <2>2 DEF Waits
<1>5. \A i, j \in DOMAIN q : i < j => s.sched_priority[q[i]] >= s.sched_priority[q[j]]
  BY <1>1 DEF InOrder, Sorted, PrioritizedLists, Lists
<1>6. \A i \in DOMAIN q : s.sched_priority[q[i]] \in Int
  <2>1. \A t \in Tasks : s.sched_priority[t] \in 0 .. SCHED_PRIORITY_MAX
    BY <1>2
  <2>2. \A n \in 0 .. SCHED_PRIORITY_MAX : n \in Int
    OBVIOUS
  <2> QED BY <2>1, <2>2, <1>3
<1>7. \A i, j \in DOMAIN q : i <= j => s.sched_priority[q[j]] <= s.sched_priority[q[i]]
  BY <1>3, <1>5, <1>6
<1> QED BY <1>2, <1>3, <1>4, <1>7 DEF Linked

(* The first of them that waits for m.                                     *)
LEMMA FirstWaiter ==
  ASSUME SemInv, NEW m \in Sems, NEW q, q = s.list["g_waitingforsemaphore"],
         NEW W, W = {i \in DOMAIN q : waitsem[q[i]] = m}, W # {}, NEW x, x = q[Min(W)]
  PROVE  /\ x \in Tasks /\ Waits(s, x) /\ waitsem[x] = m
         /\ \A y \in Tasks : Waits(s, y) /\ waitsem[y] = m =>
                               s.sched_priority[y] <= s.sched_priority[x]
<1>1. /\ DOMAIN q \subseteq Nat
      /\ \A i \in DOMAIN q : q[i] \in Tasks /\ Waits(s, q[i])
      /\ \A t \in Tasks : Waits(s, t) => \E i \in DOMAIN q : q[i] = t
      /\ \A i, j \in DOMAIN q : i <= j => s.sched_priority[q[j]] <= s.sched_priority[q[i]]
  BY WaitingList DEF SemInv
<1>2. W \in SUBSET Nat /\ W \subseteq DOMAIN q /\ \A i \in W : waitsem[q[i]] = m
  BY <1>1
<1>3. \E n \in W : \A k \in W : n <= k
  BY <1>2, LeastNatural
<1>4. Min(W) \in W /\ \A k \in W : Min(W) <= k
  BY <1>3 DEF Min
<1>5. ASSUME NEW y \in Tasks, Waits(s, y), waitsem[y] = m
      PROVE  s.sched_priority[y] <= s.sched_priority[x]
  <2>1. PICK j \in DOMAIN q : q[j] = y
    BY <1>1, <1>5
  <2>2. j \in W
    BY <2>1, <1>5
  <2> QED BY <2>1, <2>2, <1>1, <1>2, <1>4
<1> QED BY <1>1, <1>2, <1>4, <1>5

(* A post that nobody waits for.                                           *)
LEMMA FreePostStep ==
  ASSUME SemInv, NEW m \in Sems, semcount[m] >= 0, s' = s,
         semcount' = [semcount EXCEPT ![m] = @ + 1],
         UNCHANGED <<waitsem, pc, pterrno, sc, g, parm, isr>>
  PROVE  Good
<1>1. /\ semcount \in [Sems -> Int] /\ semcount[m] \in Int /\ Idle \in Tasks
      /\ sc \in [Tasks -> SemCalls] /\ pterrno \in [Tasks -> Errnos]
  BY IdleAssumption DEF SemInv, Counted, CallsOK
<1>2. /\ semcount' \in [Sems -> Int] /\ semcount'[m] = semcount[m] + 1
      /\ \A l \in Sems \ {m} : semcount'[l] = semcount[l]
  BY <1>1
<1>3. \A l \in Sems : semcount'[l] = semcount[l] \/ (semcount[l] >= 0 /\ semcount'[l] >= 0)
  BY <1>1, <1>2
<1>4. /\ sc' = [sc EXCEPT ![Idle] = sc[Idle]] /\ pterrno' = [pterrno EXCEPT ![Idle] = pterrno[Idle]]
      /\ sc[Idle] \in SemCalls /\ pterrno[Idle] \in Errnos
  BY <1>1
<1>5. CallOK(s, Idle, sc[Idle], pterrno[Idle]) /\ TimersOK(sc', g', parm', isr')
  BY <1>1 DEF SemInv, CallsOK
<1>6. SemInv' /\ Woken
  <2>1. CallsOK(s', sc', pterrno')
    BY DEF SemInv
  <2>2. Counted(s', waitsem', semcount')
    <3>1. waitsem' \in [Tasks -> Sems \cup {"NULL"}] /\ Counted(s, waitsem, semcount)
      BY DEF SemInv, Counted
    <3> QED BY <3>1, <1>2, <1>3, CountsStay
  <2>3. IInv'
    BY DEF SemInv, IInv
  <2> QED BY <2>1, <2>2, <2>3, <1>5, NoneWoken DEF SemInv
<1>7. \A t \in Tasks : ~(Waits(s, t) /\ waitsem[t] = m)
  BY <1>1, SomebodyWaits DEF SemInv
<1>8. \A t \in Tasks : SeenNow[t] # m
  <2>1. ASSUME NEW t \in Tasks PROVE CallSeen(t) # m
    <3>1. CASE Waits(s, t)
      BY <3>1, <1>7 DEF CallSeen, Waits
    <3>2. CASE ~Waits(s, t)
      BY <3>2, NamesAssumption DEF CallSeen, Waits
    <3> QED BY <3>1, <3>2
  <2> QED BY <2>1, NowTypes
<1>9. SeenNow' = SeenNow /\ RetNow' = RetNow
  <2>1. \A x \in Tasks : CallSeen(x)' = CallSeen(x)
    BY SeenStays
  <2> QED BY <2>1, AllSeenStay, RetStays
<1>10. AvailNow' = [AvailNow EXCEPT ![m] = @ + 1]
  <2>1. AvailNow[m] = semcount[m]
    BY <1>1, NowTypes
  <2>2. (IF semcount'[m] > 0 THEN semcount'[m] ELSE 0) = AvailNow[m] + 1
    BY <2>1, <1>1, <1>2
  <2>3. AvailNow' = [AvailNow EXCEPT ![m] = AvailNow[m] + 1]
    BY <2>2, <1>2, AvailMoves
  <2> QED BY <2>3
<1>11. C!Post(m)
  BY <1>8, <1>9, <1>10, CMapping
<1> QED BY <1>6, <1>11 DEF Good, Allowed, C!CNext

(* sem_post.                                                               *)
LEMMA PostGood ==
  ASSUME SemInv, NEW m \in Sems, sem_post(m)
  PROVE  Good
<1> DEFINE q == s.list["g_waitingforsemaphore"]
           W == {i \in DOMAIN q : waitsem[q[i]] = m}
           x == q[Min(W)]
           ok == PanicUnless(s, semcount[m] < SEM_VALUE_MAX, "SEMCOUNT")
<1>1. /\ s.panic = {} /\ semcount[m] < MaxCount /\ semcount' = [semcount EXCEPT ![m] = @ + 1]
      /\ UNCHANGED <<pc, pterrno, sc, g, parm, isr>>
  BY DEF sem_post
<1>2. \/ /\ semcount[m] + 1 <= 0 /\ W # {}
         /\ waitsem' = [waitsem EXCEPT ![x] = "NULL"]
         /\ s' = up_unblock_task(ok, x)
      \/ /\ semcount[m] + 1 > 0 \/ W = {}
         /\ s' = ok
         /\ waitsem' = waitsem
  BY Zenon DEF sem_post
<1>3. semcount[m] \in Int /\ pterrno \in [Tasks -> Errnos]
  BY DEF SemInv, Counted, CallsOK
<1>4. ok = s
  BY <1>1, <1>3, SemAssumption DEF PanicUnless
<1>5. CASE W # {} /\ waitsem' = [waitsem EXCEPT ![x] = "NULL"] /\ s' = up_unblock_task(s, x)
  <2>1. /\ x \in Tasks /\ Waits(s, x) /\ waitsem[x] = m
        /\ \A y \in Tasks : Waits(s, y) /\ waitsem[y] = m =>
                              s.sched_priority[y] <= s.sched_priority[x]
    BY <1>5, FirstWaiter
  <2> HIDE DEF x
  <2>2. pterrno[x] = "0" /\ TimersOK(sc', g', parm', isr')
    BY <1>1, <2>1 DEF SemInv, CallsOK, CallOK
  <2>3. pterrno' = [pterrno EXCEPT ![x] = "0"]
    BY <1>1, <1>3, <2>2
  <2>4. SemInv' /\ Allowed /\ \A y \in Tasks \ {x} : Waits(s', y) <=> Waits(s, y)
    BY <1>1, <1>5, <2>1, <2>2, <2>3, WakesStep
  <2>5. Woken
    BY <2>1, <2>4 DEF Woken, WaitingFor, Waits
  <2> QED BY <2>4, <2>5 DEF Good
<1>6. CASE (semcount[m] + 1 > 0 \/ W = {}) /\ s' = s /\ waitsem' = waitsem
  <2>1. semcount[m] >= 0
    <3>1. CASE semcount[m] + 1 > 0
      BY <3>1, <1>3
    <3>2. CASE W = {}
      <4>1. \A t \in Tasks : Waits(s, t) => \E i \in DOMAIN q : q[i] = t
        BY WaitingList DEF SemInv
      <4>2. ~ \E t \in Tasks : Waits(s, t) /\ waitsem[t] = m
        BY <4>1, <3>2
      <4> QED BY <4>2, <1>3, SomebodyWaits DEF SemInv
    <3> QED BY <3>1, <3>2, <1>6
  <2> QED BY <2>1, <1>1, <1>6, FreePostStep
<1> QED BY <1>2, <1>4, <1>5, <1>6

(* The state of a task that waits changes nothing but it: a step that only *)
(* the timers, or nobody, take part in.                                    *)
LEMMA TimerStep ==
  ASSUME SemInv, IInv', WaitsKept, s'.g_pidhash = s.g_pidhash,
         UNCHANGED <<semcount, waitsem, pterrno, sc>>, TimersOK(sc', g', parm', isr')
  PROVE  Good
<1>1. Counted(s', waitsem', semcount')
  <2>1. /\ Counted(s, waitsem, semcount) /\ semcount \in [Sems -> Int]
        /\ waitsem \in [Tasks -> Sems \cup {"NULL"}]
    BY DEF SemInv, Counted
  <2> QED BY <2>1, CountsStay DEF WaitsKept
<1>2. CallsOK(s', sc', pterrno')
  BY DEF SemInv, CallsOK, CallOK, WaitsKept
<1>3. SemInv'
  BY <1>1, <1>2 DEF SemInv
<1>4. Woken
  BY NoneWoken DEF WaitsKept
<1>5. UNCHANGED C!cvars
  <2>1. \A x \in Tasks : CallSeen(x)' = CallSeen(x)
    BY SeenStays DEF WaitsKept
  <2> QED BY <2>1, AllSeenStay, RetStays, AvailStays, CMapping
<1> QED BY <1>3, <1>4, <1>5 DEF Good, Allowed

(* sem_waitirq, from a signal or a timeout.                                *)
LEMMA WaitirqGood ==
  ASSUME SemInv, s.panic = {}, NEW x \in Tasks, NEW e \in {"EINTR", "ETIMEDOUT"}, sem_waitirq(x, e),
         pc' = pc, sc' = sc, TimersOK(sc', g', parm', isr')
  PROVE  Good
<1> DEFINE m == waitsem[x]
<1>1. CASE /\ Waits(s, x)
           /\ semcount' = [semcount EXCEPT ![m] = @ + 1]
           /\ waitsem' = [waitsem EXCEPT ![x] = "NULL"]
           /\ pterrno' = [pterrno EXCEPT ![x] = e]
           /\ s' = up_unblock_task(PanicUnless(s, semcount[m] < 0, "SEMCOUNT"), x)
  <2>1. m \in Sems
    BY <1>1 DEF SemInv, Counted
  <2>2. semcount[m] < 0
    BY <1>1, <2>1, SomebodyWaits DEF SemInv
  <2>3. s' = up_unblock_task(s, x)
    BY <1>1, <2>2 DEF PanicUnless
  <2>4. /\ SemInv' /\ Allowed /\ pterrno'[x] = e
        /\ \A y \in Tasks \ {x} : Waits(s', y) <=> Waits(s, y)
    BY <1>1, <2>3, WakesStep
  <2>5. Woken
    BY <2>4, NoneWoken
  <2> QED BY <2>4, <2>5 DEF Good
<1>2. CASE UNCHANGED <<semcount, waitsem, pterrno, s>>
  <2>1. IInv' /\ WaitsKept
    BY <1>2 DEF SemInv, IInv, WaitsKept
  <2> QED BY <1>2, <2>1, TimerStep
<1> QED BY <1>1, <1>2 DEF sem_waitirq, Waits

(* A signal.                                                               *)
LEMMA SignalGood ==
  ASSUME SemInv, NEW x \in Tasks, Signal(x)
  PROVE  Good
<1>1. s.panic = {} /\ sem_waitirq(x, "EINTR") /\ UNCHANGED <<pc, sc, g, parm, isr>>
  BY DEF Signal
<1>2. TimersOK(sc', g', parm', isr')
  BY <1>1 DEF SemInv
<1> QED BY <1>1, <1>2, WaitirqGood

(* The timer interrupt counts the watchdogs down.                          *)
LEMMA TimerBeginsGood ==
  ASSUME SemInv, TimerBegins
  PROVE  Good
<1>1. /\ ~isr /\ g' = TimerCounts(g) /\ isr' = TRUE
      /\ UNCHANGED <<s, pc, semcount, waitsem, pterrno, sc, parm>>
  BY DEF TimerBegins
<1>2. IInv' /\ WaitsKept
  BY <1>1 DEF SemInv, IInv, WaitsKept
<1>3. WdSound(g) /\ ~Expired(g) /\ Owned(sc, g, parm) /\ parm \in [Wdogs -> Tasks]
  BY <1>1 DEF SemInv, TimersOK
<1>4. /\ WdSound(g') /\ g'.g_wdfreelist = g.g_wdfreelist
      /\ Left(g') = [w \in Wdogs |-> IF Left(g)[w] = -1 THEN -1 ELSE Left(g)[w] - 1]
  BY <1>1, <1>3, CountsSound
<1>5. \A w \in Wdogs : g'.active[w] => g.active[w]
  <2>1. \A w \in Wdogs : Left(g)[w] = -1 => Left(g')[w] = -1
    BY <1>4
  <2>2. \A w \in Wdogs : (g.active[w] <=> Left(g)[w] # -1) /\ (g'.active[w] <=> Left(g')[w] # -1)
    BY <1>3, <1>4, ActiveIsLeft
  <2> QED BY <2>1, <2>2
<1>6. Owned(sc', g', parm')
  <2>1. Owned(sc, g', parm)
    BY <1>3, <1>4, <1>5, OwnersStay
  <2> QED BY <2>1, <1>1
<1>7. TimersOK(sc', g', parm', isr')
  BY <1>1, <1>3, <1>4, <1>6 DEF TimersOK
<1> QED BY <1>1, <1>2, <1>7, TimerStep

(* A watchdog expires.                                                     *)
LEMMA TimeoutGood ==
  ASSUME SemInv, Timeout
  PROVE  Good
<1> DEFINE w == Head(g.g_wdactivelist)
           x == parm[w]
<1>1. /\ isr /\ s.panic = {} /\ Expired(g) /\ g' = TimerRemoves(g) /\ sem_timeout(x)
      /\ UNCHANGED <<pc, sc, parm, isr>>
  BY DEF Timeout
<1>2. WdSound(g) /\ Owned(sc, g, parm) /\ parm \in [Wdogs -> Tasks] /\ isr \in BOOLEAN
  BY DEF SemInv, TimersOK
<1>3. w \in Wdogs /\ x \in Tasks
  BY <1>1, <1>2, ExpiredIsDue
<1>4. WdSound(g') /\ g'.g_wdfreelist = g.g_wdfreelist /\ Left(g') = [Left(g) EXCEPT ![w] = -1]
  BY <1>1, <1>2, RemovesSound
<1> HIDE DEF w
<1>5. \A v \in Wdogs : g'.active[v] => g.active[v]
  <2>1. \A v \in Wdogs : Left(g)[v] = -1 => Left(g')[v] = -1
    BY <1>3, <1>4 DEF Left
  <2>2. \A v \in Wdogs : (g.active[v] <=> Left(g)[v] # -1) /\ (g'.active[v] <=> Left(g')[v] # -1)
    BY <1>2, <1>4, ActiveIsLeft
  <2> QED BY <2>1, <2>2
<1>6. Owned(sc', g', parm')
  <2>1. Owned(sc, g', parm)
    BY <1>2, <1>4, <1>5, OwnersStay
  <2> QED BY <2>1, <1>1
<1>7. TimersOK(sc', g', parm', isr')
  BY <1>1, <1>2, <1>4, <1>6 DEF TimersOK
<1> HIDE DEF x
<1>8. CASE sem_waitirq(x, "ETIMEDOUT")
  BY <1>1, <1>3, <1>7, <1>8, WaitirqGood
<1>9. CASE UNCHANGED <<semcount, waitsem, pterrno, s>>
  <2>1. IInv' /\ WaitsKept
    BY <1>1, <1>9 DEF SemInv, IInv, WaitsKept
  <2> QED BY <1>1, <1>7, <1>9, <2>1, TimerStep
<1> QED BY <1>1, <1>8, <1>9 DEF sem_timeout

(* The end of the timer interrupt, with the time slice.                    *)
LEMMA TimerEndsGood ==
  ASSUME SemInv, TimerEnds
  PROVE  Good
<1>1. /\ s.panic = {} /\ ~Expired(g) /\ s' = sched_process_timeslice(s) /\ isr' = FALSE
      /\ UNCHANGED <<pc, semcount, waitsem, pterrno, sc, g, parm>>
  BY DEF TimerEnds
<1>2. IInv'
  BY <1>1, TickStep DEF SemInv, Tick
<1>3. SameRest(s', s) /\ UnreadyStay(s', s)
  BY <1>1, IInvParts, TimesliceSound DEF SemInv
<1>4. WaitsKept /\ s'.g_pidhash = s.g_pidhash
  BY <1>3, WaitsStay DEF WaitsKept, SameRest
<1>5. TimersOK(sc', g', parm', isr')
  BY <1>1 DEF SemInv, TimersOK
<1> QED BY <1>1, <1>2, <1>4, <1>5, TimerStep

(* The other calls of a task that is in no semaphore call.                 *)
LEMMA OtherCallGood ==
  ASSUME SemInv, NEW t \in Tasks, OtherCall(t)
  PROVE  Good
<1> DEFINE new == s'.g_pidhash \ s.g_pidhash
<1>1. /\ sc[t].at = "user" /\ TaskStep(t) /\ UNCHANGED <<semcount, sc, g, parm, isr>>
      /\ waitsem' = [x \in Tasks |-> IF x \in new THEN "NULL" ELSE waitsem[x]]
      /\ pterrno' = [x \in Tasks |-> IF x \in new THEN "0" ELSE pterrno[x]]
  BY DEF OtherCall
<1>2. /\ IInv /\ Counted(s, waitsem, semcount) /\ CallsOK(s, sc, pterrno)
      /\ waitsem \in [Tasks -> Sems \cup {"NULL"}] /\ semcount \in [Sems -> Int]
      /\ sc \in [Tasks -> SemCalls] /\ pterrno \in [Tasks -> Errnos]
  BY DEF SemInv, Counted, CallsOK
<1>3. IInv'
  BY <1>1, <1>2, NextIInv DEF Next
<1>4. WaitsKept /\ s.g_pidhash \ {t} \subseteq s'.g_pidhash
  BY <1>1, <1>2, TaskStepWaits
<1>5. \A x \in Tasks : x \in new => ~Waits(s, x) /\ waitsem[x] = "NULL" /\ sc[x].at = "user"
  <2>1. \A x \in Tasks : Waits(s, x) => x \in s.g_pidhash
    BY <1>2, ListedHasPid DEF Waits
  <2>2. \A x \in Tasks : sc[x].at # "user" => x \in s.g_pidhash
    BY <1>2 DEF CallsOK, CallOK
  <2> QED BY <2>1, <2>2, <1>2 DEF Counted
<1> HIDE DEF new
<1>6. \A x \in Tasks : waitsem'[x] = waitsem[x] /\ (pterrno'[x] = pterrno[x] \/ x \in new)
  BY <1>1, <1>5
<1>7. waitsem' \in [Tasks -> Sems \cup {"NULL"}] /\ pterrno' \in [Tasks -> Errnos]
  BY <1>1, <1>2 DEF Errnos
<1>8. Counted(s', waitsem', semcount')
  BY <1>1, <1>2, <1>4, <1>6, <1>7, CountsStay DEF WaitsKept
<1>9. CallsOK(s', sc', pterrno')
  <2>1. ASSUME NEW x \in Tasks PROVE CallOK(s', x, sc'[x], pterrno'[x])
    <3>1. CallOK(s, x, sc[x], pterrno[x]) /\ sc'[x] = sc[x]
      BY <1>1, <1>2 DEF CallsOK
    <3>2. Waits(s', x) <=> Waits(s, x)
      BY <1>4 DEF WaitsKept
    <3>3. sc[x].at # "user" => x \in s'.g_pidhash
      BY <1>1, <1>4, <3>1 DEF CallOK
    <3>4. Waits(s, x) => pterrno'[x] = pterrno[x]
      BY <1>5, <1>6
    <3> QED BY <3>1, <3>2, <3>3, <3>4 DEF CallOK
  <2> QED BY <2>1, <1>1, <1>2, <1>7 DEF CallsOK
<1>10. SemInv'
  BY <1>1, <1>3, <1>8, <1>9 DEF SemInv
<1>11. Woken
  BY <1>4, NoneWoken DEF WaitsKept
<1>12. UNCHANGED C!cvars
  <2>1. ASSUME NEW x \in Tasks PROVE CallSeen(x)' = CallSeen(x)
    <3>1. /\ Waits(s', x) <=> Waits(s, x)
          /\ waitsem'[x] = waitsem[x] /\ sc'[x].at = sc[x].at
          /\ pterrno'[x] = pterrno[x] \/ {sc'[x].at, sc[x].at} \cap {"wait", "timed_wait"} = {}
      BY <1>1, <1>4, <1>5, <1>6 DEF WaitsKept
    <3> QED BY <3>1, SeenStays
  <2>2. SeenNow' = SeenNow /\ RetNow' = RetNow /\ AvailNow' = AvailNow
    BY <2>1, <1>1, AllSeenStay, RetStays, AvailStays
  <2> QED BY <2>2, CMapping
<1> QED BY <1>10, <1>11, <1>12 DEF Good, Allowed

-----------------------------------------------------------------------------
(* The theorems.                                                           *)

(* The semaphores' initial state.                                          *)
LEMMA SemInitGood ==
  ASSUME Init, SemInit
  PROVE  SemInv /\ C!CInit
<1>1. IInv /\ \A t \in Tasks : ~Waits(s, t)
  <2>1. \A t \in Tasks : s.task_state[t] \in {"RUNNING", "INVALID"}
    BY DEF Init, InitSched
  <2> QED BY <2>1, InitIInv DEF Waits
<1>2. /\ semcount = InitCount /\ semcount \in [Sems -> Nat]
      /\ waitsem = [t \in Tasks |-> "NULL"] /\ pterrno = [t \in Tasks |-> "0"]
      /\ sc = [t \in Tasks |-> Out("none")] /\ g = wd_initialize
      /\ parm = [w \in Wdogs |-> Idle] /\ isr = FALSE
  BY SemAssumption DEF SemInit
<1>3. Counted(s, waitsem, semcount)
  <2>1. \A m \in Sems : Waiters(s, waitsem, m) = {} /\ ~(semcount[m] < 0)
    BY <1>1, <1>2 DEF Waiters
  <2>2. semcount \in [Sems -> Int] /\ waitsem \in [Tasks -> Sems \cup {"NULL"}]
    BY <1>2
  <2> QED BY <2>1, <2>2, <1>1, <1>2 DEF Counted
<1>4. /\ Out("none") \in SemCalls /\ Out("none").at = "user" /\ Out("none").wdog = "NULL"
      /\ Out("none").ret = "none"
  BY OutCall
<1>5. CallsOK(s, sc, pterrno)
  <2>1. sc \in [Tasks -> SemCalls] /\ pterrno \in [Tasks -> Errnos]
    BY <1>2, <1>4 DEF Errnos
  <2>2. \A t \in Tasks : CallOK(s, t, sc[t], pterrno[t])
    BY <1>1, <1>2, <1>4 DEF CallOK
  <2> QED BY <2>1, <2>2 DEF CallsOK
<1>6. TimersOK(sc, g, parm, isr)
  <2>1. WdSound(g) /\ ~Expired(g) /\ \A w \in Wdogs : Linked(g.g_wdfreelist, w)
    BY <1>2, InitSound
  <2>2. Owned(sc, g, parm)
    BY <2>1, <1>2, <1>4, NamesAssumption DEF Owned
  <2> QED BY <2>1, <2>2, <1>2, IdleAssumption DEF TimersOK
<1>7. C!CInit
  <2>1. AvailNow = InitCount
    <3>1. \A m \in Sems : (IF semcount[m] > 0 THEN semcount[m] ELSE 0) = semcount[m]
      BY <1>2
    <3>2. AvailNow = [m \in Sems |-> semcount[m]]
      BY <3>1 DEF AvailNow
    <3> QED BY <3>2, <1>2
  <2>2. SeenNow = [t \in Tasks |-> "out"]
    <3>1. \A t \in Tasks : CallSeen(t) = "out"
      BY <1>1, <1>2, <1>4, SeenOut
    <3> QED BY <3>1 DEF SeenNow
  <2>3. RetNow = [t \in Tasks |-> "none"]
    BY <1>2, <1>4 DEF RetNow
  <2> QED BY <2>1, <2>2, <2>3, CMapping
<1> QED BY <1>1, <1>3, <1>5, <1>6, <1>7 DEF SemInv

(* Every step.                                                             *)
LEMMA SemNextGood ==
  ASSUME SemInv, SemNext
  PROVE  Good
<1>1. ASSUME NEW t \in Tasks, SemStep(t) PROVE Good
  BY <1>1, WaitGood, TryWaitGood, TimedWaitGood, WaitResumesGood, TimedResumesGood,
     TimedDeleteGood, TimedTryGood DEF SemStep
<1> QED BY <1>1, OtherCallGood, PostGood, SignalGood, TimerBeginsGood, TimeoutGood, TimerEndsGood
        DEF SemNext

(* No step at all.                                                         *)
LEMMA SemStutter ==
  ASSUME SemInv, UNCHANGED allvars
  PROVE  SemInv' /\ Allowed
<1>1. UNCHANGED <<s, pc, semcount, waitsem, pterrno, sc, g, parm, isr>>
  BY DEF allvars, semvars
<1>2. SemInv'
  BY <1>1 DEF SemInv, IInv
<1>3. UNCHANGED C!cvars
  <2>1. AvailNow' = AvailNow /\ RetNow' = RetNow
    BY <1>1 DEF AvailNow, RetNow
  <2>2. SeenNow' = SeenNow
    BY <1>1 DEF SeenNow, CallSeen
  <2> QED BY <2>1, <2>2, CMapping
<1> QED BY <1>2, <1>3 DEF Allowed

(* SemInv is an invariant of the semaphores.                               *)
LEMMA SemInvAlways == SemSpec => []SemInv
<1>1. Init /\ SemInit => SemInv
  BY SemInitGood
<1>2. SemInv /\ [SemNext]_allvars => SemInv'
  BY SemNextGood, SemStutter DEF Good
<1> QED BY <1>1, <1>2, PTL DEF SemSpec

(* The count of a semaphore is that of the tasks that wait for it: no post *)
(* of sem_post is lost, and no wait that sem_waitirq ends keeps its count. *)
THEOREM CountIsWaitersAlways == SemSpec => []CountIsWaiters
<1>1. SemInv => CountIsWaiters
  <2>1. ASSUME NEW m PROVE WaitingFor(m) = Waiters(s, waitsem, m)
    BY DEF WaitingFor, Waiters, Waits
  <2> QED BY <2>1 DEF SemInv, Counted, CountIsWaiters, Waits
<1> QED BY <1>1, SemInvAlways, PTL

(* A watchdog of sem_timedwait counts only while its own task is in that   *)
(* wait, and every watchdog out of a timed wait is back in the pool.       *)
THEOREM TimeoutIsOwnAlways == SemSpec => []TimeoutIsOwn
<1>1. SemInv => TimeoutIsOwn
  <2> SUFFICES ASSUME SemInv PROVE TimeoutIsOwn
    OBVIOUS
  <2>1. WdSound(g) /\ Owned(sc, g, parm)
    BY DEF SemInv, TimersOK
  <2>2. ~g.wdnotfound /\ \A w \in Wdogs : Linked(g.g_wdfreelist, w) => ~g.active[w]
    BY <2>1 DEF WdSound
  <2>3. ASSUME NEW w \in Wdogs
        PROVE  \/ Linked(g.g_wdfreelist, w) /\ ~g.active[w]
               \/ \E t \in Tasks : /\ sc[t].wdog = w
                                   /\ \A u \in Tasks \ {t} : sc[u].wdog # w
                                   /\ g.active[w] => sc[t].at = "timed_wait" /\ parm[w] = t
    <3>1. CASE Linked(g.g_wdfreelist, w)
      BY <3>1, <2>2
    <3>2. CASE ~Linked(g.g_wdfreelist, w)
      <4>1. PICK t \in Tasks : sc[t].wdog = w
        BY <3>2, <2>1 DEF Owned
      <4>2. /\ \A u \in Tasks \ {t} : sc[u].wdog # w
            /\ g.active[w] => sc[t].at = "timed_wait" /\ parm[w] = t
        BY <4>1, <2>1 DEF Owned
      <4> QED BY <4>1, <4>2
    <3> QED BY <3>1, <3>2
  <2> QED BY <2>2, <2>3 DEF TimeoutIsOwn
<1> QED BY <1>1, SemInvAlways, PTL

(* sem_post wakes a waiting task of the highest priority.                  *)
THEOREM PostServesHighest == SemSpec => PostWakesHighest
<1>1. SemInv /\ [SemNext]_allvars => [Woken]_allvars
  BY SemNextGood DEF Good
<1>2. SemSpec => [][Woken]_allvars
  BY <1>1, SemInvAlways, PTL DEF SemSpec
<1> QED BY <1>2 DEF PostWakesHighest, Woken

(* The semaphores implement CountingSem: every wait of sem_wait,           *)
(* sem_trywait and sem_timedwait takes one count or none, and says so.     *)
THEOREM SemaphoresCount == SemSpec => CountsKept
<1>1. Init /\ SemInit => C!CInit
  BY SemInitGood
<1>2. SemInv /\ [SemNext]_allvars => [C!CNext]_C!cvars
  BY SemNextGood, SemStutter DEF Good, Allowed
<1> QED BY <1>1, <1>2, SemInvAlways, PTL DEF SemSpec, CountsKept, C!CSpec

(* The ASSERTs of sem_wait, sem_post and sem_waitirq never fail: the only  *)
(* one that can stop the system is that on the depth of sched_lock.        *)
THEOREM SemAssertsHold == SemSpec => [](s.panic \subseteq {"MAX_LOCK_COUNT"})
<1>1. SemInv => s.panic \subseteq {"MAX_LOCK_COUNT"}
  BY IInvParts DEF SemInv, SchedInv
<1> QED BY <1>1, SemInvAlways, PTL
=============================================================================
