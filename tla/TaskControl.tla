---------------------------- MODULE TaskControl -----------------------------
(***************************************************************************)
(* task_delete and task_restart, one task ending or restarting another, on *)
(* top of the scheduler: both take a task out of whatever list it is in    *)
(* while it may be ready, blocked or in the middle of a call of its own.   *)
(***************************************************************************)
EXTENDS Scheduler

(* task_delete of another task.  sched_lock comes first.                   *)
Delete(t, x) ==
  /\ Makes(t, "delete")
  /\ Named(x) /\ x \notin {Idle, t}
  /\ s' = sched_lock(s)
  /\ pc' = [pc EXCEPT ![t] = [User EXCEPT !.at = "delete", !.tcb = x]]

(* The look-up and the sanity check.                                       *)
DeleteFinds(t) ==
  LET x == pc[t].tcb
  IN  /\ At(t, "delete")
      /\ s' = PanicUnless(s, x \in s.g_pidhash => s.task_state[x] # "RUNNING", "BADDELETESTATE")
      /\ Goto(t, IF x \in s.g_pidhash THEN "exithook" ELSE "unlock")

(* task_exithook of the other task, with pre-emption locked: flushing its  *)
(* streams takes their semaphores, and closing its files may have to wait  *)
(* for a driver, each any number of times (Unblock ends a wait).  It       *)
(* changes neither the lists nor the TCB fields modelled here.             *)
ExitHookBlocks(t) ==
  /\ At(t, "exithook")
  /\ pc[t].tcb \in SlowToClose
  /\ s' = up_block_task(s, t, "WAIT_SEM")
  /\ UNCHANGED pc

(* The removal from the task lists, with interrupts disabled and without a *)
(* second look at the task: if it has ended while the hook waited, its     *)
(* state names no list.                                                    *)
DeleteRemove(t) ==
  LET x == pc[t].tcb
  IN  /\ At(t, "exithook")
      /\ s' = RemoveFromList(s, x)
      /\ pc' = [pc EXCEPT ![t].at = "delete_unlock", ![x] = User]

DeleteUnlock(t) ==
  /\ At(t, "delete_unlock")
  /\ s' = sched_unlock(s)
  /\ Goto(t, "release")

(* sched_releasetcb(dtcb), after pre-emption is enabled again.             *)
DeleteRelease(t) ==
  /\ At(t, "release")
  /\ s' = sched_releasetcb(s, pc[t].tcb)
  /\ Return(t)

-----------------------------------------------------------------------------
(* task_restart: sched_lock, then the early returns for the caller itself  *)
(* and for an unknown pid.  MaxNest bounds the locks those leave behind in *)
(* the caller, and the locks that the restarted task takes over.           *)
Restart(t, x) ==
  /\ Makes(t, IF x # t /\ x \in s.g_pidhash THEN "restart" ELSE "restart_failing")
  /\ Named(x) /\ x # Idle
  /\ s.lockcount[t] <= MaxNest /\ s.lockcount[x] <= MaxNest
  /\ s' = sched_lock(s)
  /\ pc' = [pc EXCEPT ![t] = [User EXCEPT !.at = "restart", !.tcb = x]]

(* ERROR: neither early return calls sched_unlock.                         *)
RestartFails(t) ==
  /\ At(t, "restart")
  /\ pc[t].tcb = t \/ pc[t].tcb \notin s.g_pidhash
  /\ Return(t)
  /\ UNCHANGED s

(* Variants: the priority stays; the state does not become INACTIVE.       *)
RestartReset_KeepsPriority(t) ==
  LET x == pc[t].tcb
  IN  /\ At(t, "restart")
      /\ x # t /\ x \in s.g_pidhash
      /\ s' = [RemoveFromList(s, x) EXCEPT
                 !.list["g_inactivetasks"] = dq_addfirst(@, x),
                 !.task_state[x] = "INACTIVE"]
      /\ pc' = [pc EXCEPT ![t].at = "restart_activate", ![x] = User]

RestartReset_LeavesInvalid(t) ==
  LET x == pc[t].tcb
  IN  /\ At(t, "restart")
      /\ x # t /\ x \in s.g_pidhash
      /\ s' = [RemoveFromList(s, x) EXCEPT !.sched_priority[x] = s.init_priority[x]]
      /\ pc' = [pc EXCEPT ![t].at = "restart_activate", ![x] = User]

(* Out of the task lists, the initial priority and entry point, and the    *)
(* head of g_inactivetasks.  The lock count stays as it was.  The removal  *)
(* of a task that is in no list ends the system.                           *)
RestartReset(t) ==
  LET x == pc[t].tcb
      z == RemoveFromList(s, x)
  IN  /\ At(t, "restart")
      /\ x # t /\ x \in s.g_pidhash
      /\ s' = IF s.task_state[x] = "INVALID" THEN z
              ELSE [z EXCEPT !.sched_priority[x] = s.init_priority[x],
                             !.list["g_inactivetasks"] = dq_addfirst(@, x),
                             !.task_state[x] = "INACTIVE"]
      /\ pc' = [pc EXCEPT ![t].at = "restart_activate", ![x] = User]

(* task_activate; sched_unlock follows.                                    *)
RestartActivate(t) ==
  /\ At(t, "restart_activate")
  /\ s' = up_unblock_task(s, pc[t].tcb)
  /\ Goto(t, "unlock")

-----------------------------------------------------------------------------
ControlStep(t) ==
  \/ \E x \in Tasks : Delete(t, x) \/ Restart(t, x)
  \/ DeleteFinds(t) \/ ExitHookBlocks(t)
  \/ DeleteRemove(t) \/ DeleteUnlock(t) \/ DeleteRelease(t)
  \/ RestartFails(t) \/ RestartReset(t) \/ RestartActivate(t)

ControlNext == Next \/ \E t \in Tasks : ControlStep(t)

ControlSpec == Init /\ [][ControlNext]_vars /\ Fairness

-----------------------------------------------------------------------------
(* task_restart reinitialises: when the restarted task becomes ready again *)
(* it has its initial priority and starts at its entry point, whatever     *)
(* other tasks and interrupts did since it was taken out of its list, and  *)
(* it does not run before the caller is done.                              *)
RestartReinitializes ==
  [][\A t \in Tasks : At(t, "restart_activate") /\ pc'[t].at = "unlock" =>
       LET x == pc[t].tcb
       IN  /\ s'.sched_priority[x] = s.init_priority[x]
           /\ pc'[x] = User
           /\ s'.task_state[x] \in {"READYTORUN", "PENDING"}]_vars

=============================================================================
