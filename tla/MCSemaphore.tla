---------------------------- MODULE MCSemaphore -----------------------------
(* Small instances of Semaphore: the tasks exist and the first one runs.   *)
EXTENDS Semaphore

CONSTANTS a, b, c, m1, m2, w1, w2

Two   == {Idle, a, b}
Three == {Idle, a, b, c}

(* a has priority 1, b and c have priority 2.                              *)
Started ==
  LET q == IF c \in Tasks THEN <<b, c, a, Idle>> ELSE <<b, a, Idle>>
      prio == [t \in Tasks |-> IF t = Idle THEN 0 ELSE IF t = a THEN 1 ELSE 2]
  IN  /\ s = [InitSched EXCEPT
               !.list["g_readytorun"] = q,
               !.task_state     = [t \in Tasks |-> IF t = b THEN "RUNNING" ELSE "READYTORUN"],
               !.sched_priority = prio,
               !.init_priority  = prio,
               !.g_pidhash      = Tasks]
      /\ pc = [t \in Tasks |-> User]
      /\ SemInit

SafeSpec == Started /\ [][SemNext]_allvars
MCSpec   == SafeSpec /\ SemFairness

(* The semaphores are alike; used for safety only.                         *)
SemSymmetry == Permutations(Sems)

ManyTimeouts == {-1, 0, 1, 2}

OneCount  == [m \in Sems |-> 1]
ZeroCount == [m \in Sems |-> 0]

(* The idle task makes no calls.                                           *)
Programs(calls) == [t \in Tasks |-> IF t = Idle THEN {} ELSE calls]

(* One task changes the priorities of others that wait.                    *)
WaitWorkload  == [Programs({"wait"}) EXCEPT ![a] = {"setparam"}]
TimedWorkload == [Programs({"timedwait"}) EXCEPT ![a] = {"wait", "trywait", "timedwait"}]
=============================================================================
