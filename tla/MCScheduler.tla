---------------------------- MODULE MCScheduler -----------------------------
(* Small instances of Scheduler.                                           *)
EXTENDS Scheduler

CONSTANTS a, b, c

Two   == {Idle, a, b}
Three == {Idle, a, b, c}

(* The idle task starts the others; they make the calls named.             *)
Boot(calls) == [t \in Tasks |-> IF t = Idle THEN {"create"} ELSE calls]

(* Both tasks set the policy and the priority of each other; one of them   *)
(* may exit while it has pre-emption locked.                               *)
PolicyWorkload ==
  [Boot({"setscheduler", "yield", "block", "exit"}) EXCEPT ![a] = @ \cup {"lock", "exit_locked"}]

(* Round robin: three tasks of one priority that have set SCHED_RR.        *)
RRWorkload == [t \in Tasks |-> IF t = Idle THEN {} ELSE {"yield", "block"}]

RRInit ==
  /\ s = [InitSched EXCEPT
           !.list["g_readytorun"] = <<a, b, c, Idle>>,
           !.task_state     = [t \in Tasks |-> IF t = a THEN "RUNNING" ELSE "READYTORUN"],
           !.sched_priority = [t \in Tasks |-> IF t = Idle THEN 0 ELSE 1],
           !.init_priority  = [t \in Tasks |-> IF t = Idle THEN 0 ELSE 1],
           !.timeslice      = [t \in Tasks |-> IF t = Idle THEN 0 ELSE TimeSlice],
           !.round_robin    = [t \in Tasks |-> t # Idle],
           !.g_pidhash      = Tasks]
  /\ pc = [t \in Tasks |-> User]

RRSpec == RRInit /\ [][Next]_vars /\ Fairness

(* Under round robin every ready task gets its turn, however the others    *)
(* yield, block and wake.                                                  *)
RoundRobinTurns ==
  \A t \in Tasks \ {Idle} :
    s.task_state[t] = "READYTORUN" ~> s.task_state[t] = "RUNNING"
=============================================================================
