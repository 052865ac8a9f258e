--------------------------- MODULE MCMessageQueue ---------------------------
(* Small instances of MessageQueue: the tasks exist and the first one runs. *)
EXTENDS MessageQueue

CONSTANTS a, b, c, q1, w1

Three == {Idle, a, b, c}

(* c has priority 3, b has 2 and a has 1.                                  *)
Started ==
  LET prio == [t \in Tasks |-> CASE t = c -> 3 [] t = b -> 2 [] t = a -> 1 [] t = Idle -> 0]
  IN  /\ s = [list           |-> [l \in Lists |-> IF l = "g_readytorun" THEN <<c, b, a, Idle>> ELSE <<>>],
              task_state     |-> [t \in Tasks |-> IF t = c THEN "RUNNING" ELSE "READYTORUN"],
              sched_priority |-> prio,
              init_priority  |-> prio,
              lockcount      |-> [t \in Tasks |-> 0],
              timeslice      |-> [t \in Tasks |-> 0],
              round_robin    |-> [t \in Tasks |-> FALSE],
              g_pidhash      |-> Tasks,
              panic          |-> {}]
      /\ Scheduled /\ MqInit

SafeSpec == Started /\ [][MqNext]_mqvars
MCSpec   == SafeSpec /\ MqFairness

Calls(ca, cb, cc) ==
  [t \in Tasks |-> CASE t = a -> ca [] t = b -> cb [] t = c -> cc [] t = Idle -> {}]

AllWorkload == Calls({"receive", "send"}, {"timedsend", "receive"}, {"timedreceive", "send"})

(* A higher-priority receiver overtakes one with a timeout.                *)
OvertakenWorkload == Calls({}, {"timedreceive"}, {"receive"})
=============================================================================
