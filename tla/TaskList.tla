------------------------------ MODULE TaskList ------------------------------
(***************************************************************************)
(* The doubly linked task lists of NuttX (lib/queue, sched_addprioritized) *)
(* as sequences of tasks: position 1 is list->head, position Len(q) is     *)
(* list->tail, flink leads to the next position and blink to the previous  *)
(* one.  A priority assignment prio gives the sched_priority of each task. *)
(* The module has no state: the scheduler modules keep the lists.          *)
(***************************************************************************)
EXTENDS Integers, Sequences, FiniteSetsExt, SequencesExt

(* dq_rem unlinks one entry; the caller owns the list that holds it.       *)
dq_rem(q, t) ==
  RemoveAt(q, CHOOSE i \in DOMAIN q : q[i] = t)

dq_addlast(q, t) ==
  Append(q, t)

dq_addfirst(q, t) ==
  <<t>> \o q

(* A variant: the walk stops at a task of the same priority.               *)
SearchFrom_Strict(q, prio, p, from) ==
  CHOOSE i \in from .. Len(q) + 1 :
    /\ \A j \in from .. i - 1 : p < prio[q[j]]
    /\ i <= Len(q) => prio[q[i]] <= p

(* The search loop shared by sched_addprioritized and sched_mergepending:  *)
(* walk from position `from` over the tasks whose priority is at least p.  *)
(* The result is Len(q) + 1 when the walk reaches the NULL after the tail. *)
SearchFrom(q, prio, p, from) ==
  CHOOSE i \in from .. Len(q) + 1 :
    /\ \A j \in from .. i - 1 : p <= prio[q[j]]
    /\ i <= Len(q) => prio[q[i]] < p

(* A variant: the task goes behind the tail whatever its priority.         *)
sched_addprioritized_Tail(q, prio, t) == Append(q, t)

(* sched_addprioritized: insert before the first task of lower priority,   *)
(* hence behind every task of the same priority.                           *)
sched_addprioritized(q, prio, t) ==
  InsertAt(q, SearchFrom(q, prio, prio[t], 1), t)

(* A list in the order the scheduler keeps: priorities never increase.     *)
Sorted(q, prio) ==
  \A i, j \in DOMAIN q : i < j => prio[q[i]] >= prio[q[j]]

(* Every task is linked at most once.                                      *)
Distinct(q) ==
  \A i, j \in DOMAIN q : q[i] = q[j] => i = j

(* t is linked in q.                                                       *)
Linked(q, t) ==
  \E i \in DOMAIN q : q[i] = t

(* t is somewhere ahead of u in q.                                         *)
Ahead(q, t, u) ==
  \E i, j \in DOMAIN q : i < j /\ q[i] = t /\ q[j] = u
=============================================================================
