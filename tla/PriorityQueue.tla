--------------------------- MODULE PriorityQueue ----------------------------
(***************************************************************************)
(* What a message queue promises (the headers of mq_send.c and             *)
(* mq_receive.c): every message is received once, "the oldest of the       *)
(* highest priority message(s)" first.  One first-in first-out queue for   *)
(* each priority.                                                          *)
(***************************************************************************)
EXTENDS Integers, Sequences

CONSTANTS Queues, Prios, Senders, Receivers, None

VARIABLES fifo,         \* per queue and priority: the senders of the messages
          got           \* per receiver: the message it was given, or None

pqvars == <<fifo, got>>

PInit ==
  /\ fifo = [q \in Queues |-> [p \in Prios |-> <<>>]]
  /\ got = [t \in Receivers |-> None]

PSend(q, p, from) ==
  /\ fifo' = [fifo EXCEPT ![q][p] = Append(@, from)]
  /\ UNCHANGED got

PReceive(q, p, t) ==
  /\ got[t] = None
  /\ fifo[q][p] # <<>>
  /\ \A h \in Prios : h > p => fifo[q][h] = <<>>
  /\ got' = [got EXCEPT ![t] = [prio |-> p, from |-> Head(fifo[q][p])]]
  /\ fifo' = [fifo EXCEPT ![q][p] = Tail(@)]

(* The receiver is done with the message.                                  *)
PDone(t) ==
  /\ got' = [got EXCEPT ![t] = None]
  /\ UNCHANGED fifo

PNext ==
  \/ \E q \in Queues, p \in Prios :
       (\E from \in Senders : PSend(q, p, from)) \/ (\E t \in Receivers : PReceive(q, p, t))
  \/ \E t \in Receivers : PDone(t)

PSpec == PInit /\ [][PNext]_pqvars
=============================================================================
