------------------------- MODULE MessageQueueProofs -------------------------
(***************************************************************************)
(* The message queues, for any number of tasks, queues and watchdogs: the  *)
(* counts of waiting tasks, the wakeups, the limit on the tasks' messages, *)
(* the assertions within reach, and the order in which messages are        *)
(* received.                                                               *)
(***************************************************************************)
EXTENDS MessageQueue, SchedOpsProofs, WdOpsProofs

MqStates == {"WAIT_MQNOTEMPTY", "WAIT_MQNOTFULL"}

Messages == [prio : Nat, from : Tasks \cup {Handler}, type : {"FIXED", "IRQ", "DYN"}]

Errnos == {"OK", "EINVAL", "EAGAIN", "EINTR", "ETIMEDOUT"}

(* Where a call runs with pre-emption locked, and where it may be blocked: *)
(* on its queue, or on the mutex of the heap.                              *)
Inside == {"alloc", "dosend", "wakereceiver", "doreceive", "wakesender", "unlock"}

Waitings == {"waitsend", "waitreceive", "heap"}

(* Where a call is going to send.                                          *)
Sendings == {"timedsend", "waitsend", "alloc", "heap", "dosend"}

Steps == {"user", "timedsend", "timedreceive", "delete"} \cup Waitings \cup Inside

MqCalls == [at : Steps, q : Queues \cup {None}, prio : Nat, msg : Messages \cup {None},
            wdog : Wdogs \cup {None}]

(* What a call r knows at the step it is at.                               *)
CallOK(t, r) ==
  /\ t = Idle => r.at = "user"
  /\ r.at \notin {"user", "unlock", "delete"} => r.q \in Queues
  /\ r.at = "dosend" => r.msg \in Messages /\ r.msg.from # Handler
  /\ r.at = "doreceive" => r.msg \in Messages
  /\ r.at \in {"timedsend", "timedreceive", "delete"} => r.wdog \in Wdogs
  /\ r.at \in Sendings => t \in SendingTasks

(* A call holds one lock from its first section to its last, and the CPU   *)
(* except where it waits.                                                  *)
LockOK(z, t, r) ==
  /\ z.lockcount[t] = IF r.at \in Inside \cup Waitings THEN 1 ELSE 0
  /\ r.at \in Inside => Running(z) = t

(* A waiting task and the call it waits in agree; it is woken with what    *)
(* ended the wait in errno.                                                *)
WaitOK(z, t, r, m, e) ==
  /\ m # None <=> z.task_state[t] \in MqStates
  /\ z.task_state[t] \in MqStates => m = r.q /\ e = "OK"
  /\ z.task_state[t] = "WAIT_MQNOTEMPTY" => r.at = "waitreceive"
  /\ z.task_state[t] = "WAIT_MQNOTFULL" => r.at = "waitsend"

CallsInv ==
  /\ Sound(s) /\ s.panic \subseteq {"OUTOFMESSAGES", "MQNOTFULLCOUNT"}
  /\ call \in [Tasks -> MqCalls] /\ pterrno \in [Tasks -> Errnos]
  /\ msgwaitq \in [Tasks -> Queues \cup {None}]
  /\ \A t \in Tasks : /\ CallOK(t, call[t]) /\ LockOK(s, t, call[t])
                      /\ WaitOK(s, t, call[t], msgwaitq[t], pterrno[t])

(* The watchdogs of calls are their own and not in the pool.               *)
Owned(c, f) ==
  \A t \in Tasks : c[t].wdog \in Wdogs =>
    /\ ~Linked(f.g_wdfreelist, c[t].wdog)
    /\ \A u \in Tasks \ {t} : c[u].wdog # c[t].wdog

TimersInv ==
  /\ WdSound(g) /\ isr \in BOOLEAN /\ (~isr => ~Expired(g))
  /\ parm \in [Wdogs -> [pid : Tasks, state : MqStates]]
  /\ Owned(call, g)

(* The number of tasks that wait in state st for each queue.               *)
Waiters(z, m, q, st) == {t \in Tasks : z.task_state[t] = st /\ m[t] = q}

Counted(z, m, n, st) ==
  n \in [Queues -> Nat] /\ \A q \in Queues : n[q] = Cardinality(Waiters(z, m, q, st))

CountsInv ==
  /\ Counted(s, msgwaitq, nwaitnotempty, "WAIT_MQNOTEMPTY")
  /\ Counted(s, msgwaitq, nwaitnotfull, "WAIT_MQNOTFULL")

(* A receiver that was woken for a message and has not looked yet, or a    *)
(* sender that has yet to wake one.                                        *)
ReceiverComes(r, m, e, q) ==
  /\ r.q = q
  /\ \/ r.at = "wakereceiver"
     \/ r.at = "waitreceive" /\ m = None /\ e = "OK"

ReceiversComing(q) == {t \in Tasks : ReceiverComes(call[t], msgwaitq[t], pterrno[t], q)}

(* A sender on its way to a free place, or a receiver that has yet to wake *)
(* one.                                                                    *)
SenderComes(r, m, e, q) ==
  /\ r.q = q
  /\ \/ r.at \in {"alloc", "heap", "dosend", "doreceive", "wakesender"}
     \/ r.at = "waitsend" /\ m = None /\ e = "OK"

SendersComing(q) == {t \in Tasks : SenderComes(call[t], msgwaitq[t], pterrno[t], q)}

(* NoLostWakeup, without the tasks whose wait a signal or a timeout ended: *)
(* those leave without looking at the queue.                               *)
ReceiversWoken(q) ==
  nwaitnotempty[q] > 0 => Len(msglist[q]) <= Cardinality(ReceiversComing(q))

SendersWoken(q) ==
  nwaitnotfull[q] > 0 /\ s.panic = {} =>
    MaxMsgs - Len(msglist[q]) <= Cardinality(SendersComing(q))

WakeupsInv == \A q \in Queues : ReceiversWoken(q) /\ SendersWoken(q)

(* The tasks' messages.  A sender that has not waited for the heap since   *)
(* it found room still has it; and with one message more for each sender   *)
(* that has found room, maxmsgs is exceeded by less than the number of     *)
(* tasks that send.                                                        *)
Own(l) == {i \in DOMAIN l : l[i].from # Handler}

Roomy(r) == r.at = "alloc" \/ (r.at = "dosend" /\ r.msg.type = "FIXED")

Fills(r, q) == r.q = q /\ r.at \in {"alloc", "heap", "dosend"}

Filling(q) == {t \in Tasks : Fills(call[t], q)}

FillInv ==
  /\ msglist \in [Queues -> Seq(Messages)]
  /\ \A t \in Tasks : Roomy(call[t]) => Cardinality(Own(msglist[call[t].q])) < MaxMsgs
  /\ \A q \in Queues : Cardinality(Own(msglist[q])) + Cardinality(Filling(q))
                          < MaxMsgs + Cardinality(SendingTasks)

(* The inductive invariant.                                                *)
MqInv == CallsInv /\ TimersInv /\ CountsInv /\ WakeupsInv /\ FillInv

-----------------------------------------------------------------------------
(* Sets of tasks and how their sizes compare.                              *)

(* Sets of tasks are finite.                                               *)
LEMMA TaskSets ==
  ASSUME NEW S \in SUBSET Tasks
  PROVE  IsFiniteSet(S) /\ Cardinality(S) \in Nat
<1>1. IsFiniteSet(S)
  BY MqAssumption, FS_Subset
<1> QED BY <1>1, FS_CardinalityType

(* A set with more tasks is not smaller;                                   *)
LEMMA CardGrows ==
  ASSUME NEW S \in SUBSET Tasks, NEW T \in SUBSET Tasks, S \subseteq T
  PROVE  Cardinality(S) <= Cardinality(T)
BY TaskSets, FS_Subset

(* with a task that is new it is larger by one at least;                   *)
LEMMA CardGains ==
  ASSUME NEW S \in SUBSET Tasks, NEW T \in SUBSET Tasks, S \subseteq T, NEW x \in T \ S
  PROVE  Cardinality(S) + 1 <= Cardinality(T)
<1>1. IsFiniteSet(S) /\ Cardinality(S) \in Nat
  BY TaskSets
<1>2. S \cup {x} \in SUBSET Tasks /\ S \cup {x} \subseteq T
  OBVIOUS
<1>3. Cardinality(S \cup {x}) = Cardinality(S) + 1
  BY <1>1, FS_AddElement
<1> QED BY <1>2, <1>3, CardGrows

(* without one of the tasks it is smaller by one at most;                  *)
LEMMA CardLoses ==
  ASSUME NEW S \in SUBSET Tasks, NEW T \in SUBSET Tasks, NEW t, S \ {t} \subseteq T
  PROVE  Cardinality(S) - 1 <= Cardinality(T)
<1>1. IsFiniteSet(S) /\ Cardinality(S) \in Nat /\ Cardinality(T) \in Nat
  BY TaskSets
<1>2. Cardinality(S \ {t}) = IF t \in S THEN Cardinality(S) - 1 ELSE Cardinality(S)
  BY <1>1, FS_RemoveElement
<1>3. Cardinality(S \ {t}) <= Cardinality(T)
  <2>1. S \ {t} \in SUBSET Tasks
    OBVIOUS
  <2> QED BY <2>1, CardGrows
<1> QED BY <1>1, <1>2, <1>3

(* and with a new task in its place it is not smaller.                     *)
LEMMA CardSwaps ==
  ASSUME NEW S \in SUBSET Tasks, NEW T \in SUBSET Tasks, NEW t, S \ {t} \subseteq T,
         NEW x \in T \ S
  PROVE  Cardinality(S) <= Cardinality(T)
<1>1. /\ S \ {t} \in SUBSET Tasks /\ S \ {t} \subseteq T /\ x \in T \ (S \ {t})
      /\ IsFiniteSet(S) /\ Cardinality(S) \in Nat /\ Cardinality(T) \in Nat
  BY TaskSets
<1>2. Cardinality(S \ {t}) = IF t \in S THEN Cardinality(S) - 1 ELSE Cardinality(S)
  BY <1>1, FS_RemoveElement
<1>3. Cardinality(S \ {t}) + 1 <= Cardinality(T)
  BY <1>1, CardGains
<1> QED BY <1>1, <1>2, <1>3

-----------------------------------------------------------------------------
(* The counts of waiting tasks.                                            *)

(* The waiting tasks are finitely many.                                    *)
LEMMA WaitersAreTasks ==
  ASSUME NEW z, NEW m, NEW q, NEW st
  PROVE  /\ Waiters(z, m, q, st) \in SUBSET Tasks
         /\ IsFiniteSet(Waiters(z, m, q, st)) /\ Cardinality(Waiters(z, m, q, st)) \in Nat
<1>1. Waiters(z, m, q, st) \in SUBSET Tasks
  BY DEF Waiters
<1> QED BY <1>1, TaskSets

(* A count is positive exactly if a task waits.                            *)
LEMMA SomebodyWaits ==
  ASSUME NEW z, NEW m, NEW n, NEW st, Counted(z, m, n, st), NEW q \in Queues
  PROVE  /\ n[q] \in Nat
         /\ n[q] > 0 <=> \E t \in Tasks : z.task_state[t] = st /\ m[t] = q
<1> DEFINE W == Waiters(z, m, q, st)
<1>1. n[q] \in Nat /\ n[q] = Cardinality(W)
  BY DEF Counted
<1>2. W = {} <=> ~ \E t \in Tasks : z.task_state[t] = st /\ m[t] = q
  BY DEF Waiters
<1>3. IsFiniteSet(W)
  BY WaitersAreTasks
<1> HIDE DEF W
<1>4. Cardinality(W) = 0 <=> W = {}
  BY <1>3, FS_EmptySet
<1> QED BY <1>1, <1>2, <1>4

(* Nobody begins or ends such a wait.                                      *)
LEMMA CountsStay ==
  ASSUME NEW z, NEW m, NEW n, NEW st, Counted(z, m, n, st), NEW y, NEW k,
         \A t \in Tasks : y.task_state[t] = st <=> z.task_state[t] = st,
         \A t \in Tasks : z.task_state[t] = st => k[t] = m[t]
  PROVE  Counted(y, k, n, st)
<1>1. \A q \in Queues : Waiters(y, k, q, st) = Waiters(z, m, q, st)
  BY DEF Waiters
<1> QED BY <1>1 DEF Counted

(* A task begins to wait for q.                                            *)
LEMMA CountsEnter ==
  ASSUME NEW z, NEW m, NEW n, NEW st, Counted(z, m, n, st), NEW y, NEW k,
         NEW t \in Tasks, NEW q \in Queues,
         z.task_state[t] # st, y.task_state[t] = st, k[t] = q,
         \A x \in Tasks \ {t} : y.task_state[x] = st <=> z.task_state[x] = st,
         \A x \in Tasks \ {t} : k[x] = m[x]
  PROVE  Counted(y, k, [n EXCEPT ![q] = @ + 1], st)
<1> DEFINE W == Waiters(z, m, q, st)
           j == [n EXCEPT ![q] = @ + 1]
<1>1. n \in [Queues -> Nat] /\ \A p \in Queues : n[p] = Cardinality(Waiters(z, m, p, st))
  BY DEF Counted
<1>2. j \in [Queues -> Nat] /\ j[q] = n[q] + 1 /\ \A p \in Queues \ {q} : j[p] = n[p]
  BY <1>1
<1> HIDE DEF j
<1>3. Waiters(y, k, q, st) = W \cup {t} /\ t \notin W
  BY DEF Waiters
<1>4. \A p \in Queues \ {q} : Waiters(y, k, p, st) = Waiters(z, m, p, st)
  BY DEF Waiters
<1>5. Cardinality(W \cup {t}) = Cardinality(W) + 1
  <2>1. IsFiniteSet(W) /\ t \notin W
    BY <1>3, WaitersAreTasks
  <2> HIDE DEF W
  <2> QED BY <2>1, FS_AddElement
<1>6. n[q] = Cardinality(W)
  BY <1>1
<1> HIDE DEF W
<1>7. ASSUME NEW p \in Queues PROVE j[p] = Cardinality(Waiters(y, k, p, st))
  <2>1. CASE p = q
    BY <2>1, <1>2, <1>3, <1>5, <1>6
  <2>2. CASE p # q
    BY <2>2, <1>1, <1>2, <1>4
  <2> QED BY <2>1, <2>2
<1> QED BY <1>2, <1>7 DEF Counted, j

(* A task that waits for q is woken or gives up.                           *)
LEMMA CountsLeave ==
  ASSUME NEW z, NEW m, NEW n, NEW st, Counted(z, m, n, st), NEW y, NEW k,
         NEW t \in Tasks, NEW q \in Queues,
         z.task_state[t] = st, m[t] = q, y.task_state[t] # st,
         \A x \in Tasks \ {t} : y.task_state[x] = st <=> z.task_state[x] = st,
         \A x \in Tasks \ {t} : k[x] = m[x]
  PROVE  Counted(y, k, [n EXCEPT ![q] = @ - 1], st)
<1> DEFINE W == Waiters(z, m, q, st)
           j == [n EXCEPT ![q] = @ - 1]
<1>1. n \in [Queues -> Nat] /\ \A p \in Queues : n[p] = Cardinality(Waiters(z, m, p, st))
  BY DEF Counted
<1>2. n[q] > 0
  BY SomebodyWaits
<1>3. j \in [Queues -> Nat] /\ j[q] = n[q] - 1 /\ \A p \in Queues \ {q} : j[p] = n[p]
  <2>1. n[q] - 1 \in Nat
    BY <1>1, <1>2
  <2> QED BY <1>1, <2>1
<1> HIDE DEF j
<1>4. Waiters(y, k, q, st) = W \ {t} /\ t \in W
  BY DEF Waiters
<1>5. \A p \in Queues \ {q} : Waiters(y, k, p, st) = Waiters(z, m, p, st)
  BY DEF Waiters
<1>6. Cardinality(W \ {t}) = Cardinality(W) - 1
  <2>1. IsFiniteSet(W) /\ t \in W
    BY <1>4, WaitersAreTasks
  <2> HIDE DEF W
  <2> QED BY <2>1, FS_RemoveElement
<1>7. n[q] = Cardinality(W)
  BY <1>1
<1> HIDE DEF W
<1>8. ASSUME NEW p \in Queues PROVE j[p] = Cardinality(Waiters(y, k, p, st))
  <2>1. CASE p = q
    BY <2>1, <1>3, <1>4, <1>6, <1>7
  <2>2. CASE p # q
    BY <2>2, <1>1, <1>3, <1>5
  <2> QED BY <2>1, <2>2
<1> QED BY <1>3, <1>8 DEF Counted, j

-----------------------------------------------------------------------------
(* The messages in a queue.                                                *)

(* The tasks' messages are no more than the messages.                      *)
LEMMA OwnSize ==
  ASSUME NEW l \in Seq(Messages)
  PROVE  /\ IsFiniteSet(Own(l)) /\ Cardinality(Own(l)) \in Nat
         /\ Cardinality(Own(l)) <= Len(l) /\ Len(l) \in Nat
<1>1. Len(l) \in Nat /\ Own(l) \in SUBSET (1 .. Len(l))
  BY LenProperties DEF Own
<1>2. IsFiniteSet(1 .. Len(l)) /\ Cardinality(1 .. Len(l)) = Len(l)
  <2>1. 1 \in Int /\ Len(l) \in Int
    BY <1>1
  <2>2. /\ IsFiniteSet(1 .. Len(l))
        /\ Cardinality(1 .. Len(l)) = IF 1 > Len(l) THEN 0 ELSE Len(l) - 1 + 1
    BY <2>1, FS_Interval, Zenon
  <2> QED BY <1>1, <2>2
<1>3. IsFiniteSet(Own(l)) /\ Cardinality(Own(l)) <= Len(l)
  BY <1>1, <1>2, FS_Subset
<1> QED BY <1>1, <1>3, FS_CardinalityType

(* Taking the first message leaves no more of the tasks' messages.         *)
LEMMA OwnTail ==
  ASSUME NEW l \in Seq(Messages), l # <<>>
  PROVE  /\ Tail(l) \in Seq(Messages) /\ Len(Tail(l)) = Len(l) - 1 /\ Head(l) \in Messages
         /\ Cardinality(Own(Tail(l))) <= Cardinality(Own(l))
<1> DEFINE r == Tail(l)
           f == [i \in Own(r) |-> i + 1]
<1>1. /\ r \in Seq(Messages) /\ Len(r) = Len(l) - 1 /\ Head(l) \in Messages
      /\ \A i \in 1 .. Len(r) : r[i] = l[i + 1]
  BY HeadTailProperties
<1>2. DOMAIN r = 1 .. Len(r) /\ DOMAIN l = 1 .. Len(l) /\ Len(l) \in Nat /\ Len(r) \in Nat
  BY <1>1, LenProperties
<1> HIDE DEF r
<1>3. \A i \in Own(r) : i \in Nat /\ i + 1 \in Own(l)
  BY <1>1, <1>2 DEF Own
<1>4. f \in [Own(r) -> Own(l)] /\ \A i, j \in Own(r) : f[i] = f[j] => i = j
  BY <1>3
<1>5. f \in Injection(Own(r), Own(l))
  <2> HIDE DEF f
  <2> QED BY <1>4 DEF Injection, IsInjective
<1>6. Cardinality(Own(r)) <= Cardinality(Own(l))
  <2>1. IsFiniteSet(Own(l))
    BY OwnSize
  <2> HIDE DEF f
  <2> QED BY <2>1, <1>5, FS_Injection
<1> QED BY <1>1, <1>6 DEF r

(* Adding a message adds at most one of the tasks' messages, and none if   *)
(* it is a handler's.                                                      *)
LEMMA OwnInsert ==
  ASSUME NEW l \in Seq(Messages), NEW k \in 1 .. Len(l) + 1, NEW m \in Messages
  PROVE  /\ InsertAt(l, k, m) \in Seq(Messages) /\ Len(InsertAt(l, k, m)) = Len(l) + 1
         /\ Cardinality(Own(InsertAt(l, k, m))) <= Cardinality(Own(l)) + 1
         /\ m.from = Handler => Cardinality(Own(InsertAt(l, k, m))) <= Cardinality(Own(l))
<1> DEFINE r == InsertAt(l, k, m)
<1>1. /\ r \in Seq(Messages) /\ Len(r) = Len(l) + 1
      /\ \A i \in 1 .. Len(l) + 1 : r[i] = IF i < k THEN l[i] ELSE IF i = k THEN m ELSE l[i - 1]
  <2>1. l \in Seq(Messages) /\ m \in Messages /\ k \in 1 .. Len(l) + 1
    OBVIOUS
  <2>2. Inserts(l, r, k, m, Messages)
    BY <2>1, InsertedPositions
  <2> HIDE DEF r
  <2> QED BY <2>2, Zenon DEF Inserts
<1> DEFINE f == [i \in Own(r) \ {k} |-> IF i < k THEN i ELSE i - 1]
<1>2. DOMAIN r = 1 .. Len(l) + 1 /\ DOMAIN l = 1 .. Len(l) /\ Len(l) \in Nat /\ k \in Int
  BY <1>1, LenProperties
<1> HIDE DEF r
<1>3. \A i \in Own(r) : i \in Int /\ i \in 1 .. Len(l) + 1 /\ r[i].from # Handler
  BY <1>2 DEF Own
<1>4. ASSUME NEW i \in Own(r) \ {k} PROVE (IF i < k THEN i ELSE i - 1) \in Own(l)
  <2>1. CASE i < k
    <3>1. r[i] = l[i] /\ i \in 1 .. Len(l)
      BY <2>1, <1>1, <1>2, <1>3
    <3> QED BY <2>1, <3>1, <1>2, <1>3 DEF Own
  <2>2. CASE ~(i < k)
    <3>1. r[i] = l[i - 1] /\ i - 1 \in 1 .. Len(l)
      BY <2>2, <1>1, <1>2, <1>3
    <3> QED BY <2>2, <3>1, <1>2, <1>3 DEF Own
  <2> QED BY <2>1, <2>2
<1>5. f \in [Own(r) \ {k} -> Own(l)]
  BY <1>4
<1>6. ASSUME NEW i \in Own(r) \ {k}, NEW j \in Own(r) \ {k}, f[i] = f[j] PROVE i = j
  BY <1>2, <1>3, <1>6
<1>7. f \in Injection(Own(r) \ {k}, Own(l))
  <2> HIDE DEF f
  <2> QED BY <1>5, <1>6 DEF Injection, IsInjective
<1> HIDE DEF f
<1>8. Cardinality(Own(r) \ {k}) <= Cardinality(Own(l))
  BY <1>7, OwnSize, FS_Injection
<1>9. IsFiniteSet(Own(r)) /\ Cardinality(Own(r)) \in Nat /\ Cardinality(Own(l)) \in Nat
  BY <1>1, OwnSize
<1>10. Cardinality(Own(r) \ {k}) = IF k \in Own(r) THEN Cardinality(Own(r)) - 1 ELSE Cardinality(Own(r))
  BY <1>9, FS_RemoveElement
<1>11. m.from = Handler => k \notin Own(r)
  BY <1>1, <1>2, <1>3
<1> QED BY <1>1, <1>8, <1>9, <1>10, <1>11 DEF r

(* The insertion of mq_dosend is at some position of the list.             *)
LEMMA InsertSomewhere ==
  ASSUME FillInv, NEW q \in Queues, NEW m \in Messages
  PROVE  \E k \in 1 .. Len(msglist[q]) + 1 :
           InsertMessage(q, m) = [msglist EXCEPT ![q] = InsertAt(msglist[q], k, m)]
<1> DEFINE l == msglist[q]
           W == {i \in DOMAIN l : m.prio > l[i].prio} \cup {Len(l) + 1}
<1>1. msglist \in [Queues -> Seq(Messages)] /\ l \in Seq(Messages)
  BY DEF FillInv
<1>2. Len(l) \in Nat /\ DOMAIN l = 1 .. Len(l)
  BY <1>1, LenProperties
<1>3. W \in SUBSET Nat /\ W # {} /\ W \subseteq 1 .. Len(l) + 1
  BY <1>2
<1>4. InsertMessage(q, m) = [msglist EXCEPT ![q] = InsertAt(msglist[q], Min(W), m)]
  BY <1>1 DEF InsertMessage
<1> HIDE DEF W
<1>5. \E n \in W : \A k \in W : n <= k
  BY <1>3, LeastNatural
<1>6. Min(W) \in W
  BY <1>5 DEF Min
<1> QED BY <1>3, <1>4, <1>6

-----------------------------------------------------------------------------
(* What a step does to the scheduler.                                      *)

(* The locks and the CPU are with the calls that need them.                *)
SchedOK(z, c) ==
  /\ Sound(z) /\ z.panic \subseteq {"OUTOFMESSAGES", "MQNOTFULLCOUNT"}
  /\ \A t \in Tasks : LockOK(z, t, c[t])

(* No task but t begins or ends a wait for a queue; task t begins one,     *)
(* ends one, or does neither.                                              *)
OthersKept(z, y, t) ==
  \A x \in Tasks \ {t} : \A st \in MqStates : y.task_state[x] = st <=> z.task_state[x] = st

Kept(z, y) ==
  \A x \in Tasks : \A st \in MqStates : y.task_state[x] = st <=> z.task_state[x] = st

Enters(z, y, t, st) ==
  z.task_state[t] \notin MqStates /\ y.task_state[t] = st /\ OthersKept(z, y, t)

Leaves(z, y, t) ==
  z.task_state[t] \in MqStates /\ y.task_state[t] \notin MqStates /\ OthersKept(z, y, t)

(* A task that waits for a queue is blocked.                               *)
LEMMA MqStatesBlocked == MqStates \subseteq BlockedStates /\ MqStates \subseteq Unready
BY UnreadyStates DEF MqStates, BlockedStates, WaitStates

(* The steps of the scheduler that leave the tasks that are not ready      *)
(* alone leave the waits for queues alone.                                 *)
LEMMA StayKept ==
  /\ \A y, z : UnreadyStay(y, z) => Kept(z, y)
  /\ \A y, z : \A t \in Tasks : OthersStay(y, z, t) => OthersKept(z, y, t)
BY MqStatesBlocked DEF UnreadyStay, OthersStay, Kept, OthersKept

(* The running task is not waiting, and a waiting task is not idle.        *)
LEMMA RunningOrWaiting ==
  ASSUME NEW z, Sound(z)
  PROVE  /\ Running(z) \in Tasks /\ z.task_state[Running(z)] = "RUNNING"
         /\ z.task_state[Running(z)] \notin MqStates
         /\ z.task_state[Idle] \notin MqStates
         /\ \A t \in Tasks : z.lockcount[t] \in Nat /\ z.task_state[t] \in TaskStates
<1>1. WellFormed(z) /\ z \in SchedStates /\ HeadRuns(z)
  BY DEF Sound, WellFormed
<1>2. Running(z) \in Tasks /\ z.task_state[Idle] \in {"READYTORUN", "RUNNING"}
  BY <1>1, ReadyList
<1>3. z.task_state[Running(z)] = "RUNNING"
  BY <1>1, <1>2 DEF HeadRuns
<1> QED BY <1>1, <1>2, <1>3, StateTypes DEF MqStates

(* sched_lock, where the count has not reached its limit.                  *)
LEMMA LockFacts ==
  ASSUME NEW z, Sound(z), z.lockcount[Running(z)] \in {0, 1}
  PROVE  LET y == sched_lock(z)
         IN  /\ Sound(y) /\ y.panic = z.panic /\ y.task_state = z.task_state /\ y.list = z.list
             /\ Running(y) = Running(z) /\ Running(z) \in Tasks
             /\ y.lockcount[Running(z)] = z.lockcount[Running(z)] + 1
             /\ \A x \in Tasks \ {Running(z)} : y.lockcount[x] = z.lockcount[x]
<1> DEFINE y == sched_lock(z)
<1>1. Sound(y) /\ y.task_state = z.task_state /\ y.list = z.list /\ Running(y) = Running(z)
      /\ Running(z) \in Tasks
  BY LockSound
<1>2. /\ y.lockcount[Running(z)] = z.lockcount[Running(z)] + 1
      /\ \A x \in Tasks \ {Running(z)} : y.lockcount[x] = z.lockcount[x]
  <2>1. Shaped(z)
    BY WellFormedIsShaped DEF Sound
  <2> QED BY <2>1, LockShaped
<1>3. y.panic = z.panic
  <2>1. z.lockcount[Running(z)] < MAX_LOCK_COUNT
    BY CallersAssumption, BoundsAssumption
  <2>2. z \in SchedStates
    BY DEF Sound, WellFormed
  <2>3. y = [z EXCEPT !.lockcount[Running(z)] = @ + 1]
    BY <2>1 DEF sched_lock, PanicUnless
  <2> QED BY <2>2, <2>3 DEF SchedStates
<1> HIDE DEF y
<1> QED BY <1>1, <1>2, <1>3 DEF y

(* With a task in the unlocked part of its call running, no call is        *)
(* inside.                                                                 *)
LEMMA NobodyInside ==
  ASSUME NEW z, NEW c, SchedOK(z, c), NEW t \in Tasks, Running(z) = t
  PROVE  \A x \in Tasks \ {t} : c[x].at \notin Inside
BY DEF SchedOK, LockOK

(* Task t enters or leaves nothing; the scheduler is left alone.           *)
LEMMA SchedSame ==
  ASSUME NEW z, NEW c, SchedOK(z, c), NEW t \in Tasks, NEW d,
         \A x \in Tasks \ {t} : d[x] = c[x],
         d[t].at \in Inside \cup Waitings <=> c[t].at \in Inside \cup Waitings,
         d[t].at \in Inside => Running(z) = t
  PROVE  SchedOK(z, d)
<1>1. ASSUME NEW x \in Tasks PROVE LockOK(z, x, d[x])
  BY DEF SchedOK, LockOK
<1> QED BY <1>1 DEF SchedOK

(* The first section of a call that goes on.                               *)
LEMMA SchedLocks ==
  ASSUME NEW z, NEW c, SchedOK(z, c), NEW t \in Tasks, Running(z) = t, NEW d,
         \A x \in Tasks \ {t} : d[x] = c[x],
         c[t].at \notin Inside \cup Waitings, d[t].at \in Inside
  PROVE  SchedOK(sched_lock(z), d) /\ Kept(z, sched_lock(z))
<1> DEFINE y == sched_lock(z)
<1>1. Sound(z) /\ z.lockcount[t] = 0
  BY DEF SchedOK, LockOK
<1>2. /\ Sound(y) /\ y.panic = z.panic /\ y.task_state = z.task_state
      /\ Running(y) = t /\ y.lockcount[t] = 1
      /\ \A x \in Tasks \ {t} : y.lockcount[x] = z.lockcount[x]
  BY <1>1, LockFacts
<1> HIDE DEF y
<1>3. ASSUME NEW x \in Tasks PROVE LockOK(y, x, d[x])
  <2>1. CASE x = t
    BY <2>1, <1>2 DEF LockOK
  <2>2. CASE x # t
    BY <2>2, <1>2, NobodyInside DEF LockOK, SchedOK
  <2> QED BY <2>1, <2>2
<1>4. SchedOK(y, d) /\ Kept(z, y)
  BY <1>2, <1>3 DEF SchedOK, Kept
<1> QED BY <1>4 DEF y

(* The running task blocks.                                                *)
LEMMA BlockFacts ==
  ASSUME NEW z, Sound(z), NEW t \in Tasks \ {Idle}, Running(z) = t, NEW st \in MqStates
  PROVE  LET y == up_block_task(z, t, st)
         IN  /\ Sound(y) /\ y.lockcount = z.lockcount /\ y.panic = z.panic
             /\ Enters(z, y, t, st)
<1> DEFINE y == up_block_task(z, t, st)
<1>1. st \in BlockedStates /\ t \in Tasks
  BY MqStatesBlocked
<1>2. Sound(y) /\ SameTcbs(y, z) /\ SameRest(y, z) /\ OthersStay(y, z, t) /\ y.task_state[t] = st
  BY <1>1, BlockSound, ZenonT(40)
<1> HIDE DEF y
<1>3. y.lockcount = z.lockcount /\ y.panic = z.panic
  BY <1>2 DEF SameTcbs, SameRest
<1>4. Enters(z, y, t, st)
  BY <1>1, <1>2, RunningOrWaiting, StayKept DEF Enters
<1> QED BY <1>2, <1>3, <1>4 DEF y

(* A task blocks, with the lock it holds.                                  *)
LEMMA SchedBlocks ==
  ASSUME NEW z, NEW c, SchedOK(z, c), NEW t \in Tasks \ {Idle}, Running(z) = t,
         NEW st \in MqStates, NEW d,
         \A x \in Tasks \ {t} : d[x] = c[x],
         c[t].at \in Inside \cup Waitings, d[t].at \in Waitings
  PROVE  LET y == up_block_task(z, t, st)
         IN  SchedOK(y, d) /\ Enters(z, y, t, st)
<1> DEFINE y == up_block_task(z, t, st)
<1>1. Sound(z) /\ z.lockcount[t] = 1 /\ t \in Tasks
  BY DEF SchedOK, LockOK
<1>3. Sound(y) /\ y.lockcount = z.lockcount /\ y.panic = z.panic /\ Enters(z, y, t, st)
  BY <1>1, BlockFacts
<1> HIDE DEF y
<1>4. ASSUME NEW x \in Tasks PROVE LockOK(y, x, d[x])
  <2>1. CASE x = t
    BY <2>1, <1>1, <1>3 DEF LockOK, Inside, Waitings
  <2>2. CASE x # t
    BY <2>2, <1>3, NobodyInside DEF LockOK, SchedOK
  <2> QED BY <2>1, <2>2
<1>5. SchedOK(y, d)
  BY <1>3, <1>4 DEF SchedOK
<1> QED BY <1>3, <1>5 DEF y

(* The first section of a call that has to wait.                           *)
LEMMA SchedLocksAndBlocks ==
  ASSUME NEW z, NEW c, SchedOK(z, c), NEW t \in Tasks \ {Idle}, Running(z) = t,
         NEW st \in MqStates, NEW d,
         \A x \in Tasks \ {t} : d[x] = c[x],
         c[t].at \notin Inside \cup Waitings, d[t].at \in Waitings
  PROVE  LET y == up_block_task(sched_lock(z), t, st)
         IN  SchedOK(y, d) /\ Enters(z, y, t, st)
<1>0. PICK y1 : y1 = sched_lock(z)
  OBVIOUS
<1> DEFINE y == up_block_task(y1, t, st)
<1>1. Sound(z) /\ z.lockcount[t] = 0 /\ t \in Tasks
  BY DEF SchedOK, LockOK
<1>2. /\ Sound(y1) /\ y1.panic = z.panic /\ y1.task_state = z.task_state
      /\ Running(y1) = t /\ y1.lockcount[t] = 1
      /\ \A x \in Tasks \ {t} : y1.lockcount[x] = z.lockcount[x]
  BY <1>0, <1>1, LockFacts
<1>3. Sound(y) /\ y.lockcount = y1.lockcount /\ y.panic = y1.panic /\ Enters(y1, y, t, st)
  BY <1>2, BlockFacts
<1> HIDE DEF y
<1>4. ASSUME NEW x \in Tasks PROVE LockOK(y, x, d[x])
  <2>1. CASE x = t
    BY <2>1, <1>2, <1>3 DEF LockOK, Inside, Waitings
  <2>2. CASE x # t
    BY <2>2, <1>2, <1>3, NobodyInside DEF LockOK, SchedOK
  <2> QED BY <2>1, <2>2
<1>5. Enters(z, y, t, st)
  BY <1>2, <1>3 DEF Enters, OthersKept
<1>6. SchedOK(y, d)
  BY <1>3, <1>4, <1>2 DEF SchedOK
<1> QED BY <1>0, <1>5, <1>6 DEF y

(* The running task blocks on the mutex of the heap, with its lock.        *)
LEMMA SchedHeapBlocks ==
  ASSUME NEW z, NEW c, SchedOK(z, c), NEW t \in Tasks \ {Idle}, Running(z) = t, c[t].at = "heap"
  PROVE  LET y == up_block_task(z, t, "WAIT_SEM")
         IN  SchedOK(y, c) /\ Kept(z, y) /\ y.panic = z.panic
<1>0. PICK st : st = "WAIT_SEM"
  OBVIOUS
<1> DEFINE y == up_block_task(z, t, st)
<1>1. Sound(z) /\ t \in Tasks /\ st \in BlockedStates /\ st \notin MqStates
  BY <1>0 DEF SchedOK, BlockedStates, WaitStates, MqStates
<1>2. Sound(y) /\ SameTcbs(y, z) /\ SameRest(y, z) /\ OthersStay(y, z, t) /\ y.task_state[t] = st
  BY <1>1, BlockSound, ZenonT(40)
<1> HIDE DEF y
<1>3. y.lockcount = z.lockcount /\ y.panic = z.panic
  BY <1>2 DEF SameTcbs, SameRest
<1>4. ASSUME NEW x \in Tasks PROVE LockOK(y, x, c[x])
  <2>1. LockOK(z, x, c[x]) /\ c[x].at \notin Inside
    <3>1. CASE x = t
      BY <3>1 DEF SchedOK, Inside
    <3>2. CASE x # t
      BY <3>2, <1>1, NobodyInside DEF SchedOK
    <3> QED BY <3>1, <3>2
  <2> QED BY <2>1, <1>3 DEF LockOK
<1>5. Kept(z, y)
  BY <1>1, <1>2, RunningOrWaiting, StayKept DEF Kept, OthersKept
<1>6. SchedOK(y, c)
  BY <1>2, <1>3, <1>4 DEF SchedOK
<1> QED BY <1>0, <1>3, <1>5, <1>6 DEF y

(* The mutex is given to a task.                                           *)
LEMMA SchedHeapFreed ==
  ASSUME NEW z, NEW c, SchedOK(z, c), NEW x \in Tasks \ {Idle}, z.task_state[x] = "WAIT_SEM"
  PROVE  LET y == up_unblock_task(z, x)
         IN  SchedOK(y, c) /\ Kept(z, y) /\ y.panic = z.panic
<1> DEFINE y == up_unblock_task(z, x)
<1>1. Sound(z) /\ z.task_state[x] \in BlockedStates /\ z.task_state[x] \notin MqStates
  BY DEF SchedOK, BlockedStates, WaitStates, MqStates
<1>2. /\ Sound(y) /\ SameTcbs(y, z) /\ SameRest(y, z) /\ OthersStay(y, z, x)
      /\ y.task_state[x] \notin Unready
      /\ z.lockcount[Running(z)] > 0 => Running(y) = Running(z)
  BY <1>1, UnblockSound
<1> HIDE DEF y
<1>3. y.lockcount = z.lockcount /\ y.panic = z.panic
  BY <1>2 DEF SameTcbs, SameRest
<1>4. ASSUME NEW t \in Tasks PROVE LockOK(y, t, c[t])
  <2>1. LockOK(z, t, c[t])
    BY DEF SchedOK
  <2>2. c[t].at \in Inside => Running(z) = t /\ z.lockcount[Running(z)] > 0
    BY <2>1 DEF LockOK
  <2> QED BY <2>1, <2>2, <1>2, <1>3 DEF LockOK
<1>5. Kept(z, y)
  BY <1>1, <1>2, StayKept, MqStatesBlocked DEF Kept, OthersKept
<1>6. SchedOK(y, c)
  BY <1>2, <1>3, <1>4 DEF SchedOK
<1> QED BY <1>3, <1>5, <1>6 DEF y

(* A waiting task is woken; the running one keeps its lock, and with it    *)
(* the CPU.                                                                *)
LEMMA SchedWakes ==
  ASSUME NEW z, NEW c, SchedOK(z, c), NEW x \in Tasks, z.task_state[x] \in MqStates, NEW d,
         \A t \in Tasks : /\ d[t].at \in Inside <=> c[t].at \in Inside
                          /\ d[t].at \in Waitings <=> c[t].at \in Waitings
  PROVE  LET y == up_unblock_task(z, x)
         IN  SchedOK(y, d) /\ Leaves(z, y, x) /\ y.panic = z.panic
<1> DEFINE y == up_unblock_task(z, x)
<1>1. Sound(z) /\ z.task_state[x] \in BlockedStates /\ x \in Tasks \ {Idle}
  BY MqStatesBlocked, RunningOrWaiting DEF SchedOK
<1>2. /\ Sound(y) /\ SameTcbs(y, z) /\ SameRest(y, z) /\ OthersStay(y, z, x)
      /\ y.task_state[x] \notin Unready
      /\ z.lockcount[Running(z)] > 0 => Running(y) = Running(z)
  BY <1>1, UnblockSound
<1> HIDE DEF y
<1>3. y.lockcount = z.lockcount /\ y.panic = z.panic
  BY <1>2 DEF SameTcbs, SameRest
<1>4. ASSUME NEW t \in Tasks PROVE LockOK(y, t, d[t])
  <2>1. LockOK(z, t, c[t])
    BY DEF SchedOK
  <2>2. c[t].at \in Inside => Running(z) = t /\ z.lockcount[Running(z)] > 0
    BY <2>1 DEF LockOK
  <2> QED BY <2>1, <2>2, <1>2, <1>3 DEF LockOK
<1>5. Leaves(z, y, x)
  BY <1>2, StayKept, MqStatesBlocked DEF Leaves
<1>6. SchedOK(y, d)
  BY <1>2, <1>3, <1>4 DEF SchedOK
<1> QED BY <1>3, <1>5, <1>6 DEF y

(* The last section of a call.                                             *)
LEMMA SchedUnlocks ==
  ASSUME NEW z, NEW c, SchedOK(z, c), NEW t \in Tasks, Running(z) = t, NEW d,
         \A x \in Tasks \ {t} : d[x] = c[x],
         c[t].at \in Inside, d[t].at \notin Inside \cup Waitings
  PROVE  SchedOK(sched_unlock(z), d) /\ Kept(z, sched_unlock(z))
<1> DEFINE y == sched_unlock(z)
<1>1. Sound(z) /\ z.lockcount[t] = 1
  BY DEF SchedOK, LockOK
<1>2. /\ Sound(y) /\ SameRest(y, z) /\ UnreadyStay(y, z)
      /\ y.lockcount[t] = 0 /\ \A x \in Tasks \ {t} : y.lockcount[x] = z.lockcount[x]
  BY <1>1, UnlockSound
<1> HIDE DEF y
<1>3. ASSUME NEW x \in Tasks PROVE LockOK(y, x, d[x])
  <2>1. CASE x = t
    BY <2>1, <1>2 DEF LockOK
  <2>2. CASE x # t
    BY <2>2, <1>2, NobodyInside DEF LockOK, SchedOK
  <2> QED BY <2>1, <2>2
<1>4. SchedOK(y, d) /\ Kept(z, y)
  BY <1>2, <1>3, StayKept DEF SchedOK, SameRest
<1> QED BY <1>4 DEF y

(* A PANIC that is within reach.                                           *)
LEMMA SchedPanics ==
  ASSUME NEW z, NEW c, SchedOK(z, c), NEW why \in {"OUTOFMESSAGES", "MQNOTFULLCOUNT"}
  PROVE  LET y == PanicUnless(z, FALSE, why)
         IN  SchedOK(y, c) /\ Kept(z, y) /\ y.panic # {}
<1> DEFINE y == PanicUnless(z, FALSE, why)
<1>1. z \in SchedStates /\ Shaped(z) /\ HeadRuns(z) /\ PendingIsLocked(z) /\ why \in Panics
  BY WellFormedIsShaped DEF SchedOK, Sound, WellFormed, Panics
<1>2. /\ Shaped(y) /\ Running(y) = Running(z) /\ HeadRuns(y)
      /\ y.list = z.list /\ y.task_state = z.task_state /\ y.lockcount = z.lockcount
      /\ y.panic \subseteq z.panic \cup {why}
  BY <1>1, NewPanic, ZenonT(40)
<1>3. why \in y.panic
  BY <1>1 DEF PanicUnless, SchedStates
<1> HIDE DEF y
<1>4. Sound(y)
  BY <1>1, <1>2, WellFormedIsShaped DEF Sound, PendingIsLocked
<1>5. \A t \in Tasks : LockOK(y, t, c[t])
  BY <1>2 DEF SchedOK, LockOK
<1>6. SchedOK(y, c) /\ Kept(z, y)
  BY <1>2, <1>4, <1>5 DEF SchedOK, Kept
<1> QED BY <1>3, <1>6 DEF y

(* An interrupt handler locks the task it interrupts, wakes a waiting task *)
(* or none, and unlocks.                                                   *)
LEMMA SchedInterrupts ==
  ASSUME NEW z, NEW c, SchedOK(z, c), NEW y1, NEW y2,
         y1 = sched_lock(z), NEW x \in Tasks,
         \/ y2 = y1
         \/ y2 = up_unblock_task(y1, x) /\ z.task_state[x] \in MqStates
  PROVE  LET y == sched_unlock(y2)
         IN  /\ SchedOK(y, c)
             /\ y2 = y1 => Kept(z, y)
             /\ y2 = up_unblock_task(y1, x) /\ z.task_state[x] \in MqStates => Leaves(z, y, x)
             /\ y.panic = z.panic
<1> DEFINE y == sched_unlock(y2)
           r == Running(z)
<1>1. Sound(z) /\ r \in Tasks /\ z.lockcount[r] \in {0, 1}
  BY RunningOrWaiting DEF SchedOK, LockOK
<1>2. /\ Sound(y1) /\ y1.panic = z.panic /\ y1.task_state = z.task_state /\ Running(y1) = r
      /\ y1.lockcount[r] = z.lockcount[r] + 1
      /\ \A t \in Tasks \ {r} : y1.lockcount[t] = z.lockcount[t]
  BY <1>1, LockFacts
<1>3. /\ Sound(y2) /\ y2.panic = z.panic /\ Running(y2) = r /\ y2.lockcount = y1.lockcount
      /\ y2 = up_unblock_task(y1, x) /\ z.task_state[x] \in MqStates => Leaves(z, y2, x)
  <2>1. CASE y2 = y1 /\ ~(y2 = up_unblock_task(y1, x) /\ z.task_state[x] \in MqStates)
    BY <2>1, <1>2
  <2>2. CASE y2 = up_unblock_task(y1, x) /\ z.task_state[x] \in MqStates
    <3>1. y1.task_state[x] \in BlockedStates /\ x \in Tasks \ {Idle}
      BY <2>2, <1>1, <1>2, MqStatesBlocked, RunningOrWaiting
    <3>2. /\ Sound(y2) /\ SameTcbs(y2, y1) /\ SameRest(y2, y1) /\ OthersStay(y2, y1, x)
          /\ y2.task_state[x] \notin Unready
          /\ y1.lockcount[r] > 0 => Running(y2) = r
      BY <2>2, <3>1, <1>2, UnblockSound
    <3>3. Leaves(y1, y2, x)
      BY <2>2, <3>2, <1>2, StayKept, MqStatesBlocked DEF Leaves
    <3>4. Leaves(z, y2, x)
      BY <3>3, <1>2 DEF Leaves, OthersKept
    <3>5. y2.panic = z.panic /\ y2.lockcount = y1.lockcount
      BY <3>2, <1>2 DEF SameTcbs, SameRest
    <3> QED BY <3>2, <3>4, <3>5, <1>1, <1>2
  <2> QED BY <2>1, <2>2
<1>4. /\ Sound(y) /\ SameRest(y, y2) /\ UnreadyStay(y, y2)
      /\ y2.lockcount[r] > 1 => Running(y) = r
      /\ y.lockcount[r] = IF y2.lockcount[r] > 0 THEN y2.lockcount[r] - 1 ELSE 0
      /\ \A t \in Tasks \ {r} : y.lockcount[t] = y2.lockcount[t]
  BY <1>3, UnlockSound
<1>5. Kept(y2, y)
  BY <1>4, StayKept
<1> HIDE DEF y
<1>6. y.panic = z.panic /\ \A t \in Tasks : y.lockcount[t] = z.lockcount[t]
  <2>1. y.panic = z.panic
    BY <1>3, <1>4 DEF SameRest
  <2>2. ASSUME NEW t \in Tasks PROVE y.lockcount[t] = z.lockcount[t]
    <3>1. CASE t = r
      BY <3>1, <1>1, <1>2, <1>3, <1>4
    <3>2. CASE t # r
      BY <3>2, <1>2, <1>3, <1>4
    <3> QED BY <3>1, <3>2
  <2> QED BY <2>1, <2>2
<1>7. ASSUME NEW t \in Tasks PROVE LockOK(y, t, c[t])
  <2>1. LockOK(z, t, c[t])
    BY DEF SchedOK
  <2>2. ASSUME c[t].at \in Inside PROVE Running(y) = t
    <3>1. r = t /\ z.lockcount[r] = 1
      BY <2>1, <2>2 DEF LockOK
    <3> QED BY <3>1, <1>2, <1>3, <1>4
  <2> HIDE DEF r
  <2> QED BY <2>1, <2>2, <1>6 DEF LockOK
<1>8. SchedOK(y, c)
  BY <1>4, <1>6, <1>7 DEF SchedOK
<1>9. y2 = y1 => Kept(z, y)
  BY <1>2, <1>5 DEF Kept
<1>10. y2 = up_unblock_task(y1, x) /\ z.task_state[x] \in MqStates => Leaves(z, y, x)
  BY <1>3, <1>5 DEF Leaves, Kept, OthersKept, MqStates
<1> QED BY <1>6, <1>8, <1>9, <1>10 DEF y

-----------------------------------------------------------------------------
(* The parts of the invariant, for whole steps.                            *)

(* A step leaves task x, its call and its waiting alone.                   *)
Untouched(x) ==
  /\ call'[x] = call[x] /\ msgwaitq'[x] = msgwaitq[x] /\ pterrno'[x] = pterrno[x]
  /\ \A st \in MqStates : s'.task_state[x] = st <=> s.task_state[x] = st

(* A step changes no call and no errno but those of task t.                *)
Only(t) ==
  /\ call' \in [Tasks -> MqCalls] /\ pterrno' \in [Tasks -> Errnos]
  /\ \A x \in Tasks \ {t} : call'[x] = call[x] /\ pterrno'[x] = pterrno[x]

(* The types and the facts about a task that CallsInv holds.               *)
LEMMA CallsFacts ==
  ASSUME MqInv
  PROVE  /\ SchedOK(s, call)
         /\ call \in [Tasks -> MqCalls] /\ pterrno \in [Tasks -> Errnos]
         /\ msgwaitq \in [Tasks -> Queues \cup {None}]
         /\ msglist \in [Queues -> Seq(Messages)]
         /\ \A t \in Tasks : /\ call[t] \in MqCalls /\ pterrno[t] \in Errnos
                             /\ CallOK(t, call[t])
                             /\ WaitOK(s, t, call[t], msgwaitq[t], pterrno[t])
BY DEF MqInv, CallsInv, FillInv, SchedOK

(* A task that runs in a call.                                             *)
LEMMA RunsFacts ==
  ASSUME MqInv, NEW t \in Tasks, Runs(t)
  PROVE  /\ ~isr /\ s.panic = {} /\ Running(s) = t
         /\ s.task_state[t] \notin MqStates /\ msgwaitq[t] = None
<1>1. Running(s) = t /\ Sound(s) /\ WaitOK(s, t, call[t], msgwaitq[t], pterrno[t])
  BY DEF Runs, MqInv, CallsInv
<1>2. s.task_state[t] \notin MqStates
  BY <1>1, RunningOrWaiting
<1> QED BY <1>1, <1>2 DEF Runs, WaitOK

(* A task that begins a call is not the idle task.                         *)
LEMMA MakesFacts ==
  ASSUME NEW t \in Tasks, NEW c, Makes(t, c)
  PROVE  t \in Tasks \ {Idle} /\ Runs(t) /\ call[t].at = "user" /\ c \in Workload[t]
BY CallersAssumption DEF Makes, CallAt

(* The same for a task in a call.                                          *)
LEMMA CallAtFacts ==
  ASSUME MqInv, NEW t \in Tasks, NEW at, at # "user", CallAt(t, at)
  PROVE  t \in Tasks \ {Idle} /\ Runs(t) /\ call[t].at = at
BY CallsFacts DEF CallAt, CallOK, Sendings

(* CallsInv, if every task is left alone or is right afterwards.           *)
LEMMA CallsPart ==
  ASSUME MqInv, SchedOK(s', call'), call' \in [Tasks -> MqCalls], pterrno' \in [Tasks -> Errnos],
         msgwaitq' \in [Tasks -> Queues \cup {None}],
         \A x \in Tasks : \/ Untouched(x)
                          \/ /\ CallOK(x, call'[x])
                             /\ WaitOK(s', x, call'[x], msgwaitq'[x], pterrno'[x])
  PROVE  CallsInv'
<1>1. ASSUME NEW x \in Tasks
      PROVE  CallOK(x, call'[x]) /\ WaitOK(s', x, call'[x], msgwaitq'[x], pterrno'[x])
  <2>1. CallOK(x, call[x]) /\ WaitOK(s, x, call[x], msgwaitq[x], pterrno[x])
    BY CallsFacts
  <2>2. CASE Untouched(x)
    <3>1. CallOK(x, call'[x])
      BY <2>1, <2>2 DEF Untouched
    <3>2. WaitOK(s', x, call'[x], msgwaitq'[x], pterrno'[x])
      BY <2>1, <2>2 DEF Untouched, WaitOK, MqStates
    <3> QED BY <3>1, <3>2
  <2> QED BY <2>2
<1>2. Sound(s') /\ s'.panic \subseteq {"OUTOFMESSAGES", "MQNOTFULLCOUNT"}
      /\ \A x \in Tasks : LockOK(s', x, call'[x])
  BY DEF SchedOK
<1> QED BY <1>1, <1>2 DEF CallsInv

(* Calls may give their watchdogs up.                                      *)
LEMMA OwnedKept ==
  ASSUME NEW c, NEW f, Owned(c, f), NEW d, NEW h, h.g_wdfreelist = f.g_wdfreelist,
         \A x \in Tasks : d[x].wdog = c[x].wdog \/ d[x].wdog = None
  PROVE  Owned(d, h)
<1>1. None \notin Wdogs
  BY MqAssumption
<1> QED BY <1>1 DEF Owned

(* TimersInv, when a step leaves the watchdogs alone.                      *)
LEMMA TimersSame ==
  ASSUME MqInv, UNCHANGED <<g, parm, isr>>,
         \A x \in Tasks : call'[x].wdog = call[x].wdog \/ call'[x].wdog = None
  PROVE  TimersInv'
<1>1. Owned(call, g)
  BY DEF MqInv, TimersInv
<1>2. Owned(call', g')
  BY <1>1, OwnedKept
<1> QED BY <1>2 DEF MqInv, TimersInv

(* The wakeups of one queue, when as many come as before or more.          *)
LEMMA ComingSets ==
  ASSUME MqInv, msglist' \in [Queues -> Seq(Messages)], NEW q \in Queues
  PROVE  /\ Len(msglist[q]) \in Nat /\ Len(msglist'[q]) \in Nat /\ MaxMsgs \in Nat
         /\ ReceiversComing(q) \in SUBSET Tasks /\ ReceiversComing(q)' \in SUBSET Tasks
         /\ SendersComing(q) \in SUBSET Tasks /\ SendersComing(q)' \in SUBSET Tasks
         /\ Cardinality(ReceiversComing(q)) \in Nat /\ Cardinality(ReceiversComing(q)') \in Nat
         /\ Cardinality(SendersComing(q)) \in Nat /\ Cardinality(SendersComing(q)') \in Nat
<1>1. Len(msglist[q]) \in Nat /\ Len(msglist'[q]) \in Nat /\ MaxMsgs \in Nat
  BY CallsFacts, LenProperties, MqAssumption
<1>2. /\ ReceiversComing(q) \in SUBSET Tasks /\ ReceiversComing(q)' \in SUBSET Tasks
      /\ SendersComing(q) \in SUBSET Tasks /\ SendersComing(q)' \in SUBSET Tasks
  BY DEF ReceiversComing, SendersComing
<1> QED BY <1>1, <1>2, TaskSets

(* The wakeups of receivers, from how the messages and the receivers that  *)
(* come change in number.                                                  *)
LEMMA ReceiversPart ==
  ASSUME MqInv, msglist' \in [Queues -> Seq(Messages)], NEW q \in Queues,
         nwaitnotempty'[q] > 0 =>
           /\ nwaitnotempty[q] > 0
           /\ Len(msglist'[q]) - Len(msglist[q])
                <= Cardinality(ReceiversComing(q)') - Cardinality(ReceiversComing(q))
  PROVE  ReceiversWoken(q)'
<1>1. nwaitnotempty[q] > 0 => Len(msglist[q]) <= Cardinality(ReceiversComing(q))
  BY DEF MqInv, WakeupsInv, ReceiversWoken
<1>2. nwaitnotempty'[q] > 0 => Len(msglist'[q]) <= Cardinality(ReceiversComing(q)')
  BY <1>1, ComingSets
<1> QED BY <1>2 DEF ReceiversWoken

(* The same for senders and free places.                                   *)
LEMMA SendersPart ==
  ASSUME MqInv, msglist' \in [Queues -> Seq(Messages)], NEW q \in Queues,
         nwaitnotfull'[q] > 0 /\ s'.panic = {} =>
           /\ nwaitnotfull[q] > 0 /\ s.panic = {}
           /\ Len(msglist[q]) - Len(msglist'[q])
                <= Cardinality(SendersComing(q)') - Cardinality(SendersComing(q))
  PROVE  SendersWoken(q)'
<1>1. nwaitnotfull[q] > 0 /\ s.panic = {} =>
        MaxMsgs - Len(msglist[q]) <= Cardinality(SendersComing(q))
  BY DEF MqInv, WakeupsInv, SendersWoken
<1>2. nwaitnotfull'[q] > 0 /\ s'.panic = {} =>
        MaxMsgs - Len(msglist'[q]) <= Cardinality(SendersComing(q)')
  BY <1>1, ComingSets, SMTT(30)
<1> QED BY <1>2 DEF SendersWoken

(* No task stops coming.                                                   *)
LEMMA ReceiversStay ==
  ASSUME MqInv, msglist' \in [Queues -> Seq(Messages)], NEW q \in Queues,
         nwaitnotempty'[q] > 0 => nwaitnotempty[q] > 0, Len(msglist'[q]) = Len(msglist[q]),
         \A x \in Tasks : ReceiverComes(call[x], msgwaitq[x], pterrno[x], q)
                             => ReceiverComes(call'[x], msgwaitq'[x], pterrno'[x], q)
  PROVE  ReceiversWoken(q)'
<1>1. ReceiversComing(q) \subseteq ReceiversComing(q)'
  BY DEF ReceiversComing
<1>2. Cardinality(ReceiversComing(q)) <= Cardinality(ReceiversComing(q)')
  BY <1>1, ComingSets, CardGrows
<1>3. Len(msglist'[q]) - Len(msglist[q])
        <= Cardinality(ReceiversComing(q)') - Cardinality(ReceiversComing(q))
  BY <1>2, ComingSets
<1> QED BY <1>3, ReceiversPart

(* The same for senders; there may be more messages.                       *)
LEMMA SendersStay ==
  ASSUME MqInv, s'.panic = {} => s.panic = {}, msglist' \in [Queues -> Seq(Messages)], NEW q \in Queues,
         nwaitnotfull'[q] > 0 => nwaitnotfull[q] > 0, Len(msglist'[q]) >= Len(msglist[q]),
         \A x \in Tasks : SenderComes(call[x], msgwaitq[x], pterrno[x], q)
                             => SenderComes(call'[x], msgwaitq'[x], pterrno'[x], q)
  PROVE  SendersWoken(q)'
<1>1. SendersComing(q) \subseteq SendersComing(q)'
  BY DEF SendersComing
<1>2. Cardinality(SendersComing(q)) <= Cardinality(SendersComing(q)')
  BY <1>1, ComingSets, CardGrows
<1>3. Len(msglist[q]) - Len(msglist'[q])
        <= Cardinality(SendersComing(q)') - Cardinality(SendersComing(q))
  BY <1>2, ComingSets
<1> QED BY <1>3, SendersPart

(* A call that goes from r to n finds room, or had found it before.        *)
FillsOn(r, n) ==
  /\ Roomy(n) => (Roomy(r) /\ n.q = r.q) \/ Len(msglist[n.q]) < MaxMsgs
  /\ \A q \in Queues : Fills(n, q) => Fills(r, q) \/ Len(msglist[q]) < MaxMsgs

(* A call that is not about to send needs none.                            *)
LEMMA NotFilling ==
  ASSUME NEW r, NEW n, n = r \/ n.at \notin {"alloc", "heap", "dosend"}
  PROVE  FillsOn(r, n)
BY DEF FillsOn, Roomy, Fills

(* One that finds room has it; one that had found room keeps what it knew. *)
LEMMA FindsRoom ==
  ASSUME NEW r, NEW n, n.at = "alloc", Len(msglist[n.q]) < MaxMsgs
  PROVE  FillsOn(r, n)
BY DEF FillsOn, Roomy, Fills

LEMMA StillFilling ==
  ASSUME NEW r, NEW n, n.q = r.q, r.at \in {"alloc", "heap", "dosend"}, Roomy(n) => Roomy(r)
  PROVE  FillsOn(r, n)
BY DEF FillsOn, Fills

(* The sizes that FillInv compares.                                        *)
LEMMA FillTypes ==
  ASSUME CallsInv, FillInv, NEW q \in Queues
  PROVE  /\ Cardinality(Own(msglist[q])) \in Nat /\ Len(msglist[q]) \in Nat
         /\ Cardinality(Own(msglist[q])) <= Len(msglist[q])
         /\ Filling(q) \in SUBSET SendingTasks /\ SendingTasks \in SUBSET Tasks
         /\ Cardinality(Filling(q)) \in Nat /\ Cardinality(SendingTasks) \in Nat
         /\ Cardinality(Filling(q)) <= Cardinality(SendingTasks)
         /\ MaxMsgs \in Nat
<1>1. /\ Cardinality(Own(msglist[q])) \in Nat /\ Len(msglist[q]) \in Nat
      /\ Cardinality(Own(msglist[q])) <= Len(msglist[q])
  BY OwnSize DEF FillInv
<1>2. Filling(q) \in SUBSET SendingTasks /\ SendingTasks \in SUBSET Tasks
  BY DEF Filling, Fills, CallsInv, CallOK, Sendings, SendingTasks
<1>3. Filling(q) \in SUBSET Tasks
  BY <1>2
<1>4. Cardinality(Filling(q)) <= Cardinality(SendingTasks)
  BY <1>2, <1>3, CardGrows
<1> QED BY <1>1, <1>2, <1>3, <1>4, TaskSets, MqAssumption

(* FillInv, when the tasks have no message more and every task that is     *)
(* going to add one finds room or had found it.                            *)
LEMMA FillKept ==
  ASSUME MqInv, msglist' \in [Queues -> Seq(Messages)], CallsInv',
         \A q \in Queues : Cardinality(Own(msglist'[q])) <= Cardinality(Own(msglist[q])),
         \A x \in Tasks : FillsOn(call[x], call'[x])
  PROVE  FillInv'
<1>1. \A q \in Queues : Cardinality(Own(msglist'[q])) \in Nat
  BY OwnSize
<1>2. ASSUME NEW q \in Queues
      PROVE  /\ Cardinality(Own(msglist[q])) \in Nat /\ Len(msglist[q]) \in Nat
             /\ Cardinality(Own(msglist[q])) <= Len(msglist[q])
             /\ Cardinality(Filling(q)) \in Nat /\ Cardinality(SendingTasks) \in Nat
             /\ Filling(q) \in SUBSET Tasks /\ MaxMsgs \in Nat
             /\ Cardinality(Own(msglist[q])) + Cardinality(Filling(q))
                   < MaxMsgs + Cardinality(SendingTasks)
  BY FillTypes, Zenon DEF MqInv, FillInv, Filling
<1>3. ASSUME NEW q \in Queues
      PROVE  /\ Filling(q)' \in SUBSET Tasks /\ Cardinality(Filling(q)') \in Nat
             /\ Cardinality(Filling(q)') <= Cardinality(SendingTasks)
  <2>1. Filling(q)' \in SUBSET SendingTasks /\ SendingTasks \in SUBSET Tasks
    BY DEF Filling, Fills, CallsInv, CallOK, Sendings, SendingTasks
  <2>2. Filling(q)' \in SUBSET Tasks
    BY <2>1
  <2> QED BY <2>1, <2>2, CardGrows, TaskSets
<1>4. ASSUME NEW t \in Tasks, Roomy(call'[t])
      PROVE  Cardinality(Own(msglist'[call'[t].q])) < MaxMsgs
  <2> DEFINE q == call'[t].q
  <2>1. q \in Queues
    BY <1>4 DEF Roomy, CallsInv, CallOK, Sendings
  <2>2. FillsOn(call[t], call'[t])
    OBVIOUS
  <2>3. Cardinality(Own(msglist[q])) < MaxMsgs
    <3>1. CASE Roomy(call[t]) /\ q = call[t].q
      BY <3>1 DEF MqInv, FillInv
    <3>2. CASE Len(msglist[q]) < MaxMsgs
      BY <3>2, <2>1, <1>2
    <3> QED BY <2>2, <3>1, <3>2, <1>4 DEF FillsOn
  <2> HIDE DEF q
  <2>4. Cardinality(Own(msglist'[q])) < MaxMsgs
    BY <2>1, <2>3, <1>1, <1>2
  <2> QED BY <2>4 DEF q
<1>5. ASSUME NEW q \in Queues
      PROVE  Cardinality(Own(msglist'[q])) + Cardinality(Filling(q)')
               < MaxMsgs + Cardinality(SendingTasks)
  <2>1. Cardinality(Own(msglist'[q])) <= Cardinality(Own(msglist[q]))
    OBVIOUS
  <2>2. CASE Len(msglist[q]) < MaxMsgs
    BY <2>1, <2>2, <1>1, <1>2, <1>3
  <2>3. CASE ~(Len(msglist[q]) < MaxMsgs)
    <3>1. Filling(q)' \subseteq Filling(q)
      BY <2>3 DEF Filling, FillsOn
    <3>2. Cardinality(Filling(q)') <= Cardinality(Filling(q))
      BY <3>1, <1>2, <1>3, CardGrows
    <3> QED BY <2>1, <3>2, <1>1, <1>2, <1>3
  <2> QED BY <2>2, <2>3
<1> QED BY <1>4, <1>5 DEF FillInv

(* The same for a step that leaves the messages alone.                     *)
LEMMA FillSame ==
  ASSUME MqInv, msglist' = msglist, CallsInv', \A x \in Tasks : FillsOn(call[x], call'[x])
  PROVE  FillInv'
<1>1. msglist \in [Queues -> Seq(Messages)]
  BY CallsFacts
<1>2. \A q \in Queues : Cardinality(Own(msglist[q])) \in Nat
  BY <1>1, OwnSize
<1>3. \A q \in Queues : Cardinality(Own(msglist'[q])) <= Cardinality(Own(msglist[q]))
  BY <1>2
<1> QED BY <1>1, <1>3, FillKept

(* A step of task t that leaves the queues alone.                          *)
LEMMA OneTask ==
  ASSUME MqInv, NEW t \in Tasks, Runs(t), Only(t), UNCHANGED queuevars,
         SchedOK(s', call'), Kept(s, s'), CallOK(t, call'[t]), TimersInv',
         \A q \in Queues : ReceiverComes(call[t], None, pterrno[t], q)
                             => \/ ReceiverComes(call'[t], None, pterrno'[t], q)
                                \/ nwaitnotempty[q] = 0,
         \A q \in Queues : SenderComes(call[t], None, pterrno[t], q)
                             => \/ SenderComes(call'[t], None, pterrno'[t], q)
                                \/ nwaitnotfull[q] = 0 \/ s'.panic # {},
         FillsOn(call[t], call'[t])
  PROVE  MqInv'
<1>1. s.panic = {} /\ s.task_state[t] \notin MqStates /\ msgwaitq[t] = None
  BY RunsFacts
<1>2. /\ call' \in [Tasks -> MqCalls] /\ pterrno' \in [Tasks -> Errnos]
      /\ msglist' = msglist /\ nwaitnotempty' = nwaitnotempty /\ nwaitnotfull' = nwaitnotfull
      /\ msgwaitq' = msgwaitq
      /\ \A x \in Tasks \ {t} : call'[x] = call[x] /\ pterrno'[x] = pterrno[x]
  BY DEF Only, queuevars
<1>3. CallsInv'
  <2>1. ASSUME NEW x \in Tasks
        PROVE  \/ Untouched(x)
               \/ /\ CallOK(x, call'[x])
                  /\ WaitOK(s', x, call'[x], msgwaitq'[x], pterrno'[x])
    <3>1. CASE x # t
      BY <3>1, <1>2 DEF Untouched, Kept
    <3>2. CASE x = t
      <4>1. s'.task_state[t] \notin MqStates /\ msgwaitq'[t] = None
        BY <1>1, <1>2 DEF Kept
      <4> QED BY <3>2, <4>1 DEF WaitOK, MqStates
    <3> QED BY <3>1, <3>2
  <2>2. msgwaitq' \in [Tasks -> Queues \cup {None}]
    BY <1>2, CallsFacts
  <2> QED BY <2>1, <2>2, <1>2, CallsPart
<1>4. CountsInv'
  <2>1. ASSUME NEW st \in MqStates, NEW n, Counted(s, msgwaitq, n, st)
        PROVE  Counted(s', msgwaitq, n, st)
    <3>1. \A x \in Tasks : s'.task_state[x] = st <=> s.task_state[x] = st
      BY DEF Kept
    <3> QED BY <2>1, <3>1, CountsStay
  <2> QED BY <2>1, <1>2 DEF MqInv, CountsInv, MqStates
<1>5. ASSUME NEW q \in Queues PROVE ReceiversWoken(q)' /\ SendersWoken(q)'
  <2>1. msglist' \in [Queues -> Seq(Messages)] /\ Len(msglist'[q]) >= Len(msglist[q])
    BY <1>2, CallsFacts, LenProperties
  <2>2. ReceiversWoken(q)'
    <3>1. CASE nwaitnotempty[q] = 0
      BY <3>1, <1>2 DEF ReceiversWoken
    <3>2. CASE nwaitnotempty[q] # 0
      <4>1. \A x \in Tasks : ReceiverComes(call[x], msgwaitq[x], pterrno[x], q)
                                => ReceiverComes(call'[x], msgwaitq'[x], pterrno'[x], q)
        BY <3>2, <1>1, <1>2
      <4> QED BY <4>1, <2>1, <1>2, ReceiversStay
    <3> QED BY <3>1, <3>2
  <2>3. CASE nwaitnotfull[q] = 0 \/ s'.panic # {}
    BY <2>2, <2>3, <1>2 DEF SendersWoken
  <2>4. CASE ~(nwaitnotfull[q] = 0 \/ s'.panic # {})
    <3>1. \A x \in Tasks : SenderComes(call[x], msgwaitq[x], pterrno[x], q)
                              => SenderComes(call'[x], msgwaitq'[x], pterrno'[x], q)
      BY <2>4, <1>1, <1>2
    <3> QED BY <3>1, <2>1, <2>2, <1>1, <1>2, SendersStay
  <2> QED BY <2>2, <2>3, <2>4
<1>6. WakeupsInv'
  BY <1>5 DEF WakeupsInv
<1>7. FillInv'
  <2>1. \A x \in Tasks : FillsOn(call[x], call'[x])
    BY <1>2, NotFilling
  <2> QED BY <2>1, <1>2, <1>3, FillSame
<1> QED BY <1>3, <1>4, <1>6, <1>7 DEF MqInv

(* A step changes the call of t by an EXCEPT; its errno, or none.          *)
LEMMA SetsCall ==
  ASSUME MqInv, NEW t \in Tasks, NEW r \in MqCalls, call' = [call EXCEPT ![t] = r],
         pterrno' = pterrno \/ \E e \in Errnos : pterrno' = [pterrno EXCEPT ![t] = e]
  PROVE  Only(t) /\ call'[t] = r
<1>1. call \in [Tasks -> MqCalls] /\ pterrno \in [Tasks -> Errnos]
  BY CallsFacts
<1> QED BY <1>1 DEF Only

(* A call goes to another step.                                            *)
LEMMA GoesFacts ==
  ASSUME MqInv, NEW t \in Tasks, NEW at \in Steps, Goes(t, at),
         pterrno' = pterrno \/ \E e \in Errnos : pterrno' = [pterrno EXCEPT ![t] = e]
  PROVE  /\ Only(t) /\ call'[t].at = at /\ call'[t].q = call[t].q /\ call'[t].prio = call[t].prio
         /\ call'[t].msg = call[t].msg /\ call'[t].wdog = call[t].wdog
<1> DEFINE r == [call[t] EXCEPT !.at = at]
<1>1. call \in [Tasks -> MqCalls] /\ call[t] \in MqCalls
  BY CallsFacts
<1>2. r \in MqCalls /\ r.at = at /\ r.q = call[t].q /\ r.prio = call[t].prio
      /\ r.msg = call[t].msg /\ r.wdog = call[t].wdog
  BY <1>1 DEF MqCalls
<1>3. call' = [call EXCEPT ![t] = r]
  BY <1>1 DEF Goes
<1> HIDE DEF r
<1> QED BY <1>2, <1>3, SetsCall

(* A receiver of an empty queue blocks.                                    *)
LEMMA ReceiverBlocks ==
  ASSUME MqInv, NEW t \in Tasks, Runs(t), NEW q \in Queues, Only(t), BlockReceiver(t, q),
         SchedOK(s', call'), Enters(s, s', t, "WAIT_MQNOTEMPTY"),
         CallOK(t, call'[t]), TimersInv', msglist[q] = <<>>,
         call'[t].at = "waitreceive", call'[t].q = q,
         call[t].at \in {"user", "timedreceive", "waitreceive"},
         call[t].at = "waitreceive" => call[t].q = q
  PROVE  MqInv'
<1>1. s.panic = {} /\ s.task_state[t] \notin MqStates /\ msgwaitq[t] = None
  BY RunsFacts
<1>2. /\ msgwaitq \in [Tasks -> Queues \cup {None}] /\ pterrno \in [Tasks -> Errnos]
      /\ msglist \in [Queues -> Seq(Messages)]
  BY CallsFacts
<1>3. /\ call' \in [Tasks -> MqCalls] /\ pterrno' \in [Tasks -> Errnos]
      /\ \A x \in Tasks \ {t} : call'[x] = call[x] /\ pterrno'[x] = pterrno[x]
  BY DEF Only
<1>4. /\ msglist' = msglist /\ nwaitnotfull' = nwaitnotfull
      /\ nwaitnotempty' = [nwaitnotempty EXCEPT ![q] = @ + 1]
      /\ msgwaitq' \in [Tasks -> Queues \cup {None}] /\ msgwaitq'[t] = q
      /\ \A x \in Tasks \ {t} : msgwaitq'[x] = msgwaitq[x]
      /\ pterrno'[t] = "OK"
  BY <1>2 DEF BlockReceiver
<1>5. q # None
  BY MqAssumption
<1>6. /\ s'.task_state[t] = "WAIT_MQNOTEMPTY"
      /\ \A x \in Tasks \ {t} : \A st \in MqStates : s'.task_state[x] = st <=> s.task_state[x] = st
  BY DEF Enters, OthersKept
<1>7. CallsInv'
  <2>1. ASSUME NEW x \in Tasks
        PROVE  \/ Untouched(x)
               \/ /\ CallOK(x, call'[x])
                  /\ WaitOK(s', x, call'[x], msgwaitq'[x], pterrno'[x])
    <3>1. CASE x # t
      BY <3>1, <1>3, <1>4, <1>6 DEF Untouched
    <3>2. CASE x = t
      BY <3>2, <1>4, <1>5, <1>6 DEF WaitOK, MqStates
    <3> QED BY <3>1, <3>2
  <2> QED BY <2>1, <1>3, <1>4, CallsPart
<1>8. CountsInv'
  <2>1. Counted(s', msgwaitq', nwaitnotempty', "WAIT_MQNOTEMPTY")
    <3>1. /\ s.task_state[t] # "WAIT_MQNOTEMPTY"
          /\ \A x \in Tasks \ {t} :
               s'.task_state[x] = "WAIT_MQNOTEMPTY" <=> s.task_state[x] = "WAIT_MQNOTEMPTY"
      BY <1>1, <1>6 DEF MqStates
    <3>2. Counted(s, msgwaitq, nwaitnotempty, "WAIT_MQNOTEMPTY")
      BY DEF MqInv, CountsInv
    <3>3. /\ s'.task_state[t] = "WAIT_MQNOTEMPTY" /\ msgwaitq'[t] = q
          /\ \A x \in Tasks \ {t} : msgwaitq'[x] = msgwaitq[x]
      BY <1>4, <1>6
    <3>4. Counted(s', msgwaitq', [nwaitnotempty EXCEPT ![q] = @ + 1], "WAIT_MQNOTEMPTY")
      BY <3>1, <3>2, <3>3, CountsEnter
    <3> QED BY <3>4, <1>4
  <2>2. Counted(s', msgwaitq', nwaitnotfull', "WAIT_MQNOTFULL")
    <3>1. /\ \A x \in Tasks :
               s'.task_state[x] = "WAIT_MQNOTFULL" <=> s.task_state[x] = "WAIT_MQNOTFULL"
          /\ \A x \in Tasks : s.task_state[x] = "WAIT_MQNOTFULL" => msgwaitq'[x] = msgwaitq[x]
      BY <1>1, <1>4, <1>6 DEF MqStates
    <3>2. Counted(s, msgwaitq, nwaitnotfull, "WAIT_MQNOTFULL")
      BY DEF MqInv, CountsInv
    <3> QED BY <3>1, <3>2, <1>4, CountsStay
  <2> QED BY <2>1, <2>2 DEF CountsInv
<1>9. ASSUME NEW p \in Queues PROVE ReceiversWoken(p)' /\ SendersWoken(p)'
  <2>1. msglist' \in [Queues -> Seq(Messages)] /\ Len(msglist'[p]) >= Len(msglist[p])
    BY <1>2, <1>4, LenProperties
  <2>2. ReceiversWoken(p)'
    <3>1. CASE p = q
      <4>1. Len(msglist'[q]) = 0 /\ Cardinality(ReceiversComing(q)') \in Nat
        BY <2>1, <1>4, ComingSets
      <4> QED BY <3>1, <4>1 DEF ReceiversWoken
    <3>2. CASE p # q
      <4>1. \A x \in Tasks : ReceiverComes(call[x], msgwaitq[x], pterrno[x], p)
                              => ReceiverComes(call'[x], msgwaitq'[x], pterrno'[x], p)
        BY <3>2, <1>3, <1>4 DEF ReceiverComes
      <4>2. nwaitnotempty'[p] = nwaitnotempty[p]
        BY <3>2, <1>4 DEF MqInv, CountsInv, Counted
      <4> QED BY <4>1, <4>2, <2>1, <1>4, ReceiversStay
    <3> QED BY <3>1, <3>2
  <2>3. \A x \in Tasks : SenderComes(call[x], msgwaitq[x], pterrno[x], p)
                          => SenderComes(call'[x], msgwaitq'[x], pterrno'[x], p)
    BY <1>3, <1>4 DEF SenderComes
  <2>4. SendersWoken(p)'
    BY <2>1, <2>3, <1>1, <1>4, SendersStay
  <2> QED BY <2>2, <2>4
<1>10. WakeupsInv'
  BY <1>9 DEF WakeupsInv
<1>11. FillInv'
  <2>1. \A x \in Tasks : FillsOn(call[x], call'[x])
    BY <1>3, NotFilling
  <2> QED BY <2>1, <1>4, <1>7, FillSame
<1> QED BY <1>7, <1>8, <1>10, <1>11 DEF MqInv

(* A sender to a full queue blocks.                                        *)
LEMMA SenderBlocks ==
  ASSUME MqInv, NEW t \in Tasks, Runs(t), NEW q \in Queues, Only(t), BlockSender(t, q),
         SchedOK(s', call'), Enters(s, s', t, "WAIT_MQNOTFULL"),
         CallOK(t, call'[t]), TimersInv', nmsgs(q) >= MaxMsgs,
         call'[t].at = "waitsend", call'[t].q = q,
         call[t].at \in {"user", "timedsend", "waitsend"},
         call[t].at = "waitsend" => call[t].q = q
  PROVE  MqInv'
<1>1. s.panic = {} /\ s.task_state[t] \notin MqStates /\ msgwaitq[t] = None
  BY RunsFacts
<1>2. /\ msgwaitq \in [Tasks -> Queues \cup {None}] /\ pterrno \in [Tasks -> Errnos]
      /\ msglist \in [Queues -> Seq(Messages)]
  BY CallsFacts
<1>3. /\ call' \in [Tasks -> MqCalls] /\ pterrno' \in [Tasks -> Errnos]
      /\ \A x \in Tasks \ {t} : call'[x] = call[x] /\ pterrno'[x] = pterrno[x]
  BY DEF Only
<1>4. /\ msglist' = msglist /\ nwaitnotempty' = nwaitnotempty
      /\ nwaitnotfull' = [nwaitnotfull EXCEPT ![q] = @ + 1]
      /\ msgwaitq' \in [Tasks -> Queues \cup {None}] /\ msgwaitq'[t] = q
      /\ \A x \in Tasks \ {t} : msgwaitq'[x] = msgwaitq[x]
      /\ pterrno'[t] = "OK"
  BY <1>2 DEF BlockSender
<1>5. q # None
  BY MqAssumption
<1>6. /\ s'.task_state[t] = "WAIT_MQNOTFULL"
      /\ \A x \in Tasks \ {t} : \A st \in MqStates : s'.task_state[x] = st <=> s.task_state[x] = st
  BY DEF Enters, OthersKept
<1>7. CallsInv'
  <2>1. ASSUME NEW x \in Tasks
        PROVE  \/ Untouched(x)
               \/ /\ CallOK(x, call'[x])
                  /\ WaitOK(s', x, call'[x], msgwaitq'[x], pterrno'[x])
    <3>1. CASE x # t
      BY <3>1, <1>3, <1>4, <1>6 DEF Untouched
    <3>2. CASE x = t
      BY <3>2, <1>4, <1>5, <1>6 DEF WaitOK, MqStates
    <3> QED BY <3>1, <3>2
  <2> QED BY <2>1, <1>3, <1>4, CallsPart
<1>8. CountsInv'
  <2>1. Counted(s', msgwaitq', nwaitnotfull', "WAIT_MQNOTFULL")
    <3>1. /\ s.task_state[t] # "WAIT_MQNOTFULL"
          /\ \A x \in Tasks \ {t} :
               s'.task_state[x] = "WAIT_MQNOTFULL" <=> s.task_state[x] = "WAIT_MQNOTFULL"
      BY <1>1, <1>6 DEF MqStates
    <3>2. Counted(s, msgwaitq, nwaitnotfull, "WAIT_MQNOTFULL")
      BY DEF MqInv, CountsInv
    <3>3. /\ s'.task_state[t] = "WAIT_MQNOTFULL" /\ msgwaitq'[t] = q
          /\ \A x \in Tasks \ {t} : msgwaitq'[x] = msgwaitq[x]
      BY <1>4, <1>6
    <3>4. Counted(s', msgwaitq', [nwaitnotfull EXCEPT ![q] = @ + 1], "WAIT_MQNOTFULL")
      BY <3>1, <3>2, <3>3, CountsEnter
    <3> QED BY <3>4, <1>4
  <2>2. Counted(s', msgwaitq', nwaitnotempty', "WAIT_MQNOTEMPTY")
    <3>1. /\ \A x \in Tasks :
               s'.task_state[x] = "WAIT_MQNOTEMPTY" <=> s.task_state[x] = "WAIT_MQNOTEMPTY"
          /\ \A x \in Tasks : s.task_state[x] = "WAIT_MQNOTEMPTY" => msgwaitq'[x] = msgwaitq[x]
      BY <1>1, <1>4, <1>6 DEF MqStates
    <3>2. Counted(s, msgwaitq, nwaitnotempty, "WAIT_MQNOTEMPTY")
      BY DEF MqInv, CountsInv
    <3> QED BY <3>1, <3>2, <1>4, CountsStay
  <2> QED BY <2>1, <2>2 DEF CountsInv
<1>9. ASSUME NEW p \in Queues PROVE ReceiversWoken(p)' /\ SendersWoken(p)'
  <2>1. msglist' \in [Queues -> Seq(Messages)] /\ Len(msglist'[p]) >= Len(msglist[p])
    BY <1>2, <1>4, LenProperties
  <2>2. SendersWoken(p)'
    <3>1. CASE p = q
      <4>1. /\ Len(msglist'[q]) >= MaxMsgs /\ Len(msglist'[q]) \in Nat /\ MaxMsgs \in Nat
            /\ Cardinality(SendersComing(q)') \in Nat
        BY <2>1, <1>4, ComingSets DEF nmsgs
      <4>2. MaxMsgs - Len(msglist'[q]) <= Cardinality(SendersComing(q)')
        BY <4>1
      <4> QED BY <3>1, <4>2 DEF SendersWoken
    <3>2. CASE p # q
      <4>1. \A x \in Tasks : SenderComes(call[x], msgwaitq[x], pterrno[x], p)
                              => SenderComes(call'[x], msgwaitq'[x], pterrno'[x], p)
        BY <3>2, <1>3, <1>4 DEF SenderComes
      <4>2. nwaitnotfull'[p] = nwaitnotfull[p]
        BY <3>2, <1>4 DEF MqInv, CountsInv, Counted
      <4> QED BY <4>1, <4>2, <2>1, <1>1, <1>4, SendersStay
    <3> QED BY <3>1, <3>2
  <2>3. \A x \in Tasks : ReceiverComes(call[x], msgwaitq[x], pterrno[x], p)
                          => ReceiverComes(call'[x], msgwaitq'[x], pterrno'[x], p)
    BY <1>3, <1>4 DEF ReceiverComes
  <2>4. ReceiversWoken(p)'
    BY <2>1, <2>3, <1>4, ReceiversStay
  <2> QED BY <2>2, <2>4
<1>10. WakeupsInv'
  BY <1>9 DEF WakeupsInv
<1>11. FillInv'
  <2>1. \A x \in Tasks : FillsOn(call[x], call'[x])
    BY <1>3, NotFilling
  <2> QED BY <2>1, <1>4, <1>7, FillSame
<1> QED BY <1>7, <1>8, <1>10, <1>11 DEF MqInv

(* A receiver takes the first message, and is to wake a sender.            *)
LEMMA TakesFacts ==
  ASSUME MqInv, NEW t \in Tasks \ {Idle}, NEW q \in Queues, TakesMessage(t, q)
  PROVE  /\ Only(t) /\ call'[t].at = "doreceive" /\ call'[t].q = q /\ CallOK(t, call'[t])
         /\ call'[t].wdog = call[t].wdog /\ pterrno'[t] = pterrno[t]
<1> DEFINE r == [call[t] EXCEPT !.at = "doreceive", !.q = q, !.msg = Head(msglist[q])]
<1>1. call \in [Tasks -> MqCalls] /\ call[t] \in MqCalls /\ msglist[q] \in Seq(Messages)
  BY CallsFacts
<1>2. Head(msglist[q]) \in Messages
  BY <1>1, OwnTail DEF TakesMessage
<1>3. /\ r \in MqCalls /\ r.at = "doreceive" /\ r.q = q /\ r.msg = Head(msglist[q])
      /\ r.wdog = call[t].wdog
  BY <1>1, <1>2 DEF MqCalls, Steps, Inside
<1>4. call' = [call EXCEPT ![t] = r] /\ pterrno' = pterrno
  BY <1>1 DEF TakesMessage
<1> HIDE DEF r
<1>5. Only(t) /\ call'[t] = r
  BY <1>3, <1>4, SetsCall
<1>6. CallOK(t, r)
  BY <1>2, <1>3 DEF CallOK, Sendings
<1> QED BY <1>3, <1>4, <1>5, <1>6

(* Such a step keeps the invariant: one message and one receiver less, one *)
(* free place and one task that is to wake a sender more.                  *)
LEMMA TakesPart ==
  ASSUME MqInv, NEW t \in Tasks \ {Idle}, Runs(t), NEW q \in Queues, TakesMessage(t, q),
         SchedOK(s', call'), Kept(s, s'), TimersInv',
         call[t].at \in {"user", "timedreceive", "waitreceive"},
         call[t].at = "waitreceive" => call[t].q = q
  PROVE  MqInv'
<1>1. s.panic = {} /\ s.task_state[t] \notin MqStates /\ msgwaitq[t] = None /\ t \in Tasks
  BY RunsFacts
<1>2. /\ call' \in [Tasks -> MqCalls] /\ pterrno' \in [Tasks -> Errnos]
      /\ \A x \in Tasks \ {t} : call'[x] = call[x] /\ pterrno'[x] = pterrno[x]
      /\ call'[t].at = "doreceive" /\ call'[t].q = q /\ CallOK(t, call'[t])
  BY TakesFacts DEF Only
<1>3. /\ msgwaitq' = msgwaitq /\ nwaitnotempty' = nwaitnotempty /\ nwaitnotfull' = nwaitnotfull
      /\ msglist[q] # <<>> /\ msglist' = [msglist EXCEPT ![q] = Tail(msglist[q])]
      /\ pterrno' = pterrno
  BY DEF TakesMessage
<1>4. msglist \in [Queues -> Seq(Messages)] /\ msgwaitq \in [Tasks -> Queues \cup {None}]
  BY CallsFacts
<1>5. /\ msglist[q] \in Seq(Messages)
      /\ Tail(msglist[q]) \in Seq(Messages) /\ Len(Tail(msglist[q])) = Len(msglist[q]) - 1
      /\ Cardinality(Own(Tail(msglist[q]))) <= Cardinality(Own(msglist[q]))
  BY <1>3, <1>4, OwnTail
<1>6. /\ msglist' \in [Queues -> Seq(Messages)] /\ msglist'[q] = Tail(msglist[q])
      /\ \A p \in Queues \ {q} : msglist'[p] = msglist[p]
  BY <1>3, <1>4, <1>5
<1>7. CallsInv'
  <2>1. ASSUME NEW x \in Tasks
        PROVE  \/ Untouched(x)
               \/ /\ CallOK(x, call'[x])
                  /\ WaitOK(s', x, call'[x], msgwaitq'[x], pterrno'[x])
    <3>1. CASE x # t
      BY <3>1, <1>2, <1>3 DEF Untouched, Kept
    <3>2. CASE x = t
      <4>1. s'.task_state[t] \notin MqStates /\ msgwaitq'[t] = None
        BY <1>1, <1>3 DEF Kept
      <4> QED BY <3>2, <4>1, <1>2 DEF WaitOK, MqStates
    <3> QED BY <3>1, <3>2
  <2> QED BY <2>1, <1>2, <1>3, <1>4, CallsPart
<1>8. CountsInv'
  <2>1. ASSUME NEW st \in MqStates, NEW n, Counted(s, msgwaitq, n, st)
        PROVE  Counted(s', msgwaitq, n, st)
    <3>1. \A x \in Tasks : s'.task_state[x] = st <=> s.task_state[x] = st
      BY DEF Kept
    <3> QED BY <2>1, <3>1, CountsStay
  <2> QED BY <2>1, <1>3 DEF MqInv, CountsInv, MqStates
<1>9. ASSUME NEW p \in Queues PROVE ReceiversWoken(p)' /\ SendersWoken(p)'
  <2>1. /\ ReceiversComing(p) \in SUBSET Tasks /\ ReceiversComing(p)' \in SUBSET Tasks
        /\ SendersComing(p) \in SUBSET Tasks /\ SendersComing(p)' \in SUBSET Tasks
        /\ Cardinality(ReceiversComing(p)) \in Nat /\ Cardinality(ReceiversComing(p)') \in Nat
        /\ Cardinality(SendersComing(p)) \in Nat /\ Cardinality(SendersComing(p)') \in Nat
        /\ Len(msglist[p]) \in Nat /\ Len(msglist'[p]) \in Nat
    BY <1>6, ComingSets
  <2>2. /\ SendersComing(p) \subseteq SendersComing(p)' /\ t \notin SendersComing(p)
        /\ p = q => t \in SendersComing(p)'
    BY <1>1, <1>2, <1>3 DEF SendersComing, SenderComes
  <2>3. /\ ReceiversComing(p) \ {t} \subseteq ReceiversComing(p)'
        /\ p # q => t \notin ReceiversComing(p)
    BY <1>1, <1>2, <1>3 DEF ReceiversComing, ReceiverComes
  <2>4. CASE p = q
    <3>1. Cardinality(SendersComing(p)) + 1 <= Cardinality(SendersComing(p)')
      BY <2>1, <2>2, <2>4, CardGains
    <3>2. Cardinality(ReceiversComing(p)) - 1 <= Cardinality(ReceiversComing(p)')
      BY <2>1, <2>3, CardLoses
    <3>3. Len(msglist'[p]) = Len(msglist[p]) - 1
      BY <2>4, <1>5, <1>6
    <3>4. /\ Len(msglist'[p]) - Len(msglist[p])
               <= Cardinality(ReceiversComing(p)') - Cardinality(ReceiversComing(p))
          /\ Len(msglist[p]) - Len(msglist'[p])
               <= Cardinality(SendersComing(p)') - Cardinality(SendersComing(p))
      BY <3>1, <3>2, <3>3, <2>1
    <3>5. ReceiversWoken(p)'
      BY <3>4, <1>3, <1>6, ReceiversPart
    <3>6. SendersWoken(p)'
      BY <3>4, <1>1, <1>3, <1>6, SendersPart
    <3> QED BY <3>5, <3>6
  <2>5. CASE p # q
    <3>1. msglist'[p] = msglist[p]
      BY <2>5, <1>6
    <3>2. Cardinality(SendersComing(p)) <= Cardinality(SendersComing(p)')
      BY <2>1, <2>2, CardGrows
    <3>3. Cardinality(ReceiversComing(p)) <= Cardinality(ReceiversComing(p)')
      <4>1. ReceiversComing(p) \subseteq ReceiversComing(p)'
        BY <2>3, <2>5
      <4> QED BY <4>1, <2>1, CardGrows
    <3>4. /\ Len(msglist'[p]) - Len(msglist[p])
               <= Cardinality(ReceiversComing(p)') - Cardinality(ReceiversComing(p))
          /\ Len(msglist[p]) - Len(msglist'[p])
               <= Cardinality(SendersComing(p)') - Cardinality(SendersComing(p))
      BY <3>1, <3>2, <3>3, <2>1
    <3>5. ReceiversWoken(p)'
      BY <3>4, <1>3, <1>6, ReceiversPart
    <3>6. SendersWoken(p)'
      BY <3>4, <1>1, <1>3, <1>6, SendersPart
    <3> QED BY <3>5, <3>6
  <2> QED BY <2>4, <2>5
<1>10. WakeupsInv'
  BY <1>9 DEF WakeupsInv
<1>11. FillInv'
  <2>1. ASSUME NEW p \in Queues
        PROVE  /\ Cardinality(Own(msglist'[p])) \in Nat /\ Cardinality(Own(msglist[p])) \in Nat
               /\ Cardinality(Own(msglist'[p])) <= Cardinality(Own(msglist[p]))
    <3>1. msglist'[p] \in Seq(Messages) /\ msglist[p] \in Seq(Messages)
      BY <1>4, <1>6
    <3>2. Cardinality(Own(msglist'[p])) \in Nat /\ Cardinality(Own(msglist[p])) \in Nat
      BY <3>1, OwnSize
    <3>3. CASE p = q
      BY <3>2, <3>3, <1>5, <1>6
    <3>4. CASE p # q
      BY <3>2, <3>4, <1>6
    <3> QED BY <3>3, <3>4
  <2>2. \A x \in Tasks : FillsOn(call[x], call'[x])
    BY <1>2, NotFilling
  <2> QED BY <2>1, <2>2, <1>6, <1>7, FillKept
<1> QED BY <1>7, <1>8, <1>10, <1>11 DEF MqInv

(* mq_dosend adds the message that has its place, and is to wake a         *)
(* receiver.                                                               *)
LEMMA SendInsertsGood ==
  ASSUME MqInv, NEW t \in Tasks, SendInserts(t)
  PROVE  MqInv'
<1> DEFINE q == call[t].q
           m == call[t].msg
           r == [call[t] EXCEPT !.at = "wakereceiver", !.msg = None]
<1>1. t \in Tasks \ {Idle} /\ Runs(t) /\ call[t].at = "dosend" /\ Running(s) = t
      /\ s.panic = {} /\ s.task_state[t] \notin MqStates /\ msgwaitq[t] = None
  BY CallAtFacts, RunsFacts DEF SendInserts
<1>2. /\ SchedOK(s, call) /\ call \in [Tasks -> MqCalls] /\ call[t] \in MqCalls
      /\ pterrno \in [Tasks -> Errnos]
      /\ msgwaitq \in [Tasks -> Queues \cup {None}] /\ msglist \in [Queues -> Seq(Messages)]
      /\ q \in Queues /\ m \in Messages /\ m.from # Handler
  BY <1>1, CallsFacts DEF CallOK, Sendings
<1>3. /\ msglist' = InsertMessage(q, m) /\ call' = [call EXCEPT ![t] = r]
      /\ UNCHANGED <<s, g, nwaitnotempty, nwaitnotfull, msgwaitq, pterrno, parm, isr>>
  BY <1>2 DEF SendInserts
<1>4. r \in MqCalls /\ r.at = "wakereceiver" /\ r.q = q /\ r.wdog = call[t].wdog
  BY <1>2 DEF MqCalls, Steps, Inside
<1> HIDE DEF r
<1>5. /\ call' \in [Tasks -> MqCalls] /\ pterrno' \in [Tasks -> Errnos] /\ call'[t] = r
      /\ \A x \in Tasks \ {t} : call'[x] = call[x] /\ pterrno'[x] = pterrno[x]
  BY <1>3, <1>4, SetsCall DEF Only
<1>6. PICK k \in 1 .. Len(msglist[q]) + 1 : msglist' = [msglist EXCEPT ![q] = InsertAt(msglist[q], k, m)]
  <2>1. FillInv
    BY DEF MqInv
  <2> HIDE DEF q, m
  <2> QED BY <2>1, <1>2, <1>3, InsertSomewhere
<1> HIDE DEF q, m
<1>7. /\ msglist[q] \in Seq(Messages)
      /\ InsertAt(msglist[q], k, m) \in Seq(Messages)
      /\ Len(InsertAt(msglist[q], k, m)) = Len(msglist[q]) + 1
      /\ Cardinality(Own(InsertAt(msglist[q], k, m))) <= Cardinality(Own(msglist[q])) + 1
  BY <1>2, OwnInsert
<1>8. /\ msglist' \in [Queues -> Seq(Messages)] /\ msglist'[q] = InsertAt(msglist[q], k, m)
      /\ \A p \in Queues \ {q} : msglist'[p] = msglist[p]
  BY <1>2, <1>6, <1>7
<1>9. CallsInv'
  <2>1. SchedOK(s', call')
    <3>1. SchedOK(s, call')
      BY <1>1, <1>2, <1>4, <1>5, SchedSame DEF Inside
    <3> QED BY <3>1, <1>3
  <2>2. ASSUME NEW x \in Tasks
        PROVE  \/ Untouched(x)
               \/ /\ CallOK(x, call'[x])
                  /\ WaitOK(s', x, call'[x], msgwaitq'[x], pterrno'[x])
    <3>1. CASE x # t
      BY <3>1, <1>3, <1>5 DEF Untouched
    <3>2. CASE x = t
      <4>1. CallOK(t, r)
        BY <1>1, <1>2, <1>4 DEF CallOK, Sendings
      <4>2. WaitOK(s', t, r, msgwaitq'[t], pterrno'[t])
        BY <1>1, <1>3 DEF WaitOK, MqStates
      <4> QED BY <3>2, <4>1, <4>2, <1>5
    <3> QED BY <3>1, <3>2
  <2> QED BY <2>1, <2>2, <1>2, <1>3, <1>5, CallsPart
<1>10. CountsInv'
  BY <1>3 DEF MqInv, CountsInv, Counted, Waiters
<1>11. TimersInv'
  <2>1. \A x \in Tasks : call'[x].wdog = call[x].wdog
    BY <1>4, <1>5
  <2> QED BY <2>1, <1>3, TimersSame
<1>12. ASSUME NEW p \in Queues PROVE ReceiversWoken(p)' /\ SendersWoken(p)'
  <2>1. /\ ReceiversComing(p) \in SUBSET Tasks /\ ReceiversComing(p)' \in SUBSET Tasks
        /\ SendersComing(p) \in SUBSET Tasks /\ SendersComing(p)' \in SUBSET Tasks
        /\ Cardinality(ReceiversComing(p)) \in Nat /\ Cardinality(ReceiversComing(p)') \in Nat
        /\ Cardinality(SendersComing(p)) \in Nat /\ Cardinality(SendersComing(p)') \in Nat
        /\ Len(msglist[p]) \in Nat /\ Len(msglist'[p]) \in Nat
    BY <1>8, ComingSets
  <2>2. /\ ReceiversComing(p) \subseteq ReceiversComing(p)' /\ t \notin ReceiversComing(p)
        /\ p = q => t \in ReceiversComing(p)'
    BY <1>1, <1>3, <1>4, <1>5 DEF ReceiversComing, ReceiverComes
  <2>3. /\ SendersComing(p) \ {t} \subseteq SendersComing(p)'
        /\ p # q => t \notin SendersComing(p)
    BY <1>1, <1>3, <1>4, <1>5 DEF SendersComing, SenderComes, q
  <2>4. CASE p = q
    <3>1. Cardinality(ReceiversComing(p)) + 1 <= Cardinality(ReceiversComing(p)')
      BY <2>1, <2>2, <2>4, CardGains
    <3>2. Cardinality(SendersComing(p)) - 1 <= Cardinality(SendersComing(p)')
      BY <2>1, <2>3, CardLoses
    <3>3. Len(msglist'[p]) = Len(msglist[p]) + 1
      BY <2>4, <1>7, <1>8
    <3>4. /\ Len(msglist'[p]) - Len(msglist[p])
               <= Cardinality(ReceiversComing(p)') - Cardinality(ReceiversComing(p))
          /\ Len(msglist[p]) - Len(msglist'[p])
               <= Cardinality(SendersComing(p)') - Cardinality(SendersComing(p))
      BY <3>1, <3>2, <3>3, <2>1
    <3>5. ReceiversWoken(p)'
      BY <3>4, <1>3, <1>8, ReceiversPart
    <3>6. SendersWoken(p)'
      BY <3>4, <1>1, <1>3, <1>8, SendersPart
    <3> QED BY <3>5, <3>6
  <2>5. CASE p # q
    <3>1. msglist'[p] = msglist[p]
      BY <2>5, <1>8
    <3>2. Cardinality(ReceiversComing(p)) <= Cardinality(ReceiversComing(p)')
      BY <2>1, <2>2, CardGrows
    <3>3. Cardinality(SendersComing(p)) <= Cardinality(SendersComing(p)')
      <4>1. SendersComing(p) \subseteq SendersComing(p)'
        BY <2>3, <2>5
      <4> QED BY <4>1, <2>1, CardGrows
    <3>4. /\ Len(msglist'[p]) - Len(msglist[p])
               <= Cardinality(ReceiversComing(p)') - Cardinality(ReceiversComing(p))
          /\ Len(msglist[p]) - Len(msglist'[p])
               <= Cardinality(SendersComing(p)') - Cardinality(SendersComing(p))
      BY <3>1, <3>2, <3>3, <2>1
    <3>5. ReceiversWoken(p)'
      BY <3>4, <1>3, <1>8, ReceiversPart
    <3>6. SendersWoken(p)'
      BY <3>4, <1>1, <1>3, <1>8, SendersPart
    <3> QED BY <3>5, <3>6
  <2> QED BY <2>4, <2>5
<1>13. WakeupsInv'
  BY <1>12 DEF WakeupsInv
<1>14. FillInv'
  <2>1. \A x \in Tasks : call'[x].at \notin {"alloc", "dosend"}
    <3>1. \A x \in Tasks \ {t} : call[x].at \notin Inside
      BY <1>1, <1>2, NobodyInside
    <3> QED BY <3>1, <1>4, <1>5 DEF Inside
  <2>2. ASSUME NEW p \in Queues
        PROVE  Cardinality(Own(msglist'[p])) + Cardinality(Filling(p)')
                 < MaxMsgs + Cardinality(SendingTasks)
    <3>1. /\ Cardinality(Own(msglist[p])) \in Nat /\ Filling(p) \in SUBSET Tasks
          /\ Cardinality(Filling(p)) \in Nat /\ Cardinality(SendingTasks) \in Nat
          /\ MaxMsgs \in Nat
          /\ Cardinality(Own(msglist[p])) + Cardinality(Filling(p))
               < MaxMsgs + Cardinality(SendingTasks)
      BY FillTypes, Zenon DEF MqInv, FillInv, Filling
    <3>2. Filling(p)' \in SUBSET Tasks /\ Cardinality(Filling(p)') \in Nat
          /\ Cardinality(Own(msglist'[p])) \in Nat
      <4>1. Filling(p)' \in SUBSET Tasks
        BY DEF Filling
      <4>2. msglist'[p] \in Seq(Messages)
        BY <1>8
      <4> QED BY <4>1, <4>2, TaskSets, OwnSize
    <3>3. Filling(p)' \subseteq Filling(p) /\ t \notin Filling(p)'
      BY <1>4, <1>5 DEF Filling, Fills
    <3>4. CASE p = q
      <4>1. t \in Filling(p)
        BY <3>4, <1>1 DEF Filling, Fills, q
      <4>2. Cardinality(Filling(p)') + 1 <= Cardinality(Filling(p))
        BY <4>1, <3>1, <3>2, <3>3, CardGains
      <4>3. Cardinality(Own(msglist'[p])) <= Cardinality(Own(msglist[p])) + 1
        BY <3>4, <1>7, <1>8
      <4> QED BY <4>2, <4>3, <3>1, <3>2
    <3>5. CASE p # q
      <4>1. Cardinality(Filling(p)') <= Cardinality(Filling(p))
        BY <3>1, <3>2, <3>3, CardGrows
      <4>2. msglist'[p] = msglist[p]
        BY <3>5, <1>8
      <4> QED BY <4>1, <4>2, <3>1, <3>2
    <3> QED BY <3>4, <3>5
  <2> QED BY <2>1, <2>2, <1>8 DEF FillInv, Roomy
<1> QED BY <1>9, <1>10, <1>11, <1>13, <1>14 DEF MqInv

(* The first task that waits for the queue, if any does.                   *)
LEMMA FirstWaiter ==
  ASSUME MqInv, NEW q \in Queues, NEW z, z.list = s.list, NEW st \in MqStates, NEW l,
         l = tasklist(st)
  PROVE  \/ /\ Waiter(z, l, q) = None
            /\ \A x \in Tasks : ~(s.task_state[x] = st /\ msgwaitq[x] = q)
         \/ /\ Waiter(z, l, q) \in Tasks /\ Waiter(z, l, q) # None
            /\ s.task_state[Waiter(z, l, q)] = st /\ msgwaitq[Waiter(z, l, q)] = q
<1> DEFINE p == s.list[l]
           w == {i \in DOMAIN p : msgwaitq[p[i]] = q}
<1>1. s \in SchedStates /\ Consistent(s)
  BY DEF MqInv, CallsInv, Sound, WellFormed
<1>2. /\ l \in Lists
      /\ \A x \in TaskStates : tasklist(x) = l <=> x = st
  BY DEF tasklist, Lists, MqStates, TaskStates, BlockedStates, WaitStates
<1>3. p \in Seq(Tasks) /\ \A x \in Tasks : s.task_state[x] \in TaskStates
  BY <1>1, <1>2 DEF SchedStates
<1>4. Len(p) \in Nat /\ DOMAIN p = 1 .. Len(p) /\ \A i \in DOMAIN p : p[i] \in Tasks
  BY <1>3, LenProperties, ElementOfSeq
<1>5. \A x \in Tasks : (\E i \in DOMAIN p : p[i] = x) <=> s.task_state[x] = st
  BY <1>1, <1>2, <1>3 DEF Consistent, Linked
<1>6. Waiter(z, l, q) = IF w = {} THEN None ELSE p[Min(w)]
  BY DEF Waiter
<1> HIDE DEF p
<1>7. CASE w = {}
  <2>1. \A x \in Tasks : ~(s.task_state[x] = st /\ msgwaitq[x] = q)
    BY <1>5, <1>7
  <2> QED BY <2>1, <1>6, <1>7
<1>8. CASE w # {}
  <2>1. w \in SUBSET Nat
    BY <1>4
  <2>2. \A i \in w : i \in DOMAIN p /\ msgwaitq[p[i]] = q
    OBVIOUS
  <2> HIDE DEF w
  <2>3. \E n \in w : \A k \in w : n <= k
    BY <2>1, <1>8, LeastNatural
  <2>4. Min(w) \in w
    BY <2>3 DEF Min
  <2>5. p[Min(w)] \in Tasks /\ msgwaitq[p[Min(w)]] = q /\ s.task_state[p[Min(w)]] = st
    BY <2>2, <2>4, <1>4, <1>5
  <2>6. p[Min(w)] # None
    BY <2>5, MqAssumption
  <2> QED BY <2>5, <2>6, <1>6, <1>8
<1> QED BY <1>7, <1>8

(* What mq_dosend does to the waiting receivers: if the count is positive, *)
(* one is found and woken.                                                 *)
LEMMA WakesReceiver ==
  ASSUME MqInv, NEW q \in Queues, NEW z, z.list = s.list, ReceiverWoken(z, q)
  PROVE  \/ /\ nwaitnotempty[q] = 0 /\ WakeReceiver(z, q) = z
            /\ msgwaitq' = msgwaitq /\ nwaitnotempty' = nwaitnotempty
         \/ \E x \in Tasks :
              /\ s.task_state[x] = "WAIT_MQNOTEMPTY" /\ msgwaitq[x] = q /\ nwaitnotempty[q] > 0
              /\ WakeReceiver(z, q) = up_unblock_task(z, x)
              /\ msgwaitq' = [msgwaitq EXCEPT ![x] = None]
              /\ nwaitnotempty' = [nwaitnotempty EXCEPT ![q] = @ - 1]
<1> DEFINE x == Waiter(z, "g_waitingformqnotempty", q)
<1>1. /\ nwaitnotempty \in [Queues -> Nat] /\ msgwaitq \in [Tasks -> Queues \cup {None}]
      /\ Counted(s, msgwaitq, nwaitnotempty, "WAIT_MQNOTEMPTY")
  BY CallsFacts DEF MqInv, CountsInv, Counted
<1>2. /\ nwaitnotempty[q] \in Nat
      /\ nwaitnotempty[q] > 0
           <=> \E t \in Tasks : s.task_state[t] = "WAIT_MQNOTEMPTY" /\ msgwaitq[t] = q
  BY <1>1, SomebodyWaits
<1>3. \/ x = None /\ \A t \in Tasks : ~(s.task_state[t] = "WAIT_MQNOTEMPTY" /\ msgwaitq[t] = q)
      \/ x \in Tasks /\ x # None /\ s.task_state[x] = "WAIT_MQNOTEMPTY" /\ msgwaitq[x] = q
  <2>1. "WAIT_MQNOTEMPTY" \in MqStates /\ "g_waitingformqnotempty" = tasklist("WAIT_MQNOTEMPTY")
    BY DEF MqStates, tasklist
  <2> QED BY <2>1, FirstWaiter
<1>4. /\ WakeReceiver(z, q) = IF nwaitnotempty[q] <= 0 THEN z
                              ELSE IF x = None THEN PanicUnless(z, FALSE, "MQNONEMPTYCOUNT")
                              ELSE up_unblock_task(z, x)
      /\ msgwaitq' = [t \in Tasks |-> IF (nwaitnotempty[q] > 0 /\ x # None) /\ t = x
                                      THEN None ELSE msgwaitq[t]]
      /\ nwaitnotempty' = [nwaitnotempty EXCEPT ![q] =
                             IF nwaitnotempty[q] > 0 /\ x # None THEN @ - 1 ELSE @]
  BY DEF WakeReceiver, ReceiverWoken
<1> HIDE DEF x
<1>5. CASE nwaitnotempty[q] = 0
  BY <1>1, <1>4, <1>5
<1>6. CASE nwaitnotempty[q] > 0
  <2>1. x \in Tasks /\ x # None /\ s.task_state[x] = "WAIT_MQNOTEMPTY" /\ msgwaitq[x] = q
    BY <1>2, <1>3, <1>6
  <2>2. WakeReceiver(z, q) = up_unblock_task(z, x)
    BY <2>1, <1>2, <1>4, <1>6
  <2>3. msgwaitq' = [msgwaitq EXCEPT ![x] = None]
    BY <2>1, <1>1, <1>4, <1>6
  <2>4. nwaitnotempty' = [nwaitnotempty EXCEPT ![q] = @ - 1]
    BY <2>1, <1>4, <1>6
  <2> QED BY <2>1, <2>2, <2>3, <2>4, <1>6
<1> QED BY <1>2, <1>5, <1>6

(* A task that waits for q is woken; others are not.                       *)
LEMMA LeavesCounted ==
  ASSUME NEW z, NEW m, NEW y, NEW k, NEW x \in Tasks, NEW q \in Queues, Leaves(z, y, x), m[x] = q,
         \A u \in Tasks \ {x} : k[u] = m[u], NEW st \in MqStates, NEW n, Counted(z, m, n, st),
         z.task_state[x] = st
  PROVE  Counted(y, k, [n EXCEPT ![q] = @ - 1], st)
<1>1. /\ y.task_state[x] # st
      /\ \A u \in Tasks \ {x} : y.task_state[u] = st <=> z.task_state[u] = st
  BY DEF Leaves, OthersKept
<1> QED BY <1>1, CountsLeave, SMTT(30)

(* The tasks that wait in the other state are not woken.                   *)
LEMMA OthersCounted ==
  ASSUME NEW z, NEW m, NEW y, NEW k, NEW x \in Tasks, Leaves(z, y, x),
         \A u \in Tasks \ {x} : k[u] = m[u], NEW st \in MqStates, NEW n, Counted(z, m, n, st),
         z.task_state[x] # st
  PROVE  Counted(y, k, n, st)
<1>1. \A u \in Tasks : y.task_state[u] = st <=> z.task_state[u] = st
  BY DEF Leaves, OthersKept
<1>2. \A u \in Tasks : z.task_state[u] = st => k[u] = m[u]
  OBVIOUS
<1> QED BY <1>1, <1>2, CountsStay

(* The counts when a waiting task is woken.                                *)
LEMMA CountsWoken ==
  ASSUME MqInv, NEW x \in Tasks, NEW q \in Queues, Leaves(s, s', x), msgwaitq[x] = q,
         \A y \in Tasks \ {x} : msgwaitq'[y] = msgwaitq[y]
  PROVE  /\ s.task_state[x] = "WAIT_MQNOTEMPTY" =>
              /\ Counted(s', msgwaitq', [nwaitnotempty EXCEPT ![q] = @ - 1], "WAIT_MQNOTEMPTY")
              /\ Counted(s', msgwaitq', nwaitnotfull, "WAIT_MQNOTFULL")
         /\ s.task_state[x] = "WAIT_MQNOTFULL" =>
              /\ Counted(s', msgwaitq', [nwaitnotfull EXCEPT ![q] = @ - 1], "WAIT_MQNOTFULL")
              /\ Counted(s', msgwaitq', nwaitnotempty, "WAIT_MQNOTEMPTY")
<1>2. /\ Counted(s, msgwaitq, nwaitnotempty, "WAIT_MQNOTEMPTY") /\ "WAIT_MQNOTEMPTY" \in MqStates
      /\ Counted(s, msgwaitq, nwaitnotfull, "WAIT_MQNOTFULL") /\ "WAIT_MQNOTFULL" \in MqStates
  BY DEF MqInv, CountsInv, MqStates
<1>3. CASE s.task_state[x] = "WAIT_MQNOTEMPTY"
  <2>1. Counted(s', msgwaitq', [nwaitnotempty EXCEPT ![q] = @ - 1], "WAIT_MQNOTEMPTY")
    BY <1>2, <1>3, LeavesCounted
  <2>2. Counted(s', msgwaitq', nwaitnotfull, "WAIT_MQNOTFULL")
    BY <1>2, <1>3, OthersCounted
  <2> QED BY <2>1, <2>2, <1>3
<1>4. CASE s.task_state[x] = "WAIT_MQNOTFULL"
  <2>1. Counted(s', msgwaitq', [nwaitnotfull EXCEPT ![q] = @ - 1], "WAIT_MQNOTFULL")
    BY <1>2, <1>4, LeavesCounted
  <2>2. Counted(s', msgwaitq', nwaitnotempty, "WAIT_MQNOTEMPTY")
    BY <1>2, <1>4, OthersCounted
  <2> QED BY <2>1, <2>2, <1>4
<1> QED BY <1>3, <1>4

(* The part of CallsInv when x is woken, by task t or by an interrupt      *)
(* (t = x).                                                                *)
LEMMA CallsWoken ==
  ASSUME MqInv, NEW x \in Tasks, Leaves(s, s', x), SchedOK(s', call'),
         msgwaitq' = [msgwaitq EXCEPT ![x] = None],
         call' \in [Tasks -> MqCalls], pterrno' \in [Tasks -> Errnos],
         NEW t \in Tasks, t # x => s.task_state[t] \notin MqStates,
         CallOK(t, call'[t]), \A y \in Tasks \ {t} : call'[y] = call[y],
         \A y \in Tasks \ {x} : pterrno'[y] = pterrno[y]
  PROVE  CallsInv'
<1>1. /\ msgwaitq' \in [Tasks -> Queues \cup {None}] /\ msgwaitq'[x] = None
      /\ \A y \in Tasks \ {x} : msgwaitq'[y] = msgwaitq[y]
  BY CallsFacts
<1>2. /\ s'.task_state[x] \notin MqStates
      /\ \A y \in Tasks \ {x} : \A st \in MqStates : s'.task_state[y] = st <=> s.task_state[y] = st
  BY DEF Leaves, OthersKept
<1>3. ASSUME NEW y \in Tasks
      PROVE  \/ Untouched(y)
             \/ /\ CallOK(y, call'[y])
                /\ WaitOK(s', y, call'[y], msgwaitq'[y], pterrno'[y])
  <2>1. CASE y # t /\ y # x
    BY <2>1, <1>1, <1>2 DEF Untouched
  <2>2. CASE y = x
    <3>1. CallOK(x, call'[x])
      <4>1. CASE x = t
        BY <4>1
      <4>2. CASE x # t
        BY <4>2, CallsFacts
      <4> QED BY <4>1, <4>2
    <3>2. WaitOK(s', x, call'[x], msgwaitq'[x], pterrno'[x])
      BY <1>1, <1>2 DEF WaitOK, MqStates
    <3> QED BY <2>2, <3>1, <3>2
  <2>3. CASE y = t /\ y # x
    <3>1. s'.task_state[t] \notin MqStates
      BY <2>3, <1>2
    <3>2. msgwaitq'[t] = None
      BY <2>3, <1>1, CallsFacts DEF WaitOK
    <3>3. WaitOK(s', t, call'[t], msgwaitq'[t], pterrno'[t])
      BY <3>1, <3>2 DEF WaitOK, MqStates
    <3> QED BY <2>3, <3>3
  <2> QED BY <2>1, <2>2, <2>3
<1> QED BY <1>1, <1>3, CallsPart

(* The end of mq_dosend.                                                   *)
LEMMA SendWakesGood ==
  ASSUME MqInv, NEW t \in Tasks, SendWakes(t)
  PROVE  MqInv'
<1> DEFINE q == call[t].q
<1>1. /\ t \in Tasks \ {Idle} /\ Runs(t) /\ call[t].at = "wakereceiver" /\ Running(s) = t
      /\ s.panic = {} /\ s.task_state[t] \notin MqStates /\ msgwaitq[t] = None
  BY CallAtFacts, RunsFacts DEF SendWakes
<1>2. /\ s' = WakeReceiver(s, q) /\ ReceiverWoken(s, q) /\ Goes(t, "unlock")
      /\ UNCHANGED <<g, msglist, nwaitnotfull, pterrno, parm, isr>>
  BY DEF SendWakes
<1>3. /\ SchedOK(s, call) /\ call \in [Tasks -> MqCalls] /\ q \in Queues
      /\ pterrno \in [Tasks -> Errnos] /\ msglist \in [Queues -> Seq(Messages)]
      /\ msgwaitq \in [Tasks -> Queues \cup {None}]
  BY <1>1, CallsFacts DEF CallOK, Sendings
<1>4. /\ Only(t) /\ call'[t].at = "unlock" /\ call'[t].q = q /\ call'[t].wdog = call[t].wdog
  BY <1>2, GoesFacts DEF Steps, Inside
<1>5. /\ call' \in [Tasks -> MqCalls] /\ pterrno' \in [Tasks -> Errnos]
      /\ \A y \in Tasks \ {t} : call'[y] = call[y]
  BY <1>4 DEF Only
<1>6. CallOK(t, call'[t])
  BY <1>1, <1>4 DEF CallOK, Sendings
<1>7. TimersInv'
  <2>1. \A y \in Tasks : call'[y].wdog = call[y].wdog
    BY <1>4, <1>5
  <2> QED BY <2>1, <1>2, TimersSame
<1>8. \/ /\ nwaitnotempty[q] = 0 /\ WakeReceiver(s, q) = s
         /\ msgwaitq' = msgwaitq /\ nwaitnotempty' = nwaitnotempty
      \/ \E x \in Tasks :
           /\ s.task_state[x] = "WAIT_MQNOTEMPTY" /\ msgwaitq[x] = q /\ nwaitnotempty[q] > 0
           /\ WakeReceiver(s, q) = up_unblock_task(s, x)
           /\ msgwaitq' = [msgwaitq EXCEPT ![x] = None]
           /\ nwaitnotempty' = [nwaitnotempty EXCEPT ![q] = @ - 1]
  <2> HIDE DEF q
  <2> QED BY <1>2, <1>3, WakesReceiver
<1>9. CASE /\ nwaitnotempty[q] = 0 /\ WakeReceiver(s, q) = s
           /\ msgwaitq' = msgwaitq /\ nwaitnotempty' = nwaitnotempty
  <2>1. SchedOK(s', call') /\ Kept(s, s')
    <3>1. SchedOK(s, call')
      BY <1>1, <1>3, <1>4, <1>5, SchedSame DEF Inside
    <3> QED BY <3>1, <1>2, <1>9 DEF Kept
  <2>2. UNCHANGED queuevars
    BY <1>2, <1>9 DEF queuevars
  <2>3. \A p \in Queues : ReceiverComes(call[t], None, pterrno[t], p) => nwaitnotempty[p] = 0
    BY <1>9 DEF ReceiverComes
  <2>4. \A p \in Queues : ~SenderComes(call[t], None, pterrno[t], p)
    BY <1>1 DEF SenderComes
  <2>5. FillsOn(call[t], call'[t])
    BY <1>4, NotFilling
  <2> QED BY <2>1, <2>2, <2>3, <2>4, <2>5, <1>1, <1>4, <1>6, <1>7, OneTask
<1>10. ASSUME NEW x \in Tasks, s.task_state[x] = "WAIT_MQNOTEMPTY", msgwaitq[x] = q,
              nwaitnotempty[q] > 0, WakeReceiver(s, q) = up_unblock_task(s, x),
              msgwaitq' = [msgwaitq EXCEPT ![x] = None],
              nwaitnotempty' = [nwaitnotempty EXCEPT ![q] = @ - 1]
       PROVE  MqInv'
  <2>1. SchedOK(s', call') /\ Leaves(s, s', x) /\ s'.panic = s.panic
    <3>1. \A y \in Tasks : /\ call'[y].at \in Inside <=> call[y].at \in Inside
                           /\ call'[y].at \in Waitings <=> call[y].at \in Waitings
      BY <1>1, <1>4, <1>5 DEF Inside, Waitings
    <3>2. s.task_state[x] \in MqStates
      BY <1>10 DEF MqStates
    <3>3. s' = up_unblock_task(s, x)
      BY <1>2, <1>10
    <3> QED BY <3>1, <3>2, <3>3, <1>3, SchedWakes
  <2>2. /\ msgwaitq'[x] = None /\ \A y \in Tasks \ {x} : msgwaitq'[y] = msgwaitq[y]
        /\ x # t
    BY <1>1, <1>3, <1>10 DEF MqStates
  <2>3. CallsInv'
    BY <2>1, <1>1, <1>2, <1>5, <1>6, <1>10, CallsWoken
  <2>4. CountsInv'
    <3> HIDE DEF q
    <3>1. /\ Counted(s', msgwaitq', [nwaitnotempty EXCEPT ![q] = @ - 1], "WAIT_MQNOTEMPTY")
          /\ Counted(s', msgwaitq', nwaitnotfull, "WAIT_MQNOTFULL")
      BY <2>1, <2>2, <1>3, <1>10, CountsWoken
    <3> QED BY <3>1, <1>2, <1>10 DEF CountsInv
  <2>5. call[x].at = "waitreceive" /\ call[x].q = q /\ pterrno[x] = "OK" /\ q # None
    BY <1>3, <1>10, CallsFacts, MqAssumption DEF WaitOK, MqStates
  <2>6. ASSUME NEW p \in Queues PROVE ReceiversWoken(p)' /\ SendersWoken(p)'
    <3>1. msglist' \in [Queues -> Seq(Messages)] /\ Len(msglist'[p]) >= Len(msglist[p])
          /\ Len(msglist'[p]) = Len(msglist[p])
      BY <1>2, <1>3, LenProperties
    <3>2. SendersWoken(p)'
      <4>1. \A y \in Tasks : SenderComes(call[y], msgwaitq[y], pterrno[y], p)
                              => SenderComes(call'[y], msgwaitq'[y], pterrno'[y], p)
        BY <2>2, <2>5, <1>1, <1>2, <1>5 DEF SenderComes
      <4> QED BY <4>1, <3>1, <2>1, <1>2, SendersStay
    <3>3. CASE p = q
      <4>1. ReceiversComing(p) \ {t} \subseteq ReceiversComing(p)'
        BY <2>2, <2>5, <1>2, <1>5 DEF ReceiversComing, ReceiverComes
      <4>2. x \in ReceiversComing(p)' \ ReceiversComing(p)
        BY <2>2, <2>5, <3>3, <1>2, <1>5, <1>10 DEF ReceiversComing, ReceiverComes
      <4>3. Cardinality(ReceiversComing(p)) <= Cardinality(ReceiversComing(p)')
        <5>1. ReceiversComing(p) \in SUBSET Tasks /\ ReceiversComing(p)' \in SUBSET Tasks
          BY <3>1, ComingSets
        <5> QED BY <5>1, <4>1, <4>2, CardSwaps
      <4>4. Len(msglist'[p]) - Len(msglist[p])
              <= Cardinality(ReceiversComing(p)') - Cardinality(ReceiversComing(p))
        BY <4>3, <3>1, ComingSets
      <4>5. ReceiversWoken(p)'
        BY <4>4, <3>1, <3>3, <1>10, ReceiversPart
      <4> QED BY <4>5, <3>2
    <3>4. CASE p # q
      <4>1. \A y \in Tasks : ReceiverComes(call[y], msgwaitq[y], pterrno[y], p)
                              => ReceiverComes(call'[y], msgwaitq'[y], pterrno'[y], p)
        BY <2>2, <2>5, <3>4, <1>2, <1>4, <1>5 DEF ReceiverComes
      <4>2. nwaitnotempty'[p] = nwaitnotempty[p]
        BY <3>4, <1>10 DEF MqInv, CountsInv, Counted
      <4>3. ReceiversWoken(p)'
        BY <4>1, <4>2, <3>1, ReceiversStay
      <4> QED BY <4>3, <3>2
    <3> QED BY <3>3, <3>4
  <2>7. WakeupsInv'
    BY <2>6 DEF WakeupsInv
  <2>8. FillInv'
    <3>1. \A y \in Tasks : FillsOn(call[y], call'[y])
      BY <1>4, <1>5, NotFilling
    <3> QED BY <3>1, <2>3, <1>2, FillSame
  <2> QED BY <2>3, <2>4, <2>7, <2>8, <1>7 DEF MqInv
<1> QED BY <1>8, <1>9, <1>10

(* mq_doreceive wakes a sender.                                            *)
LEMMA ReceiveWakesGood ==
  ASSUME MqInv, NEW t \in Tasks, ReceiveWakes(t)
  PROVE  MqInv'
<1> DEFINE q == call[t].q
           x == Waiter(s, "g_waitingformqnotfull", q)
<1>1. /\ t \in Tasks \ {Idle} /\ Runs(t) /\ call[t].at = "wakesender" /\ Running(s) = t
      /\ s.panic = {} /\ s.task_state[t] \notin MqStates /\ msgwaitq[t] = None
  BY CallAtFacts, RunsFacts DEF ReceiveWakes
<1>2. /\ UNCHANGED <<g, msglist, nwaitnotempty, pterrno, parm, isr>>
      /\ \/ /\ x # None
            /\ msgwaitq' = [msgwaitq EXCEPT ![x] = None]
            /\ nwaitnotfull' = [nwaitnotfull EXCEPT ![q] = @ - 1]
            /\ s' = up_unblock_task(s, x)
            /\ Goes(t, "unlock")
         \/ /\ x = None
            /\ s' = PanicUnless(s, FALSE, "MQNOTFULLCOUNT")
            /\ UNCHANGED <<msgwaitq, nwaitnotfull, call>>
  BY DEF ReceiveWakes
<1>3. /\ SchedOK(s, call) /\ call \in [Tasks -> MqCalls] /\ q \in Queues
      /\ pterrno \in [Tasks -> Errnos] /\ msglist \in [Queues -> Seq(Messages)]
      /\ msgwaitq \in [Tasks -> Queues \cup {None}]
  BY <1>1, CallsFacts DEF CallOK, Sendings
<1>4. \/ x = None
      \/ x \in Tasks /\ s.task_state[x] = "WAIT_MQNOTFULL" /\ msgwaitq[x] = q
  <2>1. "WAIT_MQNOTFULL" \in MqStates /\ "g_waitingformqnotfull" = tasklist("WAIT_MQNOTFULL")
    BY DEF MqStates, tasklist
  <2> HIDE DEF q
  <2> QED BY <2>1, <1>3, FirstWaiter
<1> HIDE DEF x
<1>5. CASE x = None
  <2>1. s' = PanicUnless(s, FALSE, "MQNOTFULLCOUNT") /\ UNCHANGED <<msgwaitq, nwaitnotfull, call>>
    BY <1>2, <1>5
  <2>2. SchedOK(s', call') /\ Kept(s, s') /\ s'.panic # {}
    BY <2>1, <1>3, SchedPanics
  <2>3. Only(t) /\ UNCHANGED queuevars
    BY <2>1, <1>2, <1>3 DEF Only, queuevars
  <2>4. TimersInv'
    BY <2>1, <1>2, TimersSame
  <2>5. CallOK(t, call'[t])
    BY <2>1, CallsFacts
  <2>6. FillsOn(call[t], call'[t])
    BY <2>1, <1>1, NotFilling
  <2>7. call'[t] = call[t] /\ pterrno'[t] = pterrno[t]
    BY <2>1, <1>2
  <2> QED BY <2>2, <2>3, <2>4, <2>5, <2>6, <2>7, <1>1, OneTask
<1>6. CASE x # None
  <2>0. /\ x \in Tasks /\ s.task_state[x] = "WAIT_MQNOTFULL" /\ msgwaitq[x] = q
        /\ msgwaitq' = [msgwaitq EXCEPT ![x] = None]
        /\ nwaitnotfull' = [nwaitnotfull EXCEPT ![q] = @ - 1]
        /\ s' = up_unblock_task(s, x) /\ Goes(t, "unlock")
    BY <1>2, <1>4, <1>6
  <2>1. /\ Only(t) /\ call'[t].at = "unlock" /\ call'[t].q = q /\ call'[t].wdog = call[t].wdog
    BY <2>0, <1>2, GoesFacts DEF Steps, Inside
  <2>2. /\ call' \in [Tasks -> MqCalls] /\ pterrno' \in [Tasks -> Errnos]
        /\ \A y \in Tasks \ {t} : call'[y] = call[y]
    BY <2>1 DEF Only
  <2>3. SchedOK(s', call') /\ Leaves(s, s', x) /\ s'.panic = s.panic
    <3>1. \A y \in Tasks : /\ call'[y].at \in Inside <=> call[y].at \in Inside
                           /\ call'[y].at \in Waitings <=> call[y].at \in Waitings
      BY <2>1, <2>2, <1>1 DEF Inside, Waitings
    <3>2. s.task_state[x] \in MqStates
      BY <2>0 DEF MqStates
    <3> QED BY <3>1, <3>2, <2>0, <1>3, SchedWakes
  <2>4. /\ msgwaitq'[x] = None /\ \A y \in Tasks \ {x} : msgwaitq'[y] = msgwaitq[y]
        /\ x # t
    BY <2>0, <1>1, <1>3 DEF MqStates
  <2>5. CallsInv'
    <3>1. CallOK(t, call'[t])
      BY <2>1, <1>1 DEF CallOK, Sendings
    <3> QED BY <3>1, <2>0, <2>2, <2>3, <1>1, <1>2, CallsWoken
  <2>6. CountsInv'
    <3> HIDE DEF q
    <3>1. /\ Counted(s', msgwaitq', [nwaitnotfull EXCEPT ![q] = @ - 1], "WAIT_MQNOTFULL")
          /\ Counted(s', msgwaitq', nwaitnotempty, "WAIT_MQNOTEMPTY")
      <4>1. x \in Tasks /\ q \in Queues /\ Leaves(s, s', x) /\ msgwaitq[x] = q
        BY <2>0, <2>3, <1>3
      <4> QED BY <4>1, <2>0, <2>4, CountsWoken
    <3> QED BY <3>1, <2>0, <1>2 DEF CountsInv
  <2>7. TimersInv'
    <3>1. \A y \in Tasks : call'[y].wdog = call[y].wdog
      BY <2>1, <2>2
    <3> QED BY <3>1, <1>2, TimersSame
  <2>8. call[x].at = "waitsend" /\ call[x].q = q /\ pterrno[x] = "OK" /\ q # None
    BY <2>0, <1>3, CallsFacts, MqAssumption DEF WaitOK, MqStates
  <2>9. ASSUME NEW p \in Queues PROVE ReceiversWoken(p)' /\ SendersWoken(p)'
    <3>1. msglist' \in [Queues -> Seq(Messages)] /\ Len(msglist'[p]) = Len(msglist[p])
          /\ Len(msglist[p]) \in Nat
      BY <1>2, <1>3, LenProperties
    <3>2. ReceiversWoken(p)'
      <4>1. \A y \in Tasks : ReceiverComes(call[y], msgwaitq[y], pterrno[y], p)
                              => ReceiverComes(call'[y], msgwaitq'[y], pterrno'[y], p)
        BY <2>2, <2>4, <2>8, <1>1, <1>2 DEF ReceiverComes
      <4> QED BY <4>1, <3>1, <1>2, ReceiversStay
    <3>3. nwaitnotfull'[p] > 0 => nwaitnotfull[p] > 0
      BY <2>0 DEF MqInv, CountsInv, Counted
    <3>4. CASE p = q
      <4>1. SendersComing(p) \ {t} \subseteq SendersComing(p)'
        BY <2>2, <2>4, <2>8, <1>2 DEF SendersComing, SenderComes
      <4>2. x \in SendersComing(p)' \ SendersComing(p)
        BY <2>0, <2>2, <2>4, <2>8, <3>4, <1>2 DEF SendersComing, SenderComes
      <4>3. Cardinality(SendersComing(p)) <= Cardinality(SendersComing(p)')
        <5>1. SendersComing(p) \in SUBSET Tasks /\ SendersComing(p)' \in SUBSET Tasks
          BY <3>1, ComingSets
        <5> QED BY <5>1, <4>1, <4>2, CardSwaps
      <4>4. Len(msglist[p]) - Len(msglist'[p])
              <= Cardinality(SendersComing(p)') - Cardinality(SendersComing(p))
        BY <4>3, <3>1, ComingSets
      <4>5. SendersWoken(p)'
        BY <4>4, <3>1, <3>3, <1>1, SendersPart
      <4> QED BY <4>5, <3>2
    <3>5. CASE p # q
      <4>1. \A y \in Tasks : SenderComes(call[y], msgwaitq[y], pterrno[y], p)
                              => SenderComes(call'[y], msgwaitq'[y], pterrno'[y], p)
        BY <2>1, <2>2, <2>4, <2>8, <3>5, <1>2 DEF SenderComes
      <4>2. SendersWoken(p)'
        BY <4>1, <3>1, <3>3, <1>1, SendersStay
      <4> QED BY <4>2, <3>2
    <3> QED BY <3>4, <3>5
  <2>10. WakeupsInv'
    BY <2>9 DEF WakeupsInv
  <2>11. FillInv'
    <3>1. \A y \in Tasks : FillsOn(call[y], call'[y])
      BY <2>1, <2>2, NotFilling
    <3> QED BY <3>1, <2>5, <1>2, FillSame
  <2> QED BY <2>5, <2>6, <2>7, <2>10, <2>11 DEF MqInv
<1> QED BY <1>5, <1>6

(* A signal or a timeout ends a wait.                                      *)
LEMMA WaitirqGood ==
  ASSUME MqInv, NEW x \in Tasks, NEW e \in {"EINTR", "ETIMEDOUT"},
         s.task_state[x] \in MqStates, mq_waitirq(x, e),
         msglist' = msglist, call' = call, TimersInv'
  PROVE  MqInv'
<1> DEFINE q == msgwaitq[x]
<1>1. /\ SchedOK(s, call) /\ call \in [Tasks -> MqCalls]
      /\ pterrno \in [Tasks -> Errnos] /\ msglist \in [Queues -> Seq(Messages)]
      /\ msgwaitq \in [Tasks -> Queues \cup {None}]
      /\ WaitOK(s, x, call[x], msgwaitq[x], pterrno[x])
  BY CallsFacts
<1>2. q \in Queues /\ q # None /\ call[x].at \in Waitings
  BY <1>1, MqAssumption DEF WaitOK, MqStates, Waitings
<1>3. /\ nwaitnotempty \in [Queues -> Nat] /\ nwaitnotfull \in [Queues -> Nat]
  BY DEF MqInv, CountsInv, Counted
<1>4. /\ msgwaitq' = [msgwaitq EXCEPT ![x] = None]
      /\ nwaitnotempty' = IF s.task_state[x] = "WAIT_MQNOTEMPTY"
                          THEN [nwaitnotempty EXCEPT ![q] = @ - 1] ELSE nwaitnotempty
      /\ nwaitnotfull' = IF s.task_state[x] = "WAIT_MQNOTFULL"
                         THEN [nwaitnotfull EXCEPT ![q] = @ - 1] ELSE nwaitnotfull
      /\ pterrno' = [pterrno EXCEPT ![x] = e]
      /\ s' = up_unblock_task(s, x)
  BY <1>2, <1>3 DEF mq_waitirq
<1> HIDE DEF q
<1>5. SchedOK(s', call') /\ Leaves(s, s', x) /\ s'.panic = s.panic
  BY <1>1, <1>4, SchedWakes
<1>6. /\ msgwaitq'[x] = None /\ \A y \in Tasks \ {x} : msgwaitq'[y] = msgwaitq[y]
      /\ pterrno' \in [Tasks -> Errnos]
      /\ pterrno'[x] = e /\ \A y \in Tasks \ {x} : pterrno'[y] = pterrno[y]
  BY <1>1, <1>4 DEF Errnos
<1>7. CallsInv'
  <2>1. CallOK(x, call'[x])
    BY CallsFacts
  <2> QED BY <2>1, <1>1, <1>4, <1>5, <1>6, CallsWoken
<1>8. CountsInv'
  <2>1. x \in Tasks /\ q \in Queues /\ Leaves(s, s', x) /\ msgwaitq[x] = q
    BY <1>2, <1>5 DEF q
  <2>2. CASE s.task_state[x] = "WAIT_MQNOTEMPTY"
    <3>1. /\ Counted(s', msgwaitq', [nwaitnotempty EXCEPT ![q] = @ - 1], "WAIT_MQNOTEMPTY")
          /\ Counted(s', msgwaitq', nwaitnotfull, "WAIT_MQNOTFULL")
      BY <2>1, <2>2, <1>6, CountsWoken
    <3> QED BY <2>2, <3>1, <1>4 DEF CountsInv
  <2>3. CASE s.task_state[x] = "WAIT_MQNOTFULL"
    <3>1. /\ Counted(s', msgwaitq', [nwaitnotfull EXCEPT ![q] = @ - 1], "WAIT_MQNOTFULL")
          /\ Counted(s', msgwaitq', nwaitnotempty, "WAIT_MQNOTEMPTY")
      BY <2>1, <2>3, <1>6, CountsWoken
    <3> QED BY <2>3, <3>1, <1>4 DEF CountsInv
  <2> QED BY <2>2, <2>3 DEF MqStates
<1>9. ASSUME NEW p \in Queues PROVE ReceiversWoken(p)' /\ SendersWoken(p)'
  <2>1. msglist' \in [Queues -> Seq(Messages)] /\ Len(msglist'[p]) = Len(msglist[p])
        /\ Len(msglist[p]) \in Nat
    BY <1>1, LenProperties
  <2>2. /\ nwaitnotempty'[p] > 0 => nwaitnotempty[p] > 0
        /\ nwaitnotfull'[p] > 0 => nwaitnotfull[p] > 0
    BY <1>2, <1>3, <1>4
  <2>3. msgwaitq[x] # None /\ call[x].at \in {"waitsend", "waitreceive"}
    BY <1>1, <1>2 DEF q, WaitOK, MqStates
  <2>4. \A y \in Tasks : /\ ReceiverComes(call[y], msgwaitq[y], pterrno[y], p)
                            => ReceiverComes(call'[y], msgwaitq'[y], pterrno'[y], p)
                         /\ SenderComes(call[y], msgwaitq[y], pterrno[y], p)
                            => SenderComes(call'[y], msgwaitq'[y], pterrno'[y], p)
    BY <2>3, <1>2, <1>6 DEF ReceiverComes, SenderComes, Waitings
  <2>5. ReceiversWoken(p)'
    BY <2>1, <2>2, <2>4, ReceiversStay
  <2>6. SendersWoken(p)'
    BY <2>1, <2>2, <2>4, <1>5, SendersStay
  <2> QED BY <2>5, <2>6
<1>10. WakeupsInv'
  BY <1>9 DEF WakeupsInv
<1>11. FillInv'
  <2>1. \A y \in Tasks : FillsOn(call[y], call'[y])
    BY NotFilling
  <2> QED BY <2>1, <1>7, FillSame
<1> QED BY <1>7, <1>8, <1>10, <1>11 DEF MqInv

(* An interrupt handler sends: its message is one more than the tasks may  *)
(* have, and wakes a receiver at once.                                     *)
LEMMA InterruptSendsGood ==
  ASSUME MqInv, NEW q \in Queues, NEW prio \in Prios, InterruptSends(q, prio)
  PROVE  MqInv'
<1> DEFINE m == [prio |-> prio, from |-> Handler, type |-> AllocType]
           z == sched_lock(s)
<1>1. /\ s.panic = {} /\ msglist' = InsertMessage(q, m)
      /\ s' = sched_unlock(WakeReceiver(z, q)) /\ ReceiverWoken(z, q)
      /\ UNCHANGED <<g, nwaitnotfull, pterrno, call, parm, isr>>
  BY DEF InterruptSends
<1>2. /\ SchedOK(s, call) /\ call \in [Tasks -> MqCalls]
      /\ pterrno \in [Tasks -> Errnos] /\ msglist \in [Queues -> Seq(Messages)]
      /\ msgwaitq \in [Tasks -> Queues \cup {None}]
  BY CallsFacts
<1>3. m \in Messages /\ m.from = Handler
  BY MqAssumption DEF Messages, AllocType
<1> HIDE DEF m
<1>4. PICK k \in 1 .. Len(msglist[q]) + 1 : msglist' = [msglist EXCEPT ![q] = InsertAt(msglist[q], k, m)]
  BY <1>1, <1>3, InsertSomewhere DEF MqInv
<1>5. /\ msglist[q] \in Seq(Messages)
      /\ InsertAt(msglist[q], k, m) \in Seq(Messages)
      /\ Len(InsertAt(msglist[q], k, m)) = Len(msglist[q]) + 1
      /\ Cardinality(Own(InsertAt(msglist[q], k, m))) <= Cardinality(Own(msglist[q]))
  BY <1>2, <1>3, OwnInsert
<1>6. /\ msglist' \in [Queues -> Seq(Messages)] /\ msglist'[q] = InsertAt(msglist[q], k, m)
      /\ \A p \in Queues \ {q} : msglist'[p] = msglist[p]
  BY <1>2, <1>4, <1>5
<1>7. ASSUME CallsInv' PROVE FillInv'
  <2>1. ASSUME NEW p \in Queues
        PROVE  /\ Cardinality(Own(msglist'[p])) \in Nat /\ Cardinality(Own(msglist[p])) \in Nat
               /\ Cardinality(Own(msglist'[p])) <= Cardinality(Own(msglist[p]))
    <3>1. msglist'[p] \in Seq(Messages) /\ msglist[p] \in Seq(Messages)
      BY <1>2, <1>6
    <3>2. Cardinality(Own(msglist'[p])) \in Nat /\ Cardinality(Own(msglist[p])) \in Nat
      BY <3>1, OwnSize
    <3>3. CASE p = q
      BY <3>2, <3>3, <1>5, <1>6
    <3>4. CASE p # q
      BY <3>2, <3>4, <1>6
    <3> QED BY <3>3, <3>4
  <2>2. \A x \in Tasks : FillsOn(call[x], call'[x])
    BY <1>1, NotFilling
  <2> QED BY <2>1, <2>2, <1>6, <1>7, FillKept
<1>8. TimersInv'
  BY <1>1, TimersSame
<1>9. z.list = s.list
  <2>1. Sound(s) /\ Running(s) \in Tasks /\ s.lockcount[Running(s)] \in {0, 1}
    BY <1>2, RunningOrWaiting DEF SchedOK, LockOK
  <2> QED BY <2>1, LockFacts
<1>10. \/ /\ nwaitnotempty[q] = 0 /\ WakeReceiver(z, q) = z
          /\ msgwaitq' = msgwaitq /\ nwaitnotempty' = nwaitnotempty
       \/ \E x \in Tasks :
            /\ s.task_state[x] = "WAIT_MQNOTEMPTY" /\ msgwaitq[x] = q /\ nwaitnotempty[q] > 0
            /\ WakeReceiver(z, q) = up_unblock_task(z, x)
            /\ msgwaitq' = [msgwaitq EXCEPT ![x] = None]
            /\ nwaitnotempty' = [nwaitnotempty EXCEPT ![q] = @ - 1]
  <2> HIDE DEF z
  <2> QED BY <1>1, <1>9, WakesReceiver
<1>11. ASSUME NEW p \in Queues PROVE Len(msglist'[p]) >= Len(msglist[p])
  <2>1. msglist[p] \in Seq(Messages) /\ Len(msglist[p]) \in Nat
    BY <1>2, LenProperties
  <2> QED BY <2>1, <1>5, <1>6
<1>12. CASE /\ nwaitnotempty[q] = 0 /\ WakeReceiver(z, q) = z
            /\ msgwaitq' = msgwaitq /\ nwaitnotempty' = nwaitnotempty
  <2>1. SchedOK(s', call) /\ Kept(s, s') /\ s'.panic = s.panic
    <3>1. PICK y1, y2 : y1 = sched_lock(s) /\ y2 = y1 /\ s' = sched_unlock(y2)
      BY <1>1, <1>12
    <3> QED BY <3>1, <1>2, IdleAssumption, SchedInterrupts
  <2>2. CallsInv'
    <3>1. \A x \in Tasks : Untouched(x)
      BY <2>1, <1>1, <1>12 DEF Untouched, Kept
    <3> QED BY <3>1, <2>1, <1>1, <1>2, <1>12, CallsPart
  <2>3. CountsInv'
    <3>1. ASSUME NEW st \in MqStates, NEW n, Counted(s, msgwaitq, n, st)
          PROVE  Counted(s', msgwaitq, n, st)
      <4>1. \A x \in Tasks : s'.task_state[x] = st <=> s.task_state[x] = st
        BY <2>1 DEF Kept
      <4> QED BY <3>1, <4>1, CountsStay
    <3> QED BY <3>1, <1>1, <1>12 DEF MqInv, CountsInv, MqStates
  <2>4. ASSUME NEW p \in Queues PROVE ReceiversWoken(p)' /\ SendersWoken(p)'
    <3>1. SendersWoken(p)'
      BY <2>1, <1>1, <1>6, <1>11, <1>12, SendersStay
    <3>2. CASE p = q
      BY <3>1, <3>2, <1>12 DEF ReceiversWoken
    <3>3. CASE p # q
      <4>1. Len(msglist'[p]) = Len(msglist[p])
        BY <3>3, <1>6
      <4>2. ReceiversWoken(p)'
        BY <4>1, <1>1, <1>6, <1>12, ReceiversStay
      <4> QED BY <4>2, <3>1
    <3> QED BY <3>2, <3>3
  <2>5. WakeupsInv'
    BY <2>4 DEF WakeupsInv
  <2> QED BY <2>2, <2>3, <2>5, <1>7, <1>8 DEF MqInv
<1>13. ASSUME NEW x \in Tasks, s.task_state[x] = "WAIT_MQNOTEMPTY", msgwaitq[x] = q,
              nwaitnotempty[q] > 0, WakeReceiver(z, q) = up_unblock_task(z, x),
              msgwaitq' = [msgwaitq EXCEPT ![x] = None],
              nwaitnotempty' = [nwaitnotempty EXCEPT ![q] = @ - 1]
       PROVE  MqInv'
  <2>1. SchedOK(s', call) /\ Leaves(s, s', x) /\ s'.panic = s.panic
    <3>1. PICK y1, y2 : y1 = sched_lock(s) /\ y2 = up_unblock_task(y1, x) /\ s' = sched_unlock(y2)
      BY <1>1, <1>13
    <3>2. s.task_state[x] \in MqStates
      BY <1>13 DEF MqStates
    <3> HIDE DEF z
    <3> QED BY <3>1, <3>2, <1>2, SchedInterrupts
  <2>2. msgwaitq'[x] = None /\ \A y \in Tasks \ {x} : msgwaitq'[y] = msgwaitq[y]
    BY <1>2, <1>13
  <2>3. CallsInv'
    <3>1. CallOK(x, call'[x])
      BY <1>1, CallsFacts
    <3> QED BY <3>1, <2>1, <1>1, <1>2, <1>13, CallsWoken
  <2>4. CountsInv'
    <3>1. /\ Counted(s', msgwaitq', [nwaitnotempty EXCEPT ![q] = @ - 1], "WAIT_MQNOTEMPTY")
          /\ Counted(s', msgwaitq', nwaitnotfull, "WAIT_MQNOTFULL")
      BY <2>1, <2>2, <1>13, CountsWoken
    <3> QED BY <3>1, <1>1, <1>13 DEF CountsInv
  <2>5. call[x].at = "waitreceive" /\ call[x].q = q /\ pterrno[x] = "OK" /\ q # None
    BY <1>13, CallsFacts, MqAssumption DEF WaitOK, MqStates
  <2>6. ASSUME NEW p \in Queues PROVE ReceiversWoken(p)' /\ SendersWoken(p)'
    <3>1. SendersWoken(p)'
      <4>1. \A y \in Tasks : SenderComes(call[y], msgwaitq[y], pterrno[y], p)
                              => SenderComes(call'[y], msgwaitq'[y], pterrno'[y], p)
        BY <2>2, <2>5, <1>1 DEF SenderComes
      <4> QED BY <4>1, <2>1, <1>1, <1>6, <1>11, SendersStay
    <3>2. \A y \in Tasks : ReceiverComes(call[y], msgwaitq[y], pterrno[y], p)
                            => ReceiverComes(call'[y], msgwaitq'[y], pterrno'[y], p)
      BY <2>2, <2>5, <1>1, <1>13 DEF ReceiverComes
    <3>3. CASE p = q
      <4>1. ReceiversComing(p) \subseteq ReceiversComing(p)'
        BY <3>2 DEF ReceiversComing
      <4>2. x \in ReceiversComing(p)' \ ReceiversComing(p)
        BY <2>2, <2>5, <3>3, <1>1, <1>13 DEF ReceiversComing, ReceiverComes
      <4>3. Cardinality(ReceiversComing(p)) + 1 <= Cardinality(ReceiversComing(p)')
        <5>1. ReceiversComing(p) \in SUBSET Tasks /\ ReceiversComing(p)' \in SUBSET Tasks
          BY <1>6, ComingSets
        <5> QED BY <5>1, <4>1, <4>2, CardGains
      <4>4. Len(msglist'[p]) = Len(msglist[p]) + 1
        BY <3>3, <1>5, <1>6
      <4>5. Len(msglist'[p]) - Len(msglist[p])
              <= Cardinality(ReceiversComing(p)') - Cardinality(ReceiversComing(p))
        BY <4>3, <4>4, <1>6, ComingSets
      <4>6. ReceiversWoken(p)'
        BY <4>5, <3>3, <1>6, <1>13, ReceiversPart
      <4> QED BY <4>6, <3>1
    <3>4. CASE p # q
      <4>1. Len(msglist'[p]) = Len(msglist[p])
        BY <3>4, <1>6
      <4>2. nwaitnotempty'[p] = nwaitnotempty[p]
        BY <3>4, <1>13 DEF MqInv, CountsInv, Counted
      <4>3. ReceiversWoken(p)'
        BY <4>1, <4>2, <3>2, <1>6, ReceiversStay
      <4> QED BY <4>3, <3>1
    <3> QED BY <3>3, <3>4
  <2>7. WakeupsInv'
    BY <2>6 DEF WakeupsInv
  <2> QED BY <2>3, <2>4, <2>7, <1>7, <1>8 DEF MqInv
<1> QED BY <1>10, <1>12, <1>13

-----------------------------------------------------------------------------
(* The timer interrupt and signals.                                        *)

(* sig_received ends the wait of a task.                                   *)
LEMMA SignalGood ==
  ASSUME MqInv, NEW x \in Tasks, Signal(x)
  PROVE  MqInv'
<1>1. /\ s.task_state[x] \in MqStates /\ mq_waitirq(x, "EINTR")
      /\ UNCHANGED <<g, msglist, call, parm, isr>>
  BY DEF Signal, MqStates
<1>2. TimersInv'
  BY <1>1, TimersSame
<1> QED BY <1>1, <1>2, WaitirqGood

(* A step of wd_timer outside of the watchdogs' functions.                 *)
LEMMA TimerOnly ==
  ASSUME MqInv, UNCHANGED <<s, queuevars, pterrno, call>>, TimersInv'
  PROVE  MqInv'
<1>1. /\ s' = s /\ pterrno' = pterrno /\ call' = call /\ msglist' = msglist
      /\ nwaitnotempty' = nwaitnotempty /\ nwaitnotfull' = nwaitnotfull /\ msgwaitq' = msgwaitq
  BY DEF queuevars
<1>2. CallsInv' /\ CountsInv' /\ FillInv'
  BY <1>1 DEF MqInv, CallsInv, CountsInv, FillInv, Filling
<1>3. WakeupsInv'
  BY <1>1 DEF MqInv, WakeupsInv, ReceiversWoken, SendersWoken, ReceiversComing, SendersComing
<1> QED BY <1>2, <1>3 DEF MqInv

(* wd_timer counts the head of the active list down.                       *)
LEMMA TimerBeginsGood ==
  ASSUME MqInv, TimerBegins
  PROVE  MqInv'
<1>1. ~isr /\ g' = TimerCounts(g) /\ isr' = TRUE /\ UNCHANGED <<s, queuevars, pterrno, call, parm>>
  BY DEF TimerBegins
<1>2. WdSound(g) /\ ~Expired(g) /\ Owned(call, g)
  BY <1>1 DEF MqInv, TimersInv
<1>3. WdSound(g') /\ g'.g_wdfreelist = g.g_wdfreelist
  BY <1>1, <1>2, CountsSound
<1>4. Owned(call', g')
  BY <1>1, <1>2, <1>3, OwnedKept
<1>5. TimersInv'
  BY <1>1, <1>3, <1>4 DEF MqInv, TimersInv
<1> QED BY <1>1, <1>5, TimerOnly

(* mq_sndtimeout and mq_rcvtimeout: the task still waits in the state that *)
(* the watchdog was started for, or nothing happens.                       *)
LEMMA TimeoutGood ==
  ASSUME MqInv, Timeout
  PROVE  MqInv'
<1> DEFINE p == parm[Head(g.g_wdactivelist)]
<1>1. /\ isr /\ Expired(g) /\ g' = TimerRemoves(g)
      /\ UNCHANGED <<msglist, call, parm, isr>>
      /\ \/ s.task_state[p.pid] = p.state /\ mq_waitirq(p.pid, "ETIMEDOUT")
         \/ UNCHANGED <<s, msgwaitq, nwaitnotempty, nwaitnotfull, pterrno>>
  BY DEF Timeout
<1>2. /\ WdSound(g) /\ Owned(call, g) /\ isr \in BOOLEAN
      /\ parm \in [Wdogs -> [pid : Tasks, state : MqStates]]
  BY DEF MqInv, TimersInv
<1>3. WdSound(g') /\ g'.g_wdfreelist = g.g_wdfreelist
  BY <1>1, <1>2, RemovesSound
<1>4. Owned(call', g')
  BY <1>1, <1>2, <1>3, OwnedKept
<1>5. TimersInv'
  BY <1>1, <1>2, <1>3, <1>4 DEF TimersInv
<1>6. p.pid \in Tasks /\ p.state \in MqStates
  <2>1. g.g_wdactivelist \in Seq(Wdogs) /\ g.g_wdactivelist # <<>>
    BY <1>1, <1>2 DEF WdSound, WdStates, Expired
  <2>2. Head(g.g_wdactivelist) \in Wdogs
    BY <2>1
  <2> QED BY <2>2, <1>2
<1> HIDE DEF p
<1>7. CASE s.task_state[p.pid] = p.state /\ mq_waitirq(p.pid, "ETIMEDOUT")
  BY <1>1, <1>5, <1>6, <1>7, WaitirqGood
<1>8. CASE UNCHANGED <<s, msgwaitq, nwaitnotempty, nwaitnotfull, pterrno>>
  BY <1>1, <1>5, <1>8, TimerOnly DEF queuevars
<1> QED BY <1>1, <1>7, <1>8

(* wd_timer ends when no watchdog is due.                                  *)
LEMMA TimerEndsGood ==
  ASSUME MqInv, TimerEnds
  PROVE  MqInv'
<1>1. ~Expired(g) /\ isr' = FALSE /\ UNCHANGED <<s, g, queuevars, pterrno, call, parm>>
  BY DEF TimerEnds
<1>2. TimersInv'
  BY <1>1 DEF MqInv, TimersInv
<1> QED BY <1>1, <1>2, TimerOnly

-----------------------------------------------------------------------------
(* The calls of tasks.                                                     *)

(* The watchdog of a timed call, from wd_create to wd_delete.              *)
LEMMA CreatesTimer ==
  ASSUME MqInv, NEW t \in Tasks, ~isr, g.g_wdfreelist # <<>>, g' = wd_create(g),
         UNCHANGED <<parm, isr>>, call'[t].wdog = Head(g.g_wdfreelist),
         \A x \in Tasks \ {t} : call'[x] = call[x]
  PROVE  TimersInv' /\ Head(g.g_wdfreelist) \in Wdogs
<1> DEFINE w == Head(g.g_wdfreelist)
<1>1. WdSound(g) /\ Owned(call, g) /\ ~Expired(g)
  BY DEF MqInv, TimersInv
<1>2. /\ WdSound(g') /\ Left(g') = Left(g) /\ w \in Wdogs /\ Linked(g.g_wdfreelist, w)
      /\ \A x \in Wdogs : Linked(g'.g_wdfreelist, x) <=> Linked(g.g_wdfreelist, x) /\ x # w
  BY <1>1, CreateSound
<1> HIDE DEF w
<1>3. ~Expired(g')
  BY <1>1, <1>2, ExpiredIsDue
<1>4. Owned(call', g')
  BY <1>1, <1>2 DEF Owned, w
<1> QED BY <1>2, <1>3, <1>4 DEF MqInv, TimersInv, w

(* wd_start before the wait: the watchdog of the call is not free, and it  *)
(* is not due at once.                                                     *)
LEMMA StartsTimer ==
  ASSUME MqInv, NEW t \in Tasks, ~isr, call[t].wdog \in Wdogs, NEW ticks \in Timeouts, ticks > 0,
         NEW st \in MqStates, g' = wd_start(g, call[t].wdog, ticks), isr' = isr,
         parm' = [parm EXCEPT ![call[t].wdog] = [pid |-> t, state |-> st]],
         \A x \in Tasks : call'[x].wdog = call[x].wdog
  PROVE  TimersInv'
<1> DEFINE w == call[t].wdog
<1>1. WdSound(g) /\ Owned(call, g) /\ ~Expired(g) /\ w \in Wdogs
      /\ parm \in [Wdogs -> [pid : Tasks, state : MqStates]]
  BY DEF MqInv, TimersInv
<1>2. ~Linked(g.g_wdfreelist, w) /\ ticks \in Nat
  BY <1>1, MqAssumption DEF Owned
<1> HIDE DEF w
<1>3. /\ WdSound(g') /\ g'.g_wdfreelist = g.g_wdfreelist
      /\ Left(g') = [Left(g) EXCEPT ![w] = AtLeast(ticks)]
  <2>1. g' = wd_start(g, w, ticks)
    BY DEF w
  <2> QED BY <2>1, <1>1, <1>2, StartSound
<1>4. ~Expired(g')
  <2>1. AtLeast(ticks) \in Int /\ AtLeast(ticks) # 0
    BY <1>2 DEF AtLeast
  <2> QED BY <2>1, <1>1, <1>3, NotDueStays
<1>5. Owned(call', g')
  BY <1>1, <1>3, OwnedKept
<1>6. parm' \in [Wdogs -> [pid : Tasks, state : MqStates]]
  BY <1>1
<1> QED BY <1>3, <1>4, <1>5, <1>6 DEF MqInv, TimersInv

(* wd_cancel when the wait is over.                                        *)
LEMMA CancelsTimer ==
  ASSUME MqInv, NEW t \in Tasks, ~isr, g' = Cancelled(t), UNCHANGED <<parm, isr>>,
         \A x \in Tasks : call'[x].wdog = call[x].wdog
  PROVE  TimersInv'
<1>1. WdSound(g) /\ Owned(call, g) /\ ~Expired(g)
  BY DEF MqInv, TimersInv
<1>2. WdSound(g') /\ g'.g_wdfreelist = g.g_wdfreelist /\ ~Expired(g')
  <2>1. CASE call[t].wdog = None
    BY <2>1, <1>1 DEF Cancelled
  <2>2. CASE call[t].wdog # None
    <3>1. call[t].wdog \in Wdogs
      BY <2>2, CallsFacts DEF MqCalls
    <3>2. g' = wd_cancel(g, call[t].wdog)
      BY <2>2 DEF Cancelled
    <3>3. PICK w \in Wdogs : g' = wd_cancel(g, w)
      BY <3>1, <3>2
    <3>4. WdSound(g') /\ g'.g_wdfreelist = g.g_wdfreelist /\ Left(g') = [Left(g) EXCEPT ![w] = -1]
      <4> DEFINE y == wd_cancel(g, w)
      <4>1. WdSound(y) /\ y.g_wdfreelist = g.g_wdfreelist /\ Left(y) = [Left(g) EXCEPT ![w] = -1]
        BY <1>1, CancelSound
      <4> HIDE DEF y
      <4>2. g' = y
        BY <3>3 DEF y
      <4> QED BY <4>1, <4>2
    <3>5. ~Expired(g')
      <4>1. -1 \in Int /\ -1 # 0
        OBVIOUS
      <4> QED BY <4>1, <3>4, <1>1, NotDueStays
    <3> QED BY <3>4, <3>5
  <2> QED BY <2>1, <2>2
<1>3. Owned(call', g')
  BY <1>1, <1>2, OwnedKept
<1> QED BY <1>2, <1>3 DEF MqInv, TimersInv

(* wd_delete: the watchdog goes back to the pool and to no other call.     *)
LEMMA DeletesTimer ==
  ASSUME MqInv, NEW t \in Tasks, ~isr, call[t].wdog \in Wdogs, g' = wd_delete(g, call[t].wdog),
         UNCHANGED <<parm, isr>>, call'[t].wdog = None, \A x \in Tasks \ {t} : call'[x] = call[x]
  PROVE  TimersInv'
<1>1. WdSound(g) /\ Owned(call, g) /\ ~Expired(g) /\ ~Linked(g.g_wdfreelist, call[t].wdog)
  BY DEF MqInv, TimersInv, Owned
<1>2. PICK w \in Wdogs : w = call[t].wdog
  OBVIOUS
<1>3. /\ WdSound(g') /\ Left(g') = [Left(g) EXCEPT ![w] = -1]
      /\ \A x \in Wdogs : Linked(g'.g_wdfreelist, x) <=> Linked(g.g_wdfreelist, x) \/ x = w
  BY <1>1, <1>2, DeleteSound
<1>4. ~Expired(g')
  <2>1. -1 \in Int /\ -1 # 0
    OBVIOUS
  <2> QED BY <2>1, <1>1, <1>3, NotDueStays
<1>5. Owned(call', g')
  <2>1. None \notin Wdogs
    BY MqAssumption
  <2>2. ASSUME NEW x \in Tasks, call'[x].wdog \in Wdogs
        PROVE  /\ ~Linked(g'.g_wdfreelist, call'[x].wdog)
               /\ \A u \in Tasks \ {x} : call'[u].wdog # call'[x].wdog
    <3>1. x # t /\ call'[x] = call[x]
      BY <2>1, <2>2
    <3>2. /\ ~Linked(g.g_wdfreelist, call[x].wdog)
          /\ \A u \in Tasks \ {x} : call[u].wdog # call[x].wdog
      BY <2>2, <3>1, <1>1 DEF Owned
    <3> QED BY <2>1, <2>2, <3>1, <3>2, <1>2, <1>3
  <2> QED BY <2>2 DEF Owned
<1> QED BY <1>3, <1>4, <1>5 DEF MqInv, TimersInv

(* A task in no call.                                                      *)
LEMMA UserFacts ==
  /\ User \in MqCalls /\ User.at = "user" /\ User.wdog = None /\ \A t \in Tasks : CallOK(t, User)
<1>1. User \in MqCalls /\ User.at = "user" /\ User.wdog = None
  BY DEF User, MqCalls, Steps
<1> QED BY <1>1 DEF CallOK, Sendings

(* sched_lock at the beginning of a call that does not have to wait.       *)
LEMMA CallLocks ==
  ASSUME MqInv, NEW t \in Tasks \ {Idle}, Runs(t), Only(t), UNCHANGED queuevars,
         s' = sched_lock(s), TimersInv', CallOK(t, call'[t]),
         call[t].at \in {"user", "timedsend", "timedreceive"},
         call'[t].at \in {"unlock", "alloc"},
         call'[t].at = "alloc" => nmsgs(call'[t].q) < MaxMsgs
  PROVE  MqInv'
<1>1. SchedOK(s, call) /\ Running(s) = t /\ t \in Tasks /\ \A x \in Tasks \ {t} : call'[x] = call[x]
  BY CallsFacts, RunsFacts DEF Only
<1>2. SchedOK(s', call') /\ Kept(s, s')
  <2>1. call[t].at \notin Inside \cup Waitings /\ call'[t].at \in Inside
    BY DEF Inside, Waitings
  <2> QED BY <2>1, <1>1, SchedLocks
<1>3. \A q \in Queues : /\ ~ReceiverComes(call[t], None, pterrno[t], q)
                        /\ ~SenderComes(call[t], None, pterrno[t], q)
  BY DEF ReceiverComes, SenderComes
<1>4. FillsOn(call[t], call'[t])
  BY NotFilling, FindsRoom DEF nmsgs
<1> QED BY <1>1, <1>2, <1>3, <1>4, OneTask

(* sched_lock at the beginning of a call that has to wait.                 *)
LEMMA CallWaits ==
  ASSUME MqInv, NEW t \in Tasks \ {Idle}, Runs(t), Only(t), NEW st \in MqStates,
         s' = up_block_task(sched_lock(s), t, st),
         call[t].at \in {"user", "timedsend", "timedreceive"}, call'[t].at \in Waitings
  PROVE  SchedOK(s', call') /\ Enters(s, s', t, st)
<1>1. SchedOK(s, call) /\ Running(s) = t /\ t \in Tasks /\ \A x \in Tasks \ {t} : call'[x] = call[x]
  BY CallsFacts, RunsFacts DEF Only
<1>2. call[t].at \notin Inside \cup Waitings
  BY DEF Inside, Waitings
<1> QED BY <1>1, <1>2, SchedLocksAndBlocks

(* The beginning of a timed call.                                          *)
LEMMA TimedCallGood ==
  ASSUME MqInv, NEW t \in Tasks, NEW what \in {"timedsend", "timedreceive"}, NEW q \in Queues,
         NEW prio \in Nat, TimedCall(t, what, q, prio)
  PROVE  MqInv'
<1> DEFINE r == [User EXCEPT !.at = what, !.q = q, !.prio = prio, !.wdog = Head(g.g_wdfreelist)]
<1>1. /\ t \in Tasks \ {Idle} /\ t \in Tasks /\ Runs(t) /\ call[t].at = "user"
      /\ what \in Workload[t] /\ UNCHANGED <<s, queuevars, parm, isr>>
  BY MakesFacts DEF TimedCall
<1>2. /\ SchedOK(s, call) /\ ~isr /\ Running(s) = t /\ call \in [Tasks -> MqCalls] /\ Kept(s, s')
  BY <1>1, CallsFacts, RunsFacts DEF Kept
<1>3. \A p \in Queues : /\ ~ReceiverComes(call[t], None, pterrno[t], p)
                        /\ ~SenderComes(call[t], None, pterrno[t], p)
  BY <1>1 DEF ReceiverComes, SenderComes
<1>4. SUFFICES /\ Only(t) /\ CallOK(t, call'[t]) /\ TimersInv'
               /\ call'[t].at \in {"user", "timedsend", "timedreceive"}
  <2>1. SchedOK(s, call')
    <3>1. /\ \A x \in Tasks \ {t} : call'[x] = call[x]
          /\ call[t].at \notin Inside \cup Waitings /\ call'[t].at \notin Inside \cup Waitings
      BY <1>1, <1>4 DEF Only, Inside, Waitings
    <3> QED BY <3>1, <1>2, SchedSame
  <2>2. SchedOK(s', call') /\ UNCHANGED queuevars
    BY <2>1, <1>1
  <2>3. FillsOn(call[t], call'[t])
    BY <1>4, NotFilling
  <2> QED BY <2>2, <2>3, <1>1, <1>2, <1>3, <1>4, OneTask
<1>5. CASE /\ pterrno' = [pterrno EXCEPT ![t] = "EINVAL"]
           /\ call' = [call EXCEPT ![t] = User] /\ UNCHANGED g
  <2>1. Only(t) /\ call'[t] = User
    BY <1>5, UserFacts, SetsCall DEF Errnos
  <2>2. \A x \in Tasks : call'[x].wdog = call[x].wdog \/ call'[x].wdog = None
    BY <2>1, UserFacts DEF Only
  <2>3. TimersInv'
    BY <2>2, <1>1, <1>5, TimersSame
  <2> QED BY <2>1, <2>3, UserFacts
<1>6. CASE /\ g.g_wdfreelist # <<>> /\ g' = wd_create(g)
           /\ call' = [call EXCEPT ![t] = r] /\ pterrno' = pterrno
  <2>1. Head(g.g_wdfreelist) \in Wdogs
    BY <1>6, CreateSound DEF MqInv, TimersInv
  <2>2. /\ r \in MqCalls /\ r.at = what /\ r.q = q /\ r.wdog = Head(g.g_wdfreelist)
    BY <2>1 DEF User, MqCalls, Steps
  <2> HIDE DEF r
  <2>3. Only(t) /\ call'[t] = r
    BY <2>2, <1>6, SetsCall
  <2>4. TimersInv'
    BY <2>2, <2>3, <1>1, <1>2, <1>6, CreatesTimer DEF Only
  <2>5. CallOK(t, call'[t])
    BY <2>1, <2>2, <2>3, <1>1 DEF CallOK, Sendings, SendingTasks
  <2> QED BY <2>2, <2>3, <2>4, <2>5
<1> QED BY <1>5, <1>6 DEF TimedCall

(* The first section of mq_send.                                           *)
LEMMA SendGood ==
  ASSUME MqInv, NEW t \in Tasks, NEW q \in Queues, NEW prio \in Prios, mq_send(t, q, prio)
  PROVE  MqInv'
<1> DEFINE locked == sched_lock(s)
           a == [User EXCEPT !.at = "alloc", !.q = q, !.prio = prio]
           u == [User EXCEPT !.at = "unlock"]
           w == [User EXCEPT !.at = "waitsend", !.q = q, !.prio = prio]
<1>1. /\ t \in Tasks \ {Idle} /\ t \in Tasks /\ Runs(t) /\ call[t].at = "user"
      /\ "send" \in Workload[t] /\ UNCHANGED <<g, parm, isr>>
  BY MakesFacts DEF mq_send
<1>2. /\ a \in MqCalls /\ a.at = "alloc" /\ a.q = q /\ a.wdog = None
      /\ u \in MqCalls /\ u.at = "unlock" /\ u.wdog = None
      /\ w \in MqCalls /\ w.at = "waitsend" /\ w.q = q /\ w.wdog = None
  BY MqAssumption DEF User, MqCalls, Steps, Inside, Waitings
<1>3. \/ /\ nmsgs(q) < MaxMsgs /\ call' = [call EXCEPT ![t] = a] /\ s' = locked
         /\ UNCHANGED <<queuevars, pterrno>>
      \/ /\ pterrno' = [pterrno EXCEPT ![t] = "EAGAIN"] /\ call' = [call EXCEPT ![t] = u]
         /\ s' = locked /\ UNCHANGED queuevars
      \/ /\ nmsgs(q) >= MaxMsgs /\ BlockSender(t, q) /\ call' = [call EXCEPT ![t] = w]
         /\ s' = up_block_task(locked, t, "WAIT_MQNOTFULL")
  BY DEF mq_send
<1> HIDE DEF a, u, w
<1>4. CallOK(t, a) /\ CallOK(t, u) /\ CallOK(t, w)
  BY <1>1, <1>2 DEF CallOK, Sendings, SendingTasks
<1>5. ASSUME NEW r \in {a, u, w}, Only(t), call'[t] = r PROVE TimersInv'
  <2>1. \A x \in Tasks : call'[x].wdog = call[x].wdog \/ call'[x].wdog = None
    BY <1>2, <1>5 DEF Only
  <2> QED BY <2>1, <1>1, TimersSame
<1>6. CASE /\ nmsgs(q) < MaxMsgs /\ call' = [call EXCEPT ![t] = a] /\ s' = locked
           /\ UNCHANGED <<queuevars, pterrno>>
  <2>1. Only(t) /\ call'[t] = a
    BY <1>2, <1>6, SetsCall
  <2>2. TimersInv'
    BY <2>1, <1>5
  <2> QED BY <2>1, <2>2, <1>1, <1>2, <1>4, <1>6, CallLocks
<1>7. CASE /\ pterrno' = [pterrno EXCEPT ![t] = "EAGAIN"] /\ call' = [call EXCEPT ![t] = u]
           /\ s' = locked /\ UNCHANGED queuevars
  <2>1. Only(t) /\ call'[t] = u
    BY <1>2, <1>7, SetsCall DEF Errnos
  <2>2. TimersInv'
    BY <2>1, <1>5
  <2> QED BY <2>1, <2>2, <1>1, <1>2, <1>4, <1>7, CallLocks
<1>8. CASE /\ nmsgs(q) >= MaxMsgs /\ BlockSender(t, q) /\ call' = [call EXCEPT ![t] = w]
           /\ s' = up_block_task(locked, t, "WAIT_MQNOTFULL")
  <2>1. Only(t) /\ call'[t] = w
    BY <1>2, <1>8, SetsCall DEF Errnos, BlockSender
  <2>2. TimersInv'
    BY <2>1, <1>5
  <2>3. SchedOK(s', call') /\ Enters(s, s', t, "WAIT_MQNOTFULL")
    BY <2>1, <1>1, <1>2, <1>8, CallWaits DEF MqStates, Waitings
  <2> QED BY <2>1, <2>2, <2>3, <1>1, <1>2, <1>4, <1>8, SenderBlocks
<1> QED BY <1>3, <1>6, <1>7, <1>8

(* The first section of mq_receive.                                        *)
LEMMA ReceiveGood ==
  ASSUME MqInv, NEW t \in Tasks, NEW q \in Queues, mq_receive(t, q)
  PROVE  MqInv'
<1> DEFINE locked == sched_lock(s)
           u == [User EXCEPT !.at = "unlock"]
           w == [User EXCEPT !.at = "waitreceive", !.q = q]
<1>1. /\ t \in Tasks \ {Idle} /\ t \in Tasks /\ Runs(t) /\ call[t].at = "user"
      /\ UNCHANGED <<g, parm, isr>>
  BY MakesFacts DEF mq_receive
<1>2. /\ u \in MqCalls /\ u.at = "unlock" /\ u.wdog = None
      /\ w \in MqCalls /\ w.at = "waitreceive" /\ w.q = q /\ w.wdog = None
  BY MqAssumption DEF User, MqCalls, Steps, Inside, Waitings
<1>3. \/ TakesMessage(t, q) /\ s' = locked
      \/ /\ pterrno' = [pterrno EXCEPT ![t] = "EAGAIN"] /\ call' = [call EXCEPT ![t] = u]
         /\ s' = locked /\ UNCHANGED queuevars
      \/ /\ msglist[q] = <<>> /\ BlockReceiver(t, q) /\ call' = [call EXCEPT ![t] = w]
         /\ s' = up_block_task(locked, t, "WAIT_MQNOTEMPTY")
  BY DEF mq_receive
<1> HIDE DEF u, w
<1>4. CallOK(t, u) /\ CallOK(t, w)
  BY <1>1, <1>2 DEF CallOK, Sendings
<1>5. ASSUME NEW r \in {u, w}, Only(t), call'[t] = r PROVE TimersInv'
  <2>1. \A x \in Tasks : call'[x].wdog = call[x].wdog \/ call'[x].wdog = None
    BY <1>2, <1>5 DEF Only
  <2> QED BY <2>1, <1>1, TimersSame
<1>6. CASE TakesMessage(t, q) /\ s' = locked
  <2>1. Only(t) /\ call'[t].at = "doreceive" /\ call'[t].wdog = call[t].wdog
    BY <1>1, <1>6, TakesFacts
  <2>2. TimersInv'
    BY <2>1, <1>1, TimersSame DEF Only
  <2>3. SchedOK(s', call') /\ Kept(s, s')
    <3>1. /\ call[t].at \notin Inside \cup Waitings /\ call'[t].at \in Inside
          /\ \A x \in Tasks \ {t} : call'[x] = call[x]
      BY <2>1, <1>1 DEF Inside, Waitings, Only
    <3>2. SchedOK(s, call) /\ Running(s) = t
      BY <1>1, CallsFacts, RunsFacts
    <3> QED BY <3>1, <3>2, <1>1, <1>6, SchedLocks
  <2> QED BY <2>2, <2>3, <1>1, <1>6, TakesPart
<1>7. CASE /\ pterrno' = [pterrno EXCEPT ![t] = "EAGAIN"] /\ call' = [call EXCEPT ![t] = u]
           /\ s' = locked /\ UNCHANGED queuevars
  <2>1. Only(t) /\ call'[t] = u
    BY <1>2, <1>7, SetsCall DEF Errnos
  <2>2. TimersInv'
    BY <2>1, <1>5
  <2> QED BY <2>1, <2>2, <1>1, <1>2, <1>4, <1>7, CallLocks
<1>8. CASE /\ msglist[q] = <<>> /\ BlockReceiver(t, q) /\ call' = [call EXCEPT ![t] = w]
           /\ s' = up_block_task(locked, t, "WAIT_MQNOTEMPTY")
  <2>1. Only(t) /\ call'[t] = w
    BY <1>2, <1>8, SetsCall DEF Errnos, BlockReceiver
  <2>2. TimersInv'
    BY <2>1, <1>5
  <2>3. SchedOK(s', call') /\ Enters(s, s', t, "WAIT_MQNOTEMPTY")
    BY <2>1, <1>1, <1>2, <1>8, CallWaits DEF MqStates, Waitings
  <2> QED BY <2>1, <2>2, <2>3, <1>1, <1>2, <1>4, <1>8, ReceiverBlocks
<1> QED BY <1>3, <1>6, <1>7, <1>8

(* The first section of mq_timedsend.                                      *)
LEMMA TimedsendGood ==
  ASSUME MqInv, NEW t \in Tasks, NEW ticks \in Timeouts, mq_timedsend(t, ticks)
  PROVE  MqInv'
<1> DEFINE q == call[t].q
           w == call[t].wdog
           locked == sched_lock(s)
<1>1. /\ t \in Tasks \ {Idle} /\ t \in Tasks /\ Runs(t) /\ call[t].at = "timedsend" /\ isr' = isr
      /\ ~isr
  BY CallAtFacts, RunsFacts DEF mq_timedsend
<1>2. q \in Queues /\ w \in Wdogs /\ t \in SendingTasks
  BY <1>1, CallsFacts DEF CallOK, Sendings
<1>3. \/ /\ nmsgs(q) < MaxMsgs /\ Goes(t, "alloc") /\ s' = locked
         /\ UNCHANGED <<queuevars, pterrno, g, parm>>
      \/ /\ \E e \in Errnos : pterrno' = [pterrno EXCEPT ![t] = e]
         /\ Goes(t, "unlock") /\ s' = locked /\ UNCHANGED <<queuevars, g, parm>>
      \/ /\ nmsgs(q) >= MaxMsgs /\ ticks > 0 /\ g' = wd_start(g, w, ticks)
         /\ parm' = [parm EXCEPT ![w] = [pid |-> t, state |-> "WAIT_MQNOTFULL"]]
         /\ BlockSender(t, q) /\ Goes(t, "waitsend")
         /\ s' = up_block_task(locked, t, "WAIT_MQNOTFULL")
  BY DEF mq_timedsend, Errnos
<1>4. CASE /\ nmsgs(q) < MaxMsgs /\ Goes(t, "alloc") /\ s' = locked
           /\ UNCHANGED <<queuevars, pterrno, g, parm>>
  <2>1. Only(t) /\ call'[t].at = "alloc" /\ call'[t].q = q /\ call'[t].wdog = w
    BY <1>4, GoesFacts DEF Steps, Inside
  <2>2. CallOK(t, call'[t])
    BY <2>1, <1>1, <1>2 DEF CallOK, Sendings
  <2>3. TimersInv'
    BY <2>1, <1>1, <1>4, TimersSame DEF Only
  <2> QED BY <2>1, <2>2, <2>3, <1>1, <1>4, CallLocks
<1>5. CASE /\ \E e \in Errnos : pterrno' = [pterrno EXCEPT ![t] = e]
           /\ Goes(t, "unlock") /\ s' = locked /\ UNCHANGED <<queuevars, g, parm>>
  <2>1. Only(t) /\ call'[t].at = "unlock" /\ call'[t].wdog = w
    BY <1>5, GoesFacts DEF Steps, Inside
  <2>2. CallOK(t, call'[t])
    BY <2>1, <1>1, <1>2 DEF CallOK, Sendings
  <2>3. TimersInv'
    BY <2>1, <1>1, <1>5, TimersSame DEF Only
  <2> QED BY <2>1, <2>2, <2>3, <1>1, <1>5, CallLocks
<1>6. CASE /\ nmsgs(q) >= MaxMsgs /\ ticks > 0 /\ g' = wd_start(g, w, ticks)
           /\ parm' = [parm EXCEPT ![w] = [pid |-> t, state |-> "WAIT_MQNOTFULL"]]
           /\ BlockSender(t, q) /\ Goes(t, "waitsend")
           /\ s' = up_block_task(locked, t, "WAIT_MQNOTFULL")
  <2>1. Only(t) /\ call'[t].at = "waitsend" /\ call'[t].q = q /\ call'[t].wdog = w
    BY <1>6, GoesFacts DEF Steps, Waitings, BlockSender, Errnos
  <2>2. CallOK(t, call'[t])
    BY <2>1, <1>1, <1>2 DEF CallOK, Sendings
  <2>3. TimersInv'
    <3>1. \A x \in Tasks : call'[x].wdog = call[x].wdog
      BY <2>1 DEF Only
    <3> QED BY <3>1, <1>1, <1>2, <1>6, StartsTimer DEF MqStates
  <2>4. SchedOK(s', call') /\ Enters(s, s', t, "WAIT_MQNOTFULL")
    BY <2>1, <1>1, <1>6, CallWaits DEF MqStates, Waitings
  <2> HIDE DEF q
  <2> QED BY <2>1, <2>2, <2>3, <2>4, <1>1, <1>2, <1>6, SenderBlocks
<1> QED BY <1>3, <1>4, <1>5, <1>6

(* The first section of mq_timedreceive.                                   *)
LEMMA TimedreceiveGood ==
  ASSUME MqInv, NEW t \in Tasks, NEW ticks \in Timeouts, mq_timedreceive(t, ticks)
  PROVE  MqInv'
<1> DEFINE q == call[t].q
           w == call[t].wdog
           locked == sched_lock(s)
<1>1. /\ t \in Tasks \ {Idle} /\ t \in Tasks /\ Runs(t) /\ call[t].at = "timedreceive" /\ isr' = isr
      /\ ~isr
  BY CallAtFacts, RunsFacts DEF mq_timedreceive
<1>2. q \in Queues /\ w \in Wdogs
  BY <1>1, CallsFacts DEF CallOK, Sendings
<1>3. \/ TakesMessage(t, q) /\ s' = locked /\ UNCHANGED <<g, parm>>
      \/ /\ \E e \in Errnos : pterrno' = [pterrno EXCEPT ![t] = e]
         /\ Goes(t, "unlock") /\ s' = locked /\ UNCHANGED <<queuevars, g, parm>>
      \/ /\ msglist[q] = <<>> /\ ticks > 0 /\ g' = wd_start(g, w, ticks)
         /\ parm' = [parm EXCEPT ![w] = [pid |-> t, state |-> "WAIT_MQNOTEMPTY"]]
         /\ BlockReceiver(t, q) /\ Goes(t, "waitreceive")
         /\ s' = up_block_task(locked, t, "WAIT_MQNOTEMPTY")
  BY DEF mq_timedreceive, Errnos
<1>4. CASE TakesMessage(t, q) /\ s' = locked /\ UNCHANGED <<g, parm>>
  <2> HIDE DEF q
  <2>1. Only(t) /\ call'[t].at = "doreceive" /\ call'[t].wdog = w
    BY <1>1, <1>2, <1>4, TakesFacts
  <2>2. TimersInv'
    BY <2>1, <1>1, <1>4, TimersSame DEF Only
  <2>3. SchedOK(s', call') /\ Kept(s, s')
    <3>1. /\ call[t].at \notin Inside \cup Waitings /\ call'[t].at \in Inside
          /\ \A x \in Tasks \ {t} : call'[x] = call[x]
      BY <2>1, <1>1 DEF Inside, Waitings, Only
    <3>2. SchedOK(s, call) /\ Running(s) = t
      BY <1>1, CallsFacts, RunsFacts
    <3> QED BY <3>1, <3>2, <1>1, <1>4, SchedLocks
  <2> QED BY <2>2, <2>3, <1>1, <1>2, <1>4, TakesPart
<1>5. CASE /\ \E e \in Errnos : pterrno' = [pterrno EXCEPT ![t] = e]
           /\ Goes(t, "unlock") /\ s' = locked /\ UNCHANGED <<queuevars, g, parm>>
  <2>1. Only(t) /\ call'[t].at = "unlock" /\ call'[t].wdog = w
    BY <1>5, GoesFacts DEF Steps, Inside
  <2>2. CallOK(t, call'[t])
    BY <2>1, <1>1, <1>2 DEF CallOK, Sendings
  <2>3. TimersInv'
    BY <2>1, <1>1, <1>5, TimersSame DEF Only
  <2> QED BY <2>1, <2>2, <2>3, <1>1, <1>5, CallLocks
<1>6. CASE /\ msglist[q] = <<>> /\ ticks > 0 /\ g' = wd_start(g, w, ticks)
           /\ parm' = [parm EXCEPT ![w] = [pid |-> t, state |-> "WAIT_MQNOTEMPTY"]]
           /\ BlockReceiver(t, q) /\ Goes(t, "waitreceive")
           /\ s' = up_block_task(locked, t, "WAIT_MQNOTEMPTY")
  <2>1. Only(t) /\ call'[t].at = "waitreceive" /\ call'[t].q = q /\ call'[t].wdog = w
    BY <1>6, GoesFacts DEF Steps, Waitings, BlockReceiver, Errnos
  <2>2. CallOK(t, call'[t])
    BY <2>1, <1>1, <1>2 DEF CallOK, Sendings
  <2>3. TimersInv'
    <3>1. \A x \in Tasks : call'[x].wdog = call[x].wdog
      BY <2>1 DEF Only
    <3> QED BY <3>1, <1>1, <1>2, <1>6, StartsTimer DEF MqStates
  <2>4. SchedOK(s', call') /\ Enters(s, s', t, "WAIT_MQNOTEMPTY")
    BY <2>1, <1>1, <1>6, CallWaits DEF MqStates, Waitings
  <2> HIDE DEF q
  <2> QED BY <2>1, <2>2, <2>3, <2>4, <1>1, <1>2, <1>6, ReceiverBlocks
<1> QED BY <1>3, <1>4, <1>5, <1>6

(* A task that was waiting runs again and waits once more.                 *)
LEMMA WaitsAgain ==
  ASSUME MqInv, NEW t \in Tasks \ {Idle}, Runs(t), call[t].at \in Waitings, call' = call,
         NEW st \in MqStates, s' = up_block_task(s, t, st)
  PROVE  SchedOK(s', call') /\ Enters(s, s', t, st)
<1>1. SchedOK(s, call) /\ Running(s) = t /\ t \in Tasks
  BY CallsFacts, RunsFacts
<1> QED BY <1>1, SchedBlocks

(* A step of a call that has the CPU and keeps the lock.                   *)
LEMMA CallGoesOn ==
  ASSUME MqInv, NEW t \in Tasks \ {Idle}, Runs(t), Only(t), s' = s,
         call[t].at \in Inside \cup Waitings, call'[t].at \in Inside
  PROVE  SchedOK(s', call') /\ Kept(s, s')
<1>1. SchedOK(s, call) /\ Running(s) = t /\ t \in Tasks /\ \A x \in Tasks \ {t} : call'[x] = call[x]
  BY CallsFacts, RunsFacts DEF Only
<1>2. SchedOK(s, call')
  BY <1>1, SchedSame
<1> QED BY <1>2 DEF Kept

(* mq_waitsend, when the task runs again.                                  *)
LEMMA SendResumesGood ==
  ASSUME MqInv, NEW t \in Tasks, SendResumes(t)
  PROVE  MqInv'
<1> DEFINE q == call[t].q
           at == IF pterrno[t] # "OK" THEN "unlock" ELSE "alloc"
<1>1. /\ t \in Tasks \ {Idle} /\ t \in Tasks /\ Runs(t) /\ call[t].at = "waitsend" /\ ~isr
      /\ UNCHANGED <<parm, isr>>
  BY CallAtFacts, RunsFacts DEF SendResumes
<1>2. /\ q \in Queues /\ t \in SendingTasks
      /\ msglist[q] \in Seq(Messages) /\ call \in [Tasks -> MqCalls]
  BY <1>1, CallsFacts DEF CallOK, Sendings
<1>3. \/ /\ pterrno[t] # "OK" \/ nmsgs(q) < MaxMsgs
         /\ Goes(t, at) /\ g' = Cancelled(t) /\ UNCHANGED <<s, queuevars, pterrno>>
      \/ /\ nmsgs(q) >= MaxMsgs /\ BlockSender(t, q)
         /\ s' = up_block_task(s, t, "WAIT_MQNOTFULL") /\ UNCHANGED <<call, g>>
  BY DEF SendResumes
<1>4. CASE /\ pterrno[t] # "OK" \/ nmsgs(q) < MaxMsgs
           /\ Goes(t, at) /\ g' = Cancelled(t) /\ UNCHANGED <<s, queuevars, pterrno>>
  <2>1. at \in {"unlock", "alloc"} /\ (at = "alloc" <=> pterrno[t] = "OK")
    OBVIOUS
  <2> HIDE DEF at
  <2>2. Only(t) /\ call'[t].at = at /\ call'[t].q = q /\ call'[t].wdog = call[t].wdog
    BY <2>1, <1>4, GoesFacts DEF Steps, Inside
  <2>3. CallOK(t, call'[t])
    BY <2>1, <2>2, <1>1, <1>2 DEF CallOK, Sendings
  <2>4. TimersInv'
    <3>1. \A x \in Tasks : call'[x].wdog = call[x].wdog
      BY <2>2 DEF Only
    <3> QED BY <3>1, <1>1, <1>4, CancelsTimer
  <2>5. SchedOK(s', call') /\ Kept(s, s')
    BY <2>1, <2>2, <1>1, <1>4, CallGoesOn DEF Inside, Waitings
  <2>6. \A p \in Queues : ~ReceiverComes(call[t], None, pterrno[t], p)
    BY <1>1 DEF ReceiverComes
  <2>7. \A p \in Queues : SenderComes(call[t], None, pterrno[t], p)
                            => SenderComes(call'[t], None, pterrno'[t], p)
    BY <2>1, <2>2, <1>1 DEF SenderComes
  <2>8. FillsOn(call[t], call'[t])
    <3>1. CASE at = "alloc"
      <4>1. Len(msglist[q]) < MaxMsgs
        BY <3>1, <2>1, <1>4 DEF nmsgs
      <4> QED BY <4>1, <3>1, <2>2, FindsRoom
    <3>2. CASE at = "unlock"
      BY <3>2, <2>2, NotFilling
    <3> QED BY <3>1, <3>2, <2>1
  <2>9. UNCHANGED queuevars
    BY <1>4
  <2> QED BY <2>2, <2>3, <2>4, <2>5, <2>6, <2>7, <2>8, <2>9, <1>1, OneTask
<1>5. CASE /\ nmsgs(q) >= MaxMsgs /\ BlockSender(t, q)
           /\ s' = up_block_task(s, t, "WAIT_MQNOTFULL") /\ UNCHANGED <<call, g>>
  <2>1. Only(t)
    BY <1>2, <1>5, CallsFacts DEF Only, BlockSender, Errnos
  <2>2. CallOK(t, call'[t])
    BY <1>5, CallsFacts
  <2>3. TimersInv'
    BY <1>1, <1>5, TimersSame
  <2>4. SchedOK(s', call') /\ Enters(s, s', t, "WAIT_MQNOTFULL")
    BY <1>1, <1>5, WaitsAgain DEF MqStates, Waitings
  <2>5. call'[t].at = "waitsend" /\ call'[t].q = q
    BY <1>1, <1>5
  <2>6. call[t].at \in {"user", "timedsend", "waitsend"} /\ (call[t].at = "waitsend" => call[t].q = q)
    BY <1>1
  <2> HIDE DEF q
  <2> QED BY <2>1, <2>2, <2>3, <2>4, <2>5, <2>6, <1>1, <1>2, <1>5, SenderBlocks
<1> QED BY <1>3, <1>4, <1>5

(* mq_waitreceive, when the task runs again.                               *)
LEMMA ReceiveResumesGood ==
  ASSUME MqInv, NEW t \in Tasks, ReceiveResumes(t)
  PROVE  MqInv'
<1> DEFINE q == call[t].q
<1>1. /\ t \in Tasks \ {Idle} /\ t \in Tasks /\ Runs(t) /\ call[t].at = "waitreceive" /\ ~isr
      /\ UNCHANGED <<parm, isr>>
  BY CallAtFacts, RunsFacts DEF ReceiveResumes
<1>2. q \in Queues /\ call \in [Tasks -> MqCalls]
  BY <1>1, CallsFacts DEF CallOK, Sendings
<1>3. \/ /\ pterrno[t] # "OK" /\ Goes(t, "unlock") /\ g' = Cancelled(t)
         /\ UNCHANGED <<s, queuevars, pterrno>>
      \/ TakesMessage(t, q) /\ g' = Cancelled(t) /\ UNCHANGED s
      \/ /\ msglist[q] = <<>> /\ BlockReceiver(t, q)
         /\ s' = up_block_task(s, t, "WAIT_MQNOTEMPTY") /\ UNCHANGED <<call, g>>
  BY DEF ReceiveResumes
<1>4. CASE /\ pterrno[t] # "OK" /\ Goes(t, "unlock") /\ g' = Cancelled(t)
           /\ UNCHANGED <<s, queuevars, pterrno>>
  <2>1. Only(t) /\ call'[t].at = "unlock" /\ call'[t].wdog = call[t].wdog
    BY <1>4, GoesFacts DEF Steps, Inside
  <2>2. CallOK(t, call'[t])
    BY <2>1, <1>1 DEF CallOK, Sendings
  <2>3. TimersInv'
    <3>1. \A x \in Tasks : call'[x].wdog = call[x].wdog
      BY <2>1 DEF Only
    <3> QED BY <3>1, <1>1, <1>4, CancelsTimer
  <2>4. SchedOK(s', call') /\ Kept(s, s')
    BY <2>1, <1>1, <1>4, CallGoesOn DEF Inside, Waitings
  <2>5. \A p \in Queues : /\ ~ReceiverComes(call[t], None, pterrno[t], p)
                          /\ ~SenderComes(call[t], None, pterrno[t], p)
    BY <1>1, <1>4 DEF ReceiverComes, SenderComes
  <2>6. UNCHANGED queuevars /\ FillsOn(call[t], call'[t])
    BY <2>1, <1>4, NotFilling
  <2> QED BY <2>1, <2>2, <2>3, <2>4, <2>5, <2>6, <1>1, OneTask
<1>5. CASE TakesMessage(t, q) /\ g' = Cancelled(t) /\ UNCHANGED s
  <2>0. call[t].at = "waitreceive" => call[t].q = q
    OBVIOUS
  <2> HIDE DEF q
  <2>1. Only(t) /\ call'[t].at = "doreceive" /\ call'[t].wdog = call[t].wdog
    BY <1>1, <1>2, <1>5, TakesFacts
  <2>2. TimersInv'
    <3>1. \A x \in Tasks : call'[x].wdog = call[x].wdog
      BY <2>1 DEF Only
    <3> QED BY <3>1, <1>1, <1>5, CancelsTimer
  <2>3. SchedOK(s', call') /\ Kept(s, s')
    BY <2>1, <1>1, <1>5, CallGoesOn DEF Inside, Waitings
  <2> QED BY <2>0, <2>2, <2>3, <1>1, <1>2, <1>5, TakesPart
<1>6. CASE /\ msglist[q] = <<>> /\ BlockReceiver(t, q)
           /\ s' = up_block_task(s, t, "WAIT_MQNOTEMPTY") /\ UNCHANGED <<call, g>>
  <2>1. Only(t)
    BY <1>2, <1>6, CallsFacts DEF Only, BlockReceiver, Errnos
  <2>2. CallOK(t, call'[t])
    BY <1>6, CallsFacts
  <2>3. TimersInv'
    BY <1>1, <1>6, TimersSame
  <2>4. SchedOK(s', call') /\ Enters(s, s', t, "WAIT_MQNOTEMPTY")
    BY <1>1, <1>6, WaitsAgain DEF MqStates, Waitings
  <2>5. call'[t].at = "waitreceive" /\ call'[t].q = q
    BY <1>1, <1>6
  <2>6. /\ call[t].at \in {"user", "timedreceive", "waitreceive"}
        /\ call[t].at = "waitreceive" => call[t].q = q
    BY <1>1
  <2> HIDE DEF q
  <2> QED BY <2>1, <2>2, <2>3, <2>4, <2>5, <2>6, <1>1, <1>2, <1>6, ReceiverBlocks
<1> QED BY <1>3, <1>4, <1>5, <1>6

(* A sender with a message of the list or of the heap goes on to mq_dosend. *)
LEMMA GetsGood ==
  ASSUME MqInv, NEW t \in Tasks \ {Idle}, Runs(t), NEW type \in {"FIXED", "DYN"}, Gets(t, type),
         UNCHANGED <<s, g, queuevars, pterrno, parm, isr>>,
         call[t].at = "alloc" \/ (call[t].at = "heap" /\ type = "DYN")
  PROVE  MqInv'
<1> DEFINE q == call[t].q
           m == [prio |-> call[t].prio, from |-> t, type |-> type]
           r == [call[t] EXCEPT !.at = "dosend", !.msg = m]
<1>1. t \in Tasks /\ q \in Queues /\ t \in SendingTasks
      /\ call \in [Tasks -> MqCalls] /\ call[t] \in MqCalls
  BY CallsFacts DEF CallOK, Sendings
<1>2. call' = [call EXCEPT ![t] = r]
  BY <1>1 DEF Gets
<1>3. m \in Messages /\ m.from = t /\ t # Handler /\ m.type = type
  BY <1>1, MqAssumption DEF Messages, MqCalls
<1> HIDE DEF m
<1>4. r \in MqCalls /\ r.at = "dosend" /\ r.q = q /\ r.msg = m /\ r.wdog = call[t].wdog
  BY <1>1, <1>3 DEF MqCalls, Steps, Inside
<1> HIDE DEF r
<1>5. Only(t) /\ call'[t] = r
  BY <1>2, <1>4, SetsCall
<1>6. CallOK(t, call'[t])
  BY <1>1, <1>3, <1>4, <1>5 DEF CallOK, Sendings
<1>7. TimersInv'
  BY <1>4, <1>5, TimersSame DEF Only
<1>8. SchedOK(s', call') /\ Kept(s, s')
  BY <1>4, <1>5, CallGoesOn DEF Inside, Waitings
<1>9. \A p \in Queues : /\ ~ReceiverComes(call[t], None, pterrno[t], p)
                        /\ SenderComes(call[t], None, pterrno[t], p)
                             => SenderComes(call'[t], None, pterrno'[t], p)
  BY <1>4, <1>5 DEF SenderComes, ReceiverComes
<1>10. FillsOn(call[t], call'[t])
  <2>1. Roomy(r) => Roomy(call[t])
    BY <1>3, <1>4 DEF Roomy
  <2> QED BY <2>1, <1>4, <1>5, StillFilling
<1> QED BY <1>1, <1>5, <1>6, <1>7, <1>8, <1>9, <1>10, OneTask

(* mq_msgalloc in a task: the general list, or on to the heap.             *)
LEMMA SendAllocatesGood ==
  ASSUME MqInv, NEW t \in Tasks, SendAllocates(t)
  PROVE  MqInv'
<1>1. /\ t \in Tasks \ {Idle} /\ t \in Tasks /\ Runs(t) /\ call[t].at = "alloc"
      /\ UNCHANGED <<s, g, queuevars, pterrno, parm, isr>>
      /\ Gets(t, "FIXED") \/ Goes(t, "heap")
  BY CallAtFacts DEF SendAllocates
<1>2. CASE Gets(t, "FIXED")
  BY <1>1, <1>2, GetsGood
<1>3. CASE Goes(t, "heap")
  <2>1. /\ call[t].q \in Queues /\ t \in SendingTasks /\ SchedOK(s, call) /\ Running(s) = t
    BY <1>1, CallsFacts, RunsFacts DEF CallOK, Sendings
  <2>2. /\ Only(t) /\ call'[t].at = "heap" /\ call'[t].q = call[t].q /\ call'[t].wdog = call[t].wdog
    BY <1>1, <1>3, GoesFacts DEF Steps, Waitings
  <2>3. CallOK(t, call'[t])
    BY <2>1, <2>2, <1>1 DEF CallOK, Sendings
  <2>4. TimersInv'
    BY <2>2, <1>1, TimersSame DEF Only
  <2>5. SchedOK(s', call') /\ Kept(s, s')
    <3>1. SchedOK(s, call')
      BY <2>1, <2>2, <1>1, SchedSame DEF Only, Inside, Waitings
    <3> QED BY <3>1, <1>1 DEF Kept
  <2>6. \A p \in Queues : /\ ~ReceiverComes(call[t], None, pterrno[t], p)
                          /\ SenderComes(call[t], None, pterrno[t], p)
                               => SenderComes(call'[t], None, pterrno'[t], p)
    BY <2>2, <1>1 DEF SenderComes, ReceiverComes
  <2>7. FillsOn(call[t], call'[t])
    <3>1. Roomy(call'[t]) => Roomy(call[t])
      BY <2>2 DEF Roomy
    <3> QED BY <3>1, <2>2, <1>1, StillFilling
  <2> QED BY <2>2, <2>3, <2>4, <2>5, <2>6, <2>7, <1>1, OneTask
<1> QED BY <1>1, <1>2, <1>3

(* A step that changes the scheduler only, and no wait for a queue.        *)
LEMMA SchedOnly ==
  ASSUME MqInv, SchedOK(s', call), Kept(s, s'), s.panic = {},
         UNCHANGED <<g, queuevars, pterrno, call, parm, isr>>
  PROVE  MqInv'
<1>1. /\ call' = call /\ pterrno' = pterrno /\ msglist' = msglist /\ msgwaitq' = msgwaitq
      /\ nwaitnotempty' = nwaitnotempty /\ nwaitnotfull' = nwaitnotfull
  BY DEF queuevars
<1>2. CallsInv'
  <2>1. \A x \in Tasks : Untouched(x)
    BY <1>1 DEF Untouched, Kept
  <2> QED BY <2>1, <1>1, CallsFacts, CallsPart
<1>3. TimersInv'
  BY <1>1, TimersSame
<1>4. CountsInv'
  <2>1. ASSUME NEW st \in MqStates, NEW n, Counted(s, msgwaitq, n, st)
        PROVE  Counted(s', msgwaitq, n, st)
    <3>1. \A x \in Tasks : s'.task_state[x] = st <=> s.task_state[x] = st
      BY DEF Kept
    <3> QED BY <2>1, <3>1, CountsStay
  <2> QED BY <2>1, <1>1 DEF MqInv, CountsInv, MqStates
<1>5. WakeupsInv'
  BY <1>1 DEF MqInv, WakeupsInv, ReceiversWoken, SendersWoken, ReceiversComing, SendersComing
<1>6. FillInv'
  <2>1. \A x \in Tasks : FillsOn(call[x], call'[x])
    BY <1>1, NotFilling
  <2> QED BY <2>1, <1>1, <1>2, FillSame
<1> QED BY <1>2, <1>3, <1>4, <1>5, <1>6 DEF MqInv

(* The sender waits for the mutex of the heap.                             *)
LEMMA HeapBlocksGood ==
  ASSUME MqInv, NEW t \in Tasks, HeapBlocks(t)
  PROVE  MqInv'
<1>1. /\ t \in Tasks \ {Idle} /\ Runs(t) /\ call[t].at = "heap" /\ Running(s) = t /\ s.panic = {}
      /\ s' = up_block_task(s, t, "WAIT_SEM")
      /\ UNCHANGED <<g, queuevars, pterrno, call, parm, isr>>
  BY CallAtFacts, RunsFacts DEF HeapBlocks
<1>2. SchedOK(s', call) /\ Kept(s, s')
  BY <1>1, CallsFacts, SchedHeapBlocks
<1> QED BY <1>1, <1>2, SchedOnly

(* It is given the mutex.                                                  *)
LEMMA HeapFreedGood ==
  ASSUME MqInv, NEW x \in Tasks, HeapFreed(x)
  PROVE  MqInv'
<1>1. /\ call[x].at = "heap" /\ s.task_state[x] = "WAIT_SEM" /\ s.panic = {}
      /\ s' = up_unblock_task(s, x) /\ UNCHANGED <<g, queuevars, pterrno, call, parm, isr>>
  BY DEF HeapFreed
<1>2. x \in Tasks \ {Idle}
  BY <1>1, CallsFacts DEF CallOK
<1>3. SchedOK(s', call) /\ Kept(s, s')
  BY <1>1, <1>2, CallsFacts, SchedHeapFreed
<1> QED BY <1>1, <1>3, SchedOnly

(* It allocates, which may fail.                                           *)
LEMMA HeapAllocatesGood ==
  ASSUME MqInv, NEW t \in Tasks, HeapAllocates(t)
  PROVE  MqInv'
<1>1. /\ t \in Tasks \ {Idle} /\ t \in Tasks /\ Runs(t) /\ call[t].at = "heap"
      /\ UNCHANGED <<g, queuevars, pterrno, parm, isr>>
      /\ \/ Gets(t, "DYN") /\ s' = s
         \/ s' = PanicUnless(s, FALSE, "OUTOFMESSAGES") /\ call' = call
  BY CallAtFacts DEF HeapAllocates
<1>2. CASE Gets(t, "DYN") /\ s' = s
  BY <1>1, <1>2, GetsGood
<1>3. CASE s' = PanicUnless(s, FALSE, "OUTOFMESSAGES") /\ call' = call
  <2>1. SchedOK(s', call') /\ Kept(s, s') /\ s'.panic # {}
    BY <1>3, CallsFacts, SchedPanics
  <2>2. Only(t) /\ CallOK(t, call'[t])
    BY <1>1, <1>3, CallsFacts DEF Only
  <2>3. TimersInv'
    BY <1>1, <1>3, TimersSame
  <2>4. FillsOn(call[t], call'[t]) /\ UNCHANGED queuevars
    BY <1>1, <1>3, NotFilling
  <2>5. \A p \in Queues : ~ReceiverComes(call[t], None, pterrno[t], p)
    BY <1>1 DEF ReceiverComes
  <2> QED BY <2>1, <2>2, <2>3, <2>4, <2>5, <1>1, OneTask
<1> QED BY <1>1, <1>2, <1>3

(* mq_doreceive frees the message and looks at the count of senders: the   *)
(* place it made is theirs, or nobody waits for it.                        *)
LEMMA ReceiveFreesGood ==
  ASSUME MqInv, NEW t \in Tasks, ReceiveFrees(t)
  PROVE  MqInv'
<1> DEFINE q == call[t].q
           at == IF nwaitnotfull[q] > 0 THEN "wakesender" ELSE "unlock"
           r == [call[t] EXCEPT !.msg = None, !.at = at]
<1>1. /\ t \in Tasks \ {Idle} /\ t \in Tasks /\ Runs(t) /\ call[t].at = "doreceive"
      /\ UNCHANGED <<s, g, queuevars, pterrno, parm, isr>>
  BY CallAtFacts DEF ReceiveFrees
<1>2. q \in Queues /\ call \in [Tasks -> MqCalls] /\ call[t] \in MqCalls
  BY <1>1, CallsFacts DEF CallOK, Sendings
<1>3. call' = [call EXCEPT ![t] = r]
  BY <1>2 DEF ReceiveFrees
<1>4. at \in {"wakesender", "unlock"} /\ (at = "unlock" => nwaitnotfull[q] = 0)
  <2>1. nwaitnotfull[q] \in Nat
    BY <1>2 DEF MqInv, CountsInv, Counted
  <2> QED BY <2>1
<1> HIDE DEF at
<1>5. r \in MqCalls /\ r.at = at /\ r.q = q /\ r.wdog = call[t].wdog
  BY <1>2, <1>4 DEF MqCalls, Steps, Inside
<1> HIDE DEF r
<1>6. Only(t) /\ call'[t] = r
  BY <1>1, <1>3, <1>5, SetsCall
<1>7. CallOK(t, call'[t])
  BY <1>1, <1>2, <1>4, <1>5, <1>6 DEF CallOK, Sendings
<1>8. TimersInv'
  BY <1>1, <1>5, <1>6, TimersSame DEF Only
<1>9. SchedOK(s', call') /\ Kept(s, s')
  BY <1>1, <1>4, <1>5, <1>6, CallGoesOn DEF Inside
<1>10. \A p \in Queues : SenderComes(call[t], None, pterrno[t], p)
                           => \/ SenderComes(call'[t], None, pterrno'[t], p)
                              \/ nwaitnotfull[p] = 0
  BY <1>4, <1>5, <1>6 DEF SenderComes
<1>11. \A p \in Queues : ~ReceiverComes(call[t], None, pterrno[t], p)
  BY <1>1 DEF ReceiverComes
<1>12. UNCHANGED queuevars /\ FillsOn(call[t], call'[t])
  BY <1>1, <1>4, <1>5, <1>6, NotFilling
<1> QED BY <1>1, <1>6, <1>7, <1>8, <1>9, <1>10, <1>11, <1>12, OneTask

(* The sched_unlock at the end of a call.                                  *)
LEMMA UnlocksGood ==
  ASSUME MqInv, NEW t \in Tasks, Unlocks(t)
  PROVE  MqInv'
<1> DEFINE r == IF call[t].wdog = None THEN User ELSE [call[t] EXCEPT !.at = "delete"]
<1>1. /\ t \in Tasks \ {Idle} /\ t \in Tasks /\ Runs(t) /\ call[t].at = "unlock"
      /\ s' = sched_unlock(s) /\ UNCHANGED <<g, queuevars, pterrno, parm, isr>>
  BY CallAtFacts DEF Unlocks
<1>2. /\ call \in [Tasks -> MqCalls] /\ call[t] \in MqCalls /\ SchedOK(s, call) /\ Running(s) = t
  BY <1>1, CallsFacts, RunsFacts
<1>3. call' = [call EXCEPT ![t] = r]
  BY <1>2 DEF Unlocks
<1>4. /\ r \in MqCalls /\ r.at \in {"user", "delete"} /\ r.wdog = call[t].wdog
      /\ r.at = "delete" => r.wdog \in Wdogs
  BY <1>2, UserFacts DEF MqCalls, Steps
<1> HIDE DEF r
<1>5. Only(t) /\ call'[t] = r
  BY <1>1, <1>3, <1>4, SetsCall
<1>6. CallOK(t, call'[t])
  BY <1>1, <1>4, <1>5 DEF CallOK, Sendings
<1>7. TimersInv'
  BY <1>1, <1>4, <1>5, TimersSame DEF Only
<1>8. SchedOK(s', call') /\ Kept(s, s')
  <2>1. /\ call[t].at \in Inside /\ call'[t].at \notin Inside \cup Waitings
        /\ \A x \in Tasks \ {t} : call'[x] = call[x]
    BY <1>1, <1>4, <1>5 DEF Inside, Waitings, Only
  <2> QED BY <2>1, <1>1, <1>2, SchedUnlocks
<1>9. \A p \in Queues : /\ ~ReceiverComes(call[t], None, pterrno[t], p)
                        /\ ~SenderComes(call[t], None, pterrno[t], p)
  BY <1>1 DEF ReceiverComes, SenderComes
<1>10. UNCHANGED queuevars /\ FillsOn(call[t], call'[t])
  BY <1>1, <1>4, <1>5, NotFilling
<1> QED BY <1>1, <1>5, <1>6, <1>7, <1>8, <1>9, <1>10, OneTask

(* The wd_delete at the end of a timed call.                               *)
LEMMA DeletesGood ==
  ASSUME MqInv, NEW t \in Tasks, Deletes(t)
  PROVE  MqInv'
<1>1. /\ t \in Tasks \ {Idle} /\ t \in Tasks /\ Runs(t) /\ call[t].at = "delete" /\ ~isr
      /\ g' = wd_delete(g, call[t].wdog) /\ call' = [call EXCEPT ![t] = User]
      /\ UNCHANGED <<s, queuevars, pterrno, parm, isr>>
  BY CallAtFacts, RunsFacts DEF Deletes
<1>2. call[t].wdog \in Wdogs /\ SchedOK(s, call) /\ Running(s) = t
  BY <1>1, CallsFacts, RunsFacts DEF CallOK, Sendings
<1>3. Only(t) /\ call'[t] = User
  BY <1>1, UserFacts, SetsCall
<1>4. \A x \in Tasks \ {t} : call'[x] = call[x]
  BY <1>3 DEF Only
<1>5. TimersInv'
  BY <1>1, <1>2, <1>3, <1>4, UserFacts, DeletesTimer
<1>6. SchedOK(s', call') /\ Kept(s, s')
  <2>1. call[t].at \notin Inside \cup Waitings /\ call'[t].at \notin Inside \cup Waitings
    BY <1>1, <1>3, UserFacts DEF Inside, Waitings
  <2>2. SchedOK(s, call')
    BY <2>1, <1>2, <1>4, SchedSame
  <2> QED BY <2>2, <1>1 DEF Kept
<1>7. \A p \in Queues : /\ ~ReceiverComes(call[t], None, pterrno[t], p)
                        /\ ~SenderComes(call[t], None, pterrno[t], p)
  BY <1>1 DEF ReceiverComes, SenderComes
<1>8. UNCHANGED queuevars /\ FillsOn(call[t], call'[t]) /\ CallOK(t, call'[t])
  BY <1>1, <1>3, UserFacts, NotFilling
<1> QED BY <1>1, <1>3, <1>5, <1>6, <1>7, <1>8, OneTask

-----------------------------------------------------------------------------
(* The invariant holds when the system starts, and every step keeps it.    *)

(* At the start no task is in a call and the queues are empty.             *)
LEMMA MqInitInv ==
  ASSUME Scheduled, MqInit
  PROVE  MqInv
<1>1. /\ g = wd_initialize /\ msglist = [q \in Queues |-> <<>>]
      /\ nwaitnotempty = [q \in Queues |-> 0] /\ nwaitnotfull = [q \in Queues |-> 0]
      /\ msgwaitq = [t \in Tasks |-> None] /\ pterrno = [t \in Tasks |-> "OK"]
      /\ call = [t \in Tasks |-> User] /\ isr = FALSE
      /\ parm = [w \in Wdogs |-> [pid |-> Idle, state |-> "WAIT_MQNOTEMPTY"]]
  BY DEF MqInit
<1>2. /\ Sound(s) /\ s.panic = {} /\ \A t \in Tasks : s.lockcount[t] = 0
      /\ \A t \in Tasks : s.task_state[t] \notin MqStates
  BY DEF Scheduled, Sound, WellFormed, MqStates
<1>3. CallsInv
  <2>1. /\ call \in [Tasks -> MqCalls] /\ pterrno \in [Tasks -> Errnos]
        /\ msgwaitq \in [Tasks -> Queues \cup {None}]
    BY <1>1, UserFacts DEF Errnos
  <2>2. ASSUME NEW t \in Tasks
        PROVE  /\ CallOK(t, call[t]) /\ LockOK(s, t, call[t])
               /\ WaitOK(s, t, call[t], msgwaitq[t], pterrno[t])
    <3>1. CallOK(t, call[t]) /\ call[t].at = "user" /\ msgwaitq[t] = None
      BY <1>1, UserFacts
    <3> QED BY <3>1, <1>2 DEF LockOK, WaitOK, Inside, Waitings, MqStates
  <2> QED BY <2>1, <2>2, <1>2 DEF CallsInv
<1>4. TimersInv
  <2>1. \A t \in Tasks : call[t].wdog \notin Wdogs
    BY <1>1, UserFacts, MqAssumption
  <2>2. Owned(call, g)
    BY <2>1 DEF Owned
  <2>3. parm \in [Wdogs -> [pid : Tasks, state : MqStates]]
    BY <1>1, IdleAssumption DEF MqStates
  <2>4. WdSound(g) /\ ~Expired(g)
    BY <1>1, InitSound
  <2> QED BY <2>2, <2>3, <2>4, <1>1 DEF TimersInv
<1>5. CountsInv
  <2>1. ASSUME NEW st \in MqStates PROVE Counted(s, msgwaitq, [q \in Queues |-> 0], st)
    <3>1. \A q \in Queues : Waiters(s, msgwaitq, q, st) = {}
      BY <1>2 DEF Waiters
    <3>2. Cardinality({}) = 0
      BY FS_EmptySet
    <3> QED BY <3>1, <3>2 DEF Counted
  <2> QED BY <2>1, <1>1 DEF CountsInv, MqStates
<1>6. WakeupsInv
  BY <1>1 DEF WakeupsInv, ReceiversWoken, SendersWoken
<1>7. FillInv
  <2>1. msglist \in [Queues -> Seq(Messages)]
    BY <1>1
  <2>2. ASSUME NEW q \in Queues
        PROVE  Cardinality(Own(msglist[q])) + Cardinality(Filling(q))
                 < MaxMsgs + Cardinality(SendingTasks)
    <3>1. Own(msglist[q]) = {} /\ Filling(q) = {}
      BY <1>1, UserFacts DEF Own, Filling, Fills
    <3>2. Cardinality({}) = 0 /\ MaxMsgs \in Nat \ {0}
      BY FS_EmptySet, MqAssumption
    <3>3. Cardinality(SendingTasks) \in Nat
      BY TaskSets DEF SendingTasks
    <3> QED BY <3>1, <3>2, <3>3
  <2>3. \A t \in Tasks : ~Roomy(call[t])
    BY <1>1, UserFacts DEF Roomy
  <2> QED BY <2>1, <2>2, <2>3 DEF FillInv
<1> QED BY <1>3, <1>4, <1>5, <1>6, <1>7 DEF MqInv

(* Every action keeps the invariant.                                       *)
LEMMA MqStepInv ==
  ASSUME MqInv, [MqNext]_mqvars
  PROVE  MqInv'
<1>1. ASSUME NEW t \in Tasks, SendStep(t) PROVE MqInv'
  <2>1. ASSUME NEW q \in Queues, NEW p \in Prios, mq_send(t, q, p) PROVE MqInv'
    BY <2>1, SendGood
  <2>2. ASSUME NEW q \in Queues, NEW p \in Prios, TimedCall(t, "timedsend", q, p) PROVE MqInv'
    <3>1. p \in Nat /\ "timedsend" \in {"timedsend", "timedreceive"}
      BY MqAssumption
    <3> QED BY <2>2, <3>1, TimedCallGood
  <2>3. ASSUME NEW ticks \in Timeouts, mq_timedsend(t, ticks) PROVE MqInv'
    BY <2>3, TimedsendGood
  <2> QED BY <1>1, <2>1, <2>2, <2>3, SendResumesGood, SendAllocatesGood, HeapBlocksGood,
             HeapAllocatesGood, SendInsertsGood, SendWakesGood DEF SendStep
<1>2. ASSUME NEW t \in Tasks, ReceiveStep(t) PROVE MqInv'
  <2>1. ASSUME NEW q \in Queues, mq_receive(t, q) PROVE MqInv'
    BY <2>1, ReceiveGood
  <2>2. ASSUME NEW q \in Queues, TimedCall(t, "timedreceive", q, 0) PROVE MqInv'
    <3>1. 0 \in Nat /\ "timedreceive" \in {"timedsend", "timedreceive"}
      OBVIOUS
    <3> QED BY <2>2, <3>1, TimedCallGood
  <2>3. ASSUME NEW ticks \in Timeouts, mq_timedreceive(t, ticks) PROVE MqInv'
    BY <2>3, TimedreceiveGood
  <2> QED BY <1>2, <2>1, <2>2, <2>3, ReceiveResumesGood, ReceiveFreesGood, ReceiveWakesGood
          DEF ReceiveStep
<1>3. ASSUME NEW t \in Tasks, Unlocks(t) \/ Deletes(t) PROVE MqInv'
  BY <1>3, UnlocksGood, DeletesGood
<1>4. ASSUME NEW q \in Queues, NEW p \in Prios, InterruptSends(q, p) PROVE MqInv'
  BY <1>4, InterruptSendsGood
<1>5. ASSUME NEW x \in Tasks, Signal(x) \/ HeapFreed(x) PROVE MqInv'
  BY <1>5, SignalGood, HeapFreedGood
<1>6. CASE TimerBegins \/ Timeout \/ TimerEnds
  BY <1>6, TimerBeginsGood, TimeoutGood, TimerEndsGood
<1>7. CASE UNCHANGED mqvars
  <2>1. TimersInv'
    BY <1>7, TimersSame DEF mqvars
  <2> QED BY <2>1, <1>7, TimerOnly DEF mqvars, queuevars
<1> QED BY <1>1, <1>2, <1>3, <1>4, <1>5, <1>6, <1>7 DEF MqNext

(* MqInv is an invariant.                                                  *)
LEMMA MqInvAlways == MqSpec => []MqInv
<1>1. Scheduled /\ MqInit => MqInv
  BY MqInitInv
<1>2. MqInv /\ [MqNext]_mqvars => MqInv'
  BY MqStepInv
<1> QED BY <1>1, <1>2, PTL DEF MqSpec

-----------------------------------------------------------------------------
(* nwaitnotempty and nwaitnotfull count the waiting tasks, and msgwaitq is *)
(* set exactly while a task waits, whatever ends the waits of mq_send,     *)
(* mq_receive and the timed calls.                                         *)
THEOREM WaitersCountedAlways == MqSpec => []WaitersCounted
<1>1. MqInv => WaitersCounted
  <2> SUFFICES ASSUME MqInv PROVE WaitersCounted
    OBVIOUS
  <2>1. \A q \in Queues : /\ nwaitnotempty[q] = Cardinality(WaitsFor(q, "WAIT_MQNOTEMPTY"))
                          /\ nwaitnotfull[q] = Cardinality(WaitsFor(q, "WAIT_MQNOTFULL"))
    BY DEF MqInv, CountsInv, Counted, Waiters, WaitsFor
  <2>2. \A t \in Tasks : msgwaitq[t] # None <=> s.task_state[t] \in {"WAIT_MQNOTEMPTY", "WAIT_MQNOTFULL"}
    BY CallsFacts DEF WaitOK, MqStates
  <2> QED BY <2>1, <2>2 DEF WaitersCounted
<1> QED BY <1>1, MqInvAlways, PTL

(* No wakeup is lost: the messages of a queue that receivers wait for, and *)
(* the free places of one that senders wait for, have tasks on their way   *)
(* to them, although mq_doreceive and mq_dosend wake one task at a time    *)
(* and that task may be overtaken.                                         *)
THEOREM NoLostWakeupAlways == MqSpec => []NoLostWakeup
<1>1. MqInv => NoLostWakeup
  <2> SUFFICES ASSUME MqInv, NEW q \in Queues
               PROVE  /\ nwaitnotempty[q] > 0 =>
                           nmsgs(q) <= Cardinality(Under(q, "waitreceive") \cup Under(q, "wakereceiver"))
                      /\ nwaitnotfull[q] > 0 /\ s.panic = {} =>
                           MaxMsgs - nmsgs(q)
                             <= Cardinality(Under(q, "waitsend") \cup Under(q, "alloc") \cup Under(q, "heap")
                                            \cup Under(q, "dosend") \cup Under(q, "doreceive")
                                            \cup Under(q, "wakesender"))
    BY DEF NoLostWakeup
  <2> DEFINE R == Under(q, "waitreceive") \cup Under(q, "wakereceiver")
             S == Under(q, "waitsend") \cup Under(q, "alloc") \cup Under(q, "heap")
                  \cup Under(q, "dosend") \cup Under(q, "doreceive") \cup Under(q, "wakesender")
  <2>1. \A t \in Tasks : call[t].at \in Inside \cup {"heap"} => msgwaitq[t] = None
    BY CallsFacts DEF WaitOK, MqStates, Inside
  <2>2. ReceiversComing(q) \subseteq R /\ R \in SUBSET Tasks
    BY <2>1 DEF ReceiversComing, ReceiverComes, Under, Inside
  <2>3. SendersComing(q) \subseteq S /\ S \in SUBSET Tasks
    BY <2>1 DEF SendersComing, SenderComes, Under, Inside
  <2> HIDE DEF R, S
  <2>4. ReceiversComing(q) \in SUBSET Tasks /\ SendersComing(q) \in SUBSET Tasks
    BY DEF ReceiversComing, SendersComing
  <2>5. Cardinality(ReceiversComing(q)) <= Cardinality(R)
    BY <2>2, <2>4, CardGrows
  <2>6. Cardinality(SendersComing(q)) <= Cardinality(S)
    BY <2>3, <2>4, CardGrows
  <2>7. /\ Cardinality(ReceiversComing(q)) \in Nat /\ Cardinality(R) \in Nat
        /\ Cardinality(SendersComing(q)) \in Nat /\ Cardinality(S) \in Nat
    BY <2>2, <2>3, <2>4, TaskSets
  <2>8. Len(msglist[q]) \in Nat /\ MaxMsgs \in Nat
    BY CallsFacts, LenProperties, MqAssumption
  <2>9. /\ nwaitnotempty[q] > 0 => Len(msglist[q]) <= Cardinality(ReceiversComing(q))
        /\ nwaitnotfull[q] > 0 /\ s.panic = {} =>
             MaxMsgs - Len(msglist[q]) <= Cardinality(SendersComing(q))
    BY DEF MqInv, WakeupsInv, ReceiversWoken, SendersWoken
  <2>10. /\ nwaitnotempty[q] > 0 => nmsgs(q) <= Cardinality(R)
         /\ nwaitnotfull[q] > 0 /\ s.panic = {} => MaxMsgs - nmsgs(q) <= Cardinality(S)
    BY <2>5, <2>6, <2>7, <2>8, <2>9 DEF nmsgs
  <2> QED BY <2>10 DEF R, S
<1> QED BY <1>1, MqInvAlways, PTL

(* A sender that takes its message from g_msgfree keeps the place it found *)
(* until mq_dosend: mq_waitsend looks again when it is woken, and the lock *)
(* keeps others away.  One that waits in kmalloc does not, and maxmsgs is  *)
(* exceeded, by less than the number of tasks that send.                   *)
THEOREM NeverOverfilledAlways == MqSpec => []NeverOverfilled
<1>1. MqInv => NeverOverfilled
  <2> SUFFICES ASSUME MqInv, NEW q \in Queues
               PROVE  /\ \A t \in Tasks : call[t].q = q /\ call[t].at = "dosend" /\ call[t].msg.type = "FIXED"
                                            => Cardinality(Sent(q)) < MaxMsgs
                      /\ Cardinality(Sent(q)) < MaxMsgs + Cardinality(SendingTasks)
    BY DEF NeverOverfilled
  <2>1. Sent(q) = Own(msglist[q])
    BY DEF Sent, Own
  <2>2. \A t \in Tasks : call[t].q = q /\ call[t].at = "dosend" /\ call[t].msg.type = "FIXED"
                           => Cardinality(Sent(q)) < MaxMsgs
    BY <2>1 DEF MqInv, FillInv, Roomy
  <2>3. Cardinality(Sent(q)) + Cardinality(Filling(q)) < MaxMsgs + Cardinality(SendingTasks)
    BY <2>1 DEF MqInv, FillInv
  <2>4. /\ Cardinality(Sent(q)) \in Nat /\ Cardinality(Filling(q)) \in Nat
        /\ Cardinality(SendingTasks) \in Nat /\ MaxMsgs \in Nat
    BY <2>1, FillTypes DEF MqInv
  <2> QED BY <2>2, <2>3, <2>4
<1> QED BY <1>1, MqInvAlways, PTL

(* The only assertions of the queues and of the scheduler below them that  *)
(* can fail: mq_msgalloc out of memory, and nwaitnotfull read by           *)
(* mq_doreceive with interrupts enabled.  mq_dosend always finds the       *)
(* receiver it counted, and no lock count overflows.                       *)
THEOREM MqAssertsHold == MqSpec => [](s.panic \subseteq {"OUTOFMESSAGES", "MQNOTFULLCOUNT"})
<1>1. MqInv => s.panic \subseteq {"OUTOFMESSAGES", "MQNOTFULLCOUNT"}
  BY DEF MqInv, CallsInv
<1> QED BY <1>1, MqInvAlways, PTL


-----------------------------------------------------------------------------
(* The queues as PriorityQueue sees them.  A queue keeps its messages in   *)
(* the order of their priorities, so those of one priority are next to     *)
(* each other, and OfPrio is a block of the list.                          *)
Descends(l) == \A i, j \in DOMAIN l : i < j => l[i].prio >= l[j].prio

Block(l, b, n) == [k \in 1 .. n |-> l[b + k - 1].from]

PqSenders == Tasks \cup {Handler}

(* The messages of priority p are the n ones from position b.              *)
Spans(l, p, b, n) ==
  /\ b \in 1 .. Len(l) + 1 /\ n \in Nat /\ b + n <= Len(l) + 1
  /\ \A i \in 1 .. Len(l) : l[i].prio = p <=> b <= i /\ i < b + n

(* OfPrio is that block.                                                   *)
LEMMA BlockIs ==
  ASSUME NEW l \in Seq(Messages), NEW p, NEW b, NEW n, Spans(l, p, b, n)
  PROVE  /\ OfPrio(l, p) = Block(l, b, n) /\ Block(l, b, n) \in Seq(PqSenders)
         /\ Len(Block(l, b, n)) = n
         /\ \A k \in 1 .. n : Block(l, b, n)[k] = l[b + k - 1].from
<1> DEFINE D == b .. b + n - 1
<1>1. /\ Len(l) \in Nat /\ DOMAIN l = 1 .. Len(l) /\ b \in Int /\ n \in Nat /\ b >= 1 /\ b + n <= Len(l) + 1
      /\ Positions(l, p) = D
  <2>1. /\ Len(l) \in Nat /\ DOMAIN l = 1 .. Len(l) /\ b \in Int /\ n \in Nat /\ b >= 1 /\ b + n <= Len(l) + 1
    BY LenProperties DEF Spans
  <2>2. \A i : i \in Positions(l, p) => i \in D
    BY <2>1 DEF Spans, Positions
  <2>3. \A i : i \in D => i \in Positions(l, p)
    BY <2>1 DEF Spans, Positions
  <2> HIDE DEF D
  <2>4. Positions(l, p) = D
    BY <2>2, <2>3, Zenon
  <2> QED BY <2>1, <2>4
<1>2. \A c \in Int : c >= b - 1 => Cardinality(b .. c) = c - b + 1
  <2> TAKE c \in Int
  <2>1. Cardinality(b .. c) = IF b > c THEN 0 ELSE c - b + 1
    BY <1>1, FS_Interval
  <2> QED BY <2>1, <1>1
<1>3. Cardinality(D) = n
  <2>1. b + n - 1 \in Int /\ b + n - 1 >= b - 1 /\ (b + n - 1) - b + 1 = n
    BY <1>1
  <2> QED BY <2>1, <1>2
<1>4. \A i \in D : {j \in D : j <= i} = b .. i
  BY <1>1
<1>5. \A i \in D : Cardinality({j \in D : j <= i}) = i - b + 1
  <2> TAKE i \in D
  <2>1. i \in Int /\ i >= b - 1
    BY <1>1
  <2> QED BY <2>1, <1>2, <1>4
<1>6. ASSUME NEW k \in 1 .. n
      PROVE  Nth(D, k) = b + k - 1
  <2>1. b + k - 1 \in D /\ Cardinality({j \in D : j <= b + k - 1}) = k
    <3>1. b + k - 1 \in D /\ (b + k - 1) - b + 1 = k
      BY <1>1
    <3> QED BY <3>1, <1>5
  <2>2. ASSUME NEW i \in D, Cardinality({j \in D : j <= i}) = k PROVE i = b + k - 1
    <3>1. i - b + 1 = k /\ i \in Int
      BY <2>2, <1>1, <1>5
    <3> QED BY <3>1, <1>1
  <2> HIDE DEF D
  <2> QED BY <2>1, <2>2 DEF Nth
<1>7. OfPrio(l, p) = [k \in 1 .. Cardinality(D) |-> l[Nth(D, k)].from]
  <2> HIDE DEF D
  <2> QED BY <1>1 DEF OfPrio
<1>8. OfPrio(l, p) = Block(l, b, n)
  <2> HIDE DEF D
  <2> QED BY <1>3, <1>6, <1>7 DEF Block
<1>9. \A k \in 1 .. n : l[b + k - 1].from \in PqSenders
  <2> TAKE k \in 1 .. n
  <2>1. b + k - 1 \in 1 .. Len(l)
    BY <1>1
  <2>2. l[b + k - 1] \in Messages
    BY <2>1, ElementOfSeq
  <2> QED BY <2>2 DEF Messages, PqSenders
<1>10. Block(l, b, n) \in [1 .. n -> PqSenders]
  BY <1>9 DEF Block
<1>11. Block(l, b, n) \in Seq(PqSenders) /\ Len(Block(l, b, n)) = n
  BY <1>1, <1>10, SeqDef
<1> QED BY <1>8, <1>11 DEF Block

(* In a list in order there is such a block for every priority.            *)
LEMMA BlockExists ==
  ASSUME NEW l \in Seq(Messages), Descends(l), NEW p \in Nat
  PROVE  \E b, n : /\ Spans(l, p, b, n)
                   /\ \A i \in DOMAIN l : (i < b <=> l[i].prio > p) /\ (i >= b + n <=> l[i].prio < p)
<1> DEFINE B == {i \in DOMAIN l : l[i].prio <= p} \cup {Len(l) + 1}
           E == {i \in DOMAIN l : l[i].prio < p} \cup {Len(l) + 1}
<1>1. /\ Len(l) \in Nat /\ DOMAIN l = 1 .. Len(l)
      /\ \A i \in DOMAIN l : i \in Nat /\ l[i].prio \in Nat
  <2>1. Len(l) \in Nat /\ DOMAIN l = 1 .. Len(l)
    BY LenProperties
  <2>2. \A i \in 1 .. Len(l) : l[i] \in Messages
    BY ElementOfSeq
  <2> QED BY <2>1, <2>2 DEF Messages
<1>2. B \in SUBSET Nat /\ B # {} /\ E \in SUBSET Nat /\ E # {} /\ E \subseteq B /\ B \subseteq 1 .. Len(l) + 1
  BY <1>1
<1>3. PICK b \in B : \A k \in B : b <= k
  <2> HIDE DEF B
  <2> QED BY <1>2, LeastNatural
<1>4. PICK e \in E : \A k \in E : e <= k
  <2> HIDE DEF E
  <2> QED BY <1>2, LeastNatural
<1>5. b \in 1 .. Len(l) + 1 /\ e \in 1 .. Len(l) + 1 /\ b <= e
  BY <1>2, <1>3, <1>4
<1>6. \A i \in DOMAIN l : i < b <=> l[i].prio > p
  <2> TAKE i \in DOMAIN l
  <2>1. CASE i < b
    <3>1. i \notin B
      BY <2>1, <1>1, <1>3, <1>5
    <3> QED BY <2>1, <3>1, <1>1
  <2>2. CASE ~(i < b)
    <3>1. b \in DOMAIN l /\ l[b].prio <= p
      BY <2>2, <1>1, <1>3, <1>5
    <3>2. l[i].prio <= l[b].prio
      BY <2>2, <3>1, <1>1 DEF Descends
    <3> QED BY <2>2, <3>1, <3>2, <1>1
  <2> QED BY <2>1, <2>2
<1>7. \A i \in DOMAIN l : i >= e <=> l[i].prio < p
  <2> TAKE i \in DOMAIN l
  <2>1. CASE i < e
    <3>1. i \notin E
      BY <2>1, <1>1, <1>4, <1>5
    <3> QED BY <2>1, <3>1, <1>1, <1>5
  <2>2. CASE ~(i < e)
    <3>1. e \in DOMAIN l /\ l[e].prio < p
      BY <2>2, <1>1, <1>4, <1>5
    <3>2. l[i].prio <= l[e].prio
      BY <2>2, <3>1, <1>1 DEF Descends
    <3> QED BY <2>2, <3>1, <3>2, <1>1, <1>5
  <2> QED BY <2>1, <2>2
<1>8. e - b \in Nat /\ b + (e - b) = e
  BY <1>5
<1>9. \A i \in 1 .. Len(l) : l[i].prio = p <=> b <= i /\ i < b + (e - b)
  <2> TAKE i \in 1 .. Len(l)
  <2>1. l[i].prio \in Nat /\ p \in Nat /\ i \in Nat /\ b \in Nat /\ e \in Nat
    BY <1>1, <1>5
  <2>2. (i < b <=> l[i].prio > p) /\ (i >= e <=> l[i].prio < p)
    BY <1>1, <1>6, <1>7
  <2> HIDE DEF B, E
  <2> QED BY <2>1, <2>2
<1>10. Spans(l, p, b, e - b)
  <2>1. Len(l) \in Nat /\ b + (e - b) <= Len(l) + 1
    BY <1>1, <1>5
  <2> HIDE DEF B, E
  <2> QED BY <2>1, <1>5, <1>8, <1>9 DEF Spans
<1>11. \A i \in DOMAIN l : (i < b <=> l[i].prio > p) /\ (i >= b + (e - b) <=> l[i].prio < p)
  BY <1>6, <1>7, <1>8
<1> QED BY <1>10, <1>11


(* The block of r is that of l and m's sender behind it.                   *)
LEMMA BlockAppended ==
  ASSUME NEW l \in Seq(Messages), NEW r \in Seq(Messages), NEW p, NEW b, NEW n,
         Spans(l, p, b, n), Spans(r, p, b, n + 1),
         \A i \in b .. b + n - 1 : r[i] = l[i]
  PROVE  OfPrio(r, p) = Append(OfPrio(l, p), r[b + n].from)
<1>1. n \in Nat /\ n + 1 \in Nat /\ b \in Nat
  BY LenProperties DEF Spans
<1>2. /\ OfPrio(l, p) = Block(l, b, n) /\ Block(l, b, n) \in Seq(PqSenders) /\ Len(Block(l, b, n)) = n
      /\ \A k \in 1 .. n : Block(l, b, n)[k] = l[b + k - 1].from
  BY BlockIs
<1>3. /\ OfPrio(r, p) = Block(r, b, n + 1) /\ Block(r, b, n + 1) \in Seq(PqSenders)
      /\ Len(Block(r, b, n + 1)) = n + 1
      /\ \A k \in 1 .. n + 1 : Block(r, b, n + 1)[k] = r[b + k - 1].from
  BY BlockIs
<1> DEFINE x == Block(l, b, n)
           y == Block(r, b, n + 1)
           f == r[b + n].from
<1> HIDE DEF x, y, f
<1>4. /\ x \in Seq(PqSenders) /\ Len(x) = n /\ y \in Seq(PqSenders) /\ Len(y) = n + 1
      /\ \A k \in 1 .. n : x[k] = l[b + k - 1].from
      /\ \A k \in 1 .. n + 1 : y[k] = r[b + k - 1].from
  BY <1>2, <1>3 DEF x, y
<1>5. y[n + 1] = f /\ f \in PqSenders
  <2>1. n + 1 \in 1 .. n + 1 /\ b + (n + 1) - 1 = b + n
    BY <1>1
  <2>2. y[n + 1] = f
    BY <2>1, <1>4 DEF f
  <2> QED BY <2>1, <2>2, <1>4, ElementOfSeq
<1>6. \A k \in 1 .. n : y[k] = x[k]
  <2> TAKE k \in 1 .. n
  <2>1. b + k - 1 \in b .. b + n - 1 /\ k \in 1 .. n + 1
    BY <1>1
  <2>2. r[b + k - 1] = l[b + k - 1]
    BY <2>1
  <2> QED BY <2>1, <2>2, <1>4
<1>7. /\ Append(x, f) \in Seq(PqSenders) /\ Len(Append(x, f)) = n + 1
      /\ \A k \in 1 .. n : Append(x, f)[k] = x[k]
      /\ Append(x, f)[n + 1] = f
  <2>1. /\ Append(x, f) \in Seq(PqSenders) /\ Len(Append(x, f)) = Len(x) + 1
        /\ \A k \in 1 .. Len(x) : Append(x, f)[k] = x[k]
        /\ Append(x, f)[Len(x) + 1] = f
    BY <1>4, <1>5, AppendProperties
  <2> QED BY <2>1, <1>4
<1>8. y = Append(x, f)
  <2>1. \A k \in 1 .. n + 1 : y[k] = Append(x, f)[k]
    BY <1>1, <1>5, <1>6, <1>7
  <2> QED BY <2>1, <1>4, <1>7, SeqEqual
<1> QED BY <1>2, <1>3, <1>8 DEF x, y, f

(* The block of r is that of l, d positions further on.                    *)
LEMMA BlockKept ==
  ASSUME NEW l \in Seq(Messages), NEW r \in Seq(Messages), NEW p, NEW b, NEW c, NEW n,
         Spans(l, p, b, n), Spans(r, p, c, n),
         \A k \in 1 .. n : r[c + k - 1] = l[b + k - 1]
  PROVE  OfPrio(r, p) = OfPrio(l, p)
<1>1. OfPrio(l, p) = Block(l, b, n) /\ OfPrio(r, p) = Block(r, c, n)
  BY BlockIs
<1>2. Block(r, c, n) = Block(l, b, n)
  BY DEF Block
<1> QED BY <1>1, <1>2

(* The block of r is that of l without its first element.                  *)
LEMMA BlockCut ==
  ASSUME NEW l \in Seq(Messages), NEW r \in Seq(Messages), NEW p, NEW b, NEW n,
         Spans(l, p, b, n + 1), Spans(r, p, b, n), n \in Nat,
         \A k \in 1 .. n : r[b + k - 1] = l[b + k]
  PROVE  /\ OfPrio(l, p) # <<>> /\ Head(OfPrio(l, p)) = l[b].from
         /\ OfPrio(r, p) = Tail(OfPrio(l, p))
<1>1. n \in Nat /\ n + 1 \in Nat /\ b \in Nat
  BY LenProperties DEF Spans
<1>2. /\ OfPrio(r, p) = Block(r, b, n) /\ Block(r, b, n) \in Seq(PqSenders) /\ Len(Block(r, b, n)) = n
      /\ \A k \in 1 .. n : Block(r, b, n)[k] = r[b + k - 1].from
  BY BlockIs
<1>3. /\ OfPrio(l, p) = Block(l, b, n + 1) /\ Block(l, b, n + 1) \in Seq(PqSenders)
      /\ Len(Block(l, b, n + 1)) = n + 1
      /\ \A k \in 1 .. n + 1 : Block(l, b, n + 1)[k] = l[b + k - 1].from
  BY BlockIs
<1> DEFINE x == Block(r, b, n)
           y == Block(l, b, n + 1)
<1> HIDE DEF x, y
<1>4. y \in Seq(PqSenders) /\ Len(y) = n + 1 /\ x \in Seq(PqSenders) /\ Len(x) = n
  BY <1>2, <1>3 DEF x, y
<1>5. y # <<>> /\ Head(y) = y[1]
  BY <1>1, <1>4, EmptySeq
<1>6. y[1] = l[b].from
  <2>1. 1 \in 1 .. n + 1 /\ b + 1 - 1 = b
    BY <1>1
  <2> QED BY <2>1, <1>3 DEF y
<1>7. /\ Tail(y) \in Seq(PqSenders) /\ Len(Tail(y)) = n
      /\ \A k \in 1 .. n : Tail(y)[k] = y[k + 1]
  <2>1. /\ Tail(y) \in Seq(PqSenders) /\ Len(Tail(y)) = Len(y) - 1
        /\ \A k \in 1 .. Len(Tail(y)) : Tail(y)[k] = y[k + 1]
    BY <1>4, <1>5, HeadTailProperties
  <2>2. Len(Tail(y)) = n
    BY <2>1, <1>1, <1>4
  <2> QED BY <2>1, <2>2
<1>8. \A k \in 1 .. n : x[k] = y[k + 1]
  <2> TAKE k \in 1 .. n
  <2>1. k + 1 \in 1 .. n + 1 /\ b + (k + 1) - 1 = b + k
    BY <1>1
  <2>2. y[k + 1] = l[b + k].from
    BY <2>1, <1>3 DEF y
  <2>3. x[k] = r[b + k - 1].from
    BY <1>2 DEF x
  <2> QED BY <2>2, <2>3
<1>9. x = Tail(y)
  BY <1>4, <1>7, <1>8, SeqEqual
<1> QED BY <1>2, <1>3, <1>5, <1>6, <1>9 DEF x, y


(* Behind the messages of no lower priority is the place for m.            *)
PlaceFor(l, k, m) ==
  \A i \in 1 .. Len(l) : i < k <=> l[i].prio >= m.prio

(* Inserted there, m is the last of its priority.                          *)
LEMMA InsertBlock ==
  ASSUME NEW l \in Seq(Messages), Descends(l), NEW m \in Messages,
         NEW k \in 1 .. Len(l) + 1, PlaceFor(l, k, m)
  PROVE  LET r == InsertAt(l, k, m)
         IN  /\ Descends(r)
             /\ \A p \in Nat : OfPrio(r, p) = IF p = m.prio THEN Append(OfPrio(l, p), m.from)
                                                            ELSE OfPrio(l, p)
<1> DEFINE r == InsertAt(l, k, m)
<1>1. /\ r \in Seq(Messages) /\ Len(r) = Len(l) + 1
      /\ \A i \in 1 .. Len(l) + 1 : r[i] = IF i < k THEN l[i] ELSE IF i = k THEN m ELSE l[i - 1]
  <2>1. Inserts(l, r, k, m, Messages)
    BY InsertedPositions
  <2> HIDE DEF r
  <2> QED BY <2>1, Zenon DEF Inserts
<1> HIDE DEF r
<1>2. /\ Len(l) \in Nat /\ DOMAIN l = 1 .. Len(l) /\ DOMAIN r = 1 .. Len(l) + 1 /\ k \in Int
      /\ m.prio \in Nat /\ \A i \in 1 .. Len(l) : l[i].prio \in Nat
  <2>1. Len(l) \in Nat /\ DOMAIN l = 1 .. Len(l) /\ DOMAIN r = 1 .. Len(l) + 1
    BY <1>1, LenProperties
  <2>2. \A i \in 1 .. Len(l) : l[i] \in Messages
    BY ElementOfSeq
  <2> QED BY <2>1, <2>2 DEF Messages
<1>3. Descends(r)
  <2> SUFFICES ASSUME NEW i \in 1 .. Len(l) + 1, NEW j \in 1 .. Len(l) + 1, i < j
               PROVE  r[i].prio >= r[j].prio
    BY <1>2 DEF Descends
  <2>1. \A a, c \in 1 .. Len(l) : a < c => l[a].prio >= l[c].prio
    BY <1>2 DEF Descends
  <2>2. CASE j < k
    BY <2>1, <2>2, <1>1, <1>2
  <2>3. CASE j = k
    <3>1. r[i] = l[i] /\ r[j] = m /\ i \in 1 .. Len(l) /\ i < k
      BY <2>3, <1>1, <1>2
    <3> QED BY <3>1 DEF PlaceFor
  <2>4. CASE j > k /\ i = k
    <3>1. r[i] = m /\ r[j] = l[j - 1] /\ j - 1 \in 1 .. Len(l) /\ ~(j - 1 < k)
      BY <2>4, <1>1, <1>2
    <3>2. ~(l[j - 1].prio >= m.prio)
      BY <3>1 DEF PlaceFor
    <3> QED BY <3>1, <3>2, <1>2
  <2>5. CASE j > k /\ i < k
    <3>1. r[i] = l[i] /\ i \in 1 .. Len(l) /\ r[j] = l[j - 1] /\ j - 1 \in 1 .. Len(l)
          /\ (i < j - 1 \/ i = j - 1)
      BY <2>5, <1>1, <1>2
    <3>2. CASE i < j - 1
      <4>1. l[i].prio >= l[j - 1].prio
        BY <3>1, <3>2, <2>1
      <4> QED BY <3>1, <4>1
    <3>3. CASE i = j - 1
      BY <3>1, <3>3, <1>2
    <3> QED BY <3>1, <3>2, <3>3
  <2>6. CASE j > k /\ i > k
    <3>1. r[i] = l[i - 1] /\ i - 1 \in 1 .. Len(l) /\ r[j] = l[j - 1] /\ j - 1 \in 1 .. Len(l)
          /\ i - 1 < j - 1
      BY <2>6, <1>1, <1>2
    <3> QED BY <3>1, <2>1
  <2> QED BY <2>2, <2>3, <2>4, <2>5, <2>6, <1>2
<1>4. ASSUME NEW p \in Nat
      PROVE  OfPrio(r, p) = IF p = m.prio THEN Append(OfPrio(l, p), m.from) ELSE OfPrio(l, p)
  <2>1. PICK b, n : /\ Spans(l, p, b, n)
                    /\ \A i \in DOMAIN l : (i < b <=> l[i].prio > p) /\ (i >= b + n <=> l[i].prio < p)
    BY BlockExists
  <2>2. /\ b \in 1 .. Len(l) + 1 /\ n \in Nat /\ b + n <= Len(l) + 1
        /\ \A i \in 1 .. Len(l) : l[i].prio = p <=> b <= i /\ i < b + n
        /\ \A i \in 1 .. Len(l) : (i < b <=> l[i].prio > p) /\ (i >= b + n <=> l[i].prio < p)
        /\ \A i \in 1 .. Len(l) : i < k <=> l[i].prio >= m.prio
    BY <2>1, <1>2 DEF Spans, PlaceFor
  <2>3. CASE p > m.prio
    <3>1. b + n <= k
      <4>1. CASE b + n = 1
        BY <4>1
      <4>2. CASE b + n # 1
        <5>1. b + n - 1 \in 1 .. Len(l)
          BY <4>2, <2>2, <1>2
        <5>2. ~(l[b + n - 1].prio < p)
          BY <5>1, <2>2, <1>2
        <5>3. b + n - 1 < k
          BY <5>1, <5>2, <2>2, <2>3, <1>2
        <5> QED BY <5>3, <2>2, <1>2
      <4> QED BY <4>1, <4>2
    <3>2. Spans(r, p, b, n)
      <4>1. ASSUME NEW i \in 1 .. Len(l) + 1 PROVE r[i].prio = p <=> b <= i /\ i < b + n
        <5>1. CASE i < k
          BY <5>1, <2>2, <1>1, <1>2
        <5>2. CASE i >= k
          <6>1. r[i].prio < p
            <7>1. CASE i = k
              BY <7>1, <2>3, <1>1, <1>2
            <7>2. CASE i > k
              <8>1. r[i] = l[i - 1] /\ i - 1 \in 1 .. Len(l) /\ ~(i - 1 < k)
                BY <7>2, <1>1, <1>2
              <8>2. ~(l[i - 1].prio >= m.prio) /\ l[i - 1].prio \in Nat
                BY <8>1, <2>2, <1>2
              <8> QED BY <8>1, <8>2, <2>3, <1>2
            <7> QED BY <5>2, <7>1, <7>2, <1>2
          <6> QED BY <5>2, <6>1, <3>1, <2>2, <1>2
        <5> QED BY <5>1, <5>2, <1>2
      <4> QED BY <4>1, <2>2, <1>1, <1>2 DEF Spans
    <3>3. \A j \in 1 .. n : r[b + j - 1] = l[b + j - 1]
      <4> TAKE j \in 1 .. n
      <4>1. b + j - 1 \in 1 .. Len(l) + 1 /\ b + j - 1 < k
        BY <3>1, <2>2, <1>2
      <4> QED BY <4>1, <1>1
    <3>4. OfPrio(r, p) = OfPrio(l, p)
      BY <2>1, <3>2, <3>3, <1>1, BlockKept
    <3> QED BY <3>4, <2>3, <1>2
  <2>4. CASE p < m.prio
    <3>1. k <= b
      <4>1. CASE k = 1
        BY <4>1, <2>2, <1>2
      <4>2. CASE k # 1
        <5>1. k - 1 \in 1 .. Len(l) /\ k - 1 < k
          BY <4>2, <1>2
        <5>2. l[k - 1].prio >= m.prio /\ l[k - 1].prio \in Nat
          BY <5>1, <2>2, <1>2
        <5>3. k - 1 < b
          BY <5>1, <5>2, <2>2, <2>4, <1>2
        <5> QED BY <5>3, <2>2, <1>2
      <4> QED BY <4>1, <4>2
    <3>2. Spans(r, p, b + 1, n)
      <4>1. ASSUME NEW i \in 1 .. Len(l) + 1 PROVE r[i].prio = p <=> b + 1 <= i /\ i < b + 1 + n
        <5>1. CASE i > k
          <6>1. r[i] = l[i - 1] /\ i - 1 \in 1 .. Len(l)
            BY <5>1, <1>1, <1>2
          <6>2. r[i].prio = p <=> b <= i - 1 /\ i - 1 < b + n
            BY <6>1, <2>2
          <6> QED BY <6>2, <2>2, <1>2
        <5>2. CASE i <= k
          <6>1. r[i].prio > p
            <7>1. CASE i = k
              BY <7>1, <2>4, <1>1, <1>2
            <7>2. CASE i < k
              <8>1. r[i] = l[i] /\ i \in 1 .. Len(l)
                BY <7>2, <1>1, <1>2
              <8> QED BY <8>1, <7>2, <2>2, <2>4, <1>2
            <7> QED BY <5>2, <7>1, <7>2, <1>2
          <6> QED BY <5>2, <6>1, <3>1, <2>2, <1>2
        <5> QED BY <5>1, <5>2, <1>2
      <4> QED BY <4>1, <2>2, <1>1, <1>2 DEF Spans
    <3>3. \A j \in 1 .. n : r[b + 1 + j - 1] = l[b + j - 1]
      <4> TAKE j \in 1 .. n
      <4>1. b + 1 + j - 1 \in 1 .. Len(l) + 1 /\ b + 1 + j - 1 > k /\ (b + 1 + j - 1) - 1 = b + j - 1
        BY <3>1, <2>2, <1>2
      <4> QED BY <4>1, <1>1, <1>2
    <3>4. OfPrio(r, p) = OfPrio(l, p)
      BY <2>1, <3>2, <3>3, <1>1, BlockKept
    <3> QED BY <3>4, <2>4, <1>2
  <2>5. CASE p = m.prio
    <3>1. k = b + n
      <4>1. \A i \in 1 .. Len(l) : i < k <=> i < b + n
        BY <2>2, <2>5, <1>2
      <4>2. k <= b + n
        <5>1. k = 1 \/ (k - 1 \in 1 .. Len(l) /\ k - 1 < k)
          BY <1>2
        <5> QED BY <5>1, <4>1, <2>2, <1>2
      <4>3. b + n <= k
        <5>1. b + n = 1 \/ (b + n - 1 \in 1 .. Len(l) /\ b + n - 1 < b + n)
          BY <2>2, <1>2
        <5> QED BY <5>1, <4>1, <2>2, <1>2
      <4> QED BY <4>2, <4>3, <2>2, <1>2
    <3>2. Spans(r, p, b, n + 1)
      <4>1. ASSUME NEW i \in 1 .. Len(l) + 1 PROVE r[i].prio = p <=> b <= i /\ i < b + (n + 1)
        <5>1. CASE i < k
          BY <5>1, <3>1, <2>2, <1>1, <1>2
        <5>2. CASE i = k
          <6>1. r[i].prio = p
            BY <5>2, <2>5, <1>1
          <6> QED BY <6>1, <5>2, <3>1, <2>2
        <5>3. CASE i > k
          <6>1. r[i] = l[i - 1] /\ i - 1 \in 1 .. Len(l) /\ i - 1 >= b + n
            BY <5>3, <3>1, <2>2, <1>1, <1>2
          <6>2. r[i].prio < p /\ r[i].prio \in Nat
            BY <6>1, <2>2, <1>2
          <6> QED BY <6>2, <5>3, <3>1, <2>2, <1>2
        <5> QED BY <5>1, <5>2, <5>3, <1>2
      <4> QED BY <4>1, <2>2, <1>1, <1>2 DEF Spans
    <3>3. \A i \in b .. b + n - 1 : r[i] = l[i]
      BY <3>1, <2>2, <1>1, <1>2
    <3>4. r[b + n] = m
      BY <3>1, <1>1, <1>2
    <3>5. OfPrio(r, p) = Append(OfPrio(l, p), r[b + n].from)
      BY <2>1, <3>2, <3>3, <1>1, BlockAppended
    <3> QED BY <3>4, <3>5, <2>5
  <2> QED BY <2>3, <2>4, <2>5, <1>2
<1> QED BY <1>3, <1>4 DEF r

(* Without its first message, a list lacks the first of its priority,      *)
(* which is the highest.                                                   *)
LEMMA TailBlock ==
  ASSUME NEW l \in Seq(Messages), Descends(l), l # <<>>
  PROVE  LET r == Tail(l)
             m == Head(l)
         IN  /\ r \in Seq(Messages) /\ Descends(r) /\ m \in Messages
             /\ OfPrio(l, m.prio) # <<>> /\ Head(OfPrio(l, m.prio)) = m.from
             /\ \A p \in Nat : p > m.prio => OfPrio(l, p) = <<>>
             /\ \A p \in Nat : OfPrio(r, p) = IF p = m.prio THEN Tail(OfPrio(l, p)) ELSE OfPrio(l, p)
<1> DEFINE r == Tail(l)
           m == Head(l)
<1>1. /\ r \in Seq(Messages) /\ Len(r) = Len(l) - 1 /\ Len(l) \in Nat \ {0}
      /\ \A i \in 1 .. Len(l) - 1 : r[i] = l[i + 1]
      /\ m \in Messages /\ m = l[1]
  <2>1. Len(l) \in Nat \ {0}
    BY EmptySeq
  <2>2. /\ r \in Seq(Messages) /\ Len(r) = Len(l) - 1 /\ m \in Messages
        /\ \A i \in 1 .. Len(r) : r[i] = l[i + 1]
    BY HeadTailProperties
  <2> QED BY <2>1, <2>2
<1> HIDE DEF r, m
<1>2. /\ DOMAIN l = 1 .. Len(l) /\ DOMAIN r = 1 .. Len(l) - 1
      /\ m.prio \in Nat /\ \A i \in 1 .. Len(l) : l[i].prio \in Nat
  <2>1. DOMAIN l = 1 .. Len(l) /\ DOMAIN r = 1 .. Len(l) - 1
    BY <1>1, LenProperties
  <2>2. \A i \in 1 .. Len(l) : l[i] \in Messages
    BY ElementOfSeq
  <2> QED BY <2>1, <2>2, <1>1 DEF Messages
<1>3. \A a, c \in 1 .. Len(l) : a < c => l[a].prio >= l[c].prio
  BY <1>2 DEF Descends
<1>4. \A i \in 1 .. Len(l) : l[i].prio <= m.prio
  <2> TAKE i \in 1 .. Len(l)
  <2>1. i = 1 \/ (1 \in 1 .. Len(l) /\ 1 < i)
    BY <1>1
  <2> QED BY <2>1, <1>1, <1>2, <1>3
<1>5. Descends(r)
  <2> SUFFICES ASSUME NEW i \in 1 .. Len(l) - 1, NEW j \in 1 .. Len(l) - 1, i < j
               PROVE  r[i].prio >= r[j].prio
    BY <1>2 DEF Descends
  <2>1. i + 1 \in 1 .. Len(l) /\ j + 1 \in 1 .. Len(l) /\ i + 1 < j + 1
    BY <1>1
  <2> QED BY <2>1, <1>1, <1>3
<1>6. ASSUME NEW p \in Nat, p # m.prio PROVE OfPrio(r, p) = OfPrio(l, p)
  <2>1. PICK b, n : Spans(l, p, b, n)
    BY BlockExists
  <2>2. /\ b \in 1 .. Len(l) + 1 /\ n \in Nat /\ b + n <= Len(l) + 1
        /\ \A i \in 1 .. Len(l) : l[i].prio = p <=> b <= i /\ i < b + n
    BY <2>1 DEF Spans
  <2>3. CASE n = 0
    <3>1. Spans(r, p, 1, 0)
      <4>1. ASSUME NEW i \in 1 .. Len(l) - 1 PROVE r[i].prio # p
        <5>1. i + 1 \in 1 .. Len(l) /\ r[i] = l[i + 1]
          BY <1>1
        <5> QED BY <5>1, <2>2, <2>3
      <4> QED BY <4>1, <1>1 DEF Spans
    <3>2. \A k \in 1 .. 0 : r[1 + k - 1] = l[b + k - 1]
      OBVIOUS
    <3> QED BY <3>1, <3>2, <2>1, <2>3, <1>1, BlockKept
  <2>4. CASE n # 0
    <3>1. b > 1
      <4>1. 1 \in 1 .. Len(l)
        BY <1>1
      <4> QED BY <4>1, <2>2, <2>4, <1>1, <1>6
    <3>2. Spans(r, p, b - 1, n)
      <4>1. ASSUME NEW i \in 1 .. Len(l) - 1 PROVE r[i].prio = p <=> b - 1 <= i /\ i < b - 1 + n
        <5>1. i + 1 \in 1 .. Len(l) /\ r[i] = l[i + 1]
          BY <1>1
        <5>2. r[i].prio = p <=> b <= i + 1 /\ i + 1 < b + n
          BY <5>1, <2>2
        <5> QED BY <5>2, <2>2, <1>1
      <4> QED BY <4>1, <3>1, <2>2, <1>1 DEF Spans
    <3>3. \A k \in 1 .. n : r[b - 1 + k - 1] = l[b + k - 1]
      <4> TAKE k \in 1 .. n
      <4>1. b - 1 + k - 1 \in 1 .. Len(l) - 1 /\ (b - 1 + k - 1) + 1 = b + k - 1
        BY <3>1, <2>2, <1>1
      <4> QED BY <4>1, <1>1
    <3> QED BY <3>2, <3>3, <2>1, <1>1, BlockKept
  <2> QED BY <2>3, <2>4
<1>7. /\ OfPrio(l, m.prio) # <<>> /\ Head(OfPrio(l, m.prio)) = m.from
      /\ OfPrio(r, m.prio) = Tail(OfPrio(l, m.prio))
  <2> DEFINE p == m.prio
  <2>1. PICK b, n : Spans(l, p, b, n)
    BY <1>2, BlockExists
  <2>2. /\ b \in 1 .. Len(l) + 1 /\ n \in Nat /\ b + n <= Len(l) + 1
        /\ \A i \in 1 .. Len(l) : l[i].prio = p <=> b <= i /\ i < b + n
    BY <2>1 DEF Spans
  <2>3. b = 1 /\ n >= 1
    <3>1. 1 \in 1 .. Len(l) /\ l[1].prio = p
      BY <1>1
    <3> QED BY <3>1, <2>2, <1>1
  <2> HIDE DEF p
  <2>4. PICK c \in Nat : c = n - 1
    BY <2>2, <2>3
  <2>5. Spans(l, p, 1, c + 1) /\ Spans(r, p, 1, c)
    <3>1. ASSUME NEW i \in 1 .. Len(l) - 1 PROVE r[i].prio = p <=> 1 <= i /\ i < 1 + c
      <4>1. i + 1 \in 1 .. Len(l) /\ r[i] = l[i + 1]
        BY <1>1
      <4>2. r[i].prio = p <=> b <= i + 1 /\ i + 1 < b + n
        BY <4>1, <2>2
      <4> QED BY <4>2, <2>2, <2>3, <2>4, <1>1
    <3>2. Spans(r, p, 1, c)
      BY <3>1, <2>2, <2>3, <2>4, <1>1 DEF Spans
    <3>3. c + 1 = n
      BY <2>2, <2>4
    <3> QED BY <3>2, <3>3, <2>1, <2>3
  <2>6. \A k \in 1 .. c : r[1 + k - 1] = l[1 + k]
    <3> TAKE k \in 1 .. c
    <3>1. k \in 1 .. Len(l) - 1 /\ 1 + k - 1 = k /\ 1 + k = k + 1
      BY <2>2, <2>3, <2>4, <1>1
    <3> QED BY <3>1, <1>1
  <2>7. /\ OfPrio(l, p) # <<>> /\ Head(OfPrio(l, p)) = l[1].from
        /\ OfPrio(r, p) = Tail(OfPrio(l, p))
    <3>1. r \in Seq(Messages) /\ Spans(l, p, 1, c + 1) /\ Spans(r, p, 1, c)
      BY <2>5, <1>1
    <3> QED BY <3>1, <2>6, BlockCut, Zenon
  <2> QED BY <2>7, <1>1 DEF p
<1>8. ASSUME NEW p \in Nat, p > m.prio PROVE OfPrio(l, p) = <<>>
  <2>1. \A i \in 1 .. Len(l) : l[i].prio # p
    BY <1>2, <1>4, <1>8
  <2>2. Spans(l, p, 1, 0)
    BY <2>1, <1>1 DEF Spans
  <2>3. OfPrio(l, p) = Block(l, 1, 0) /\ Block(l, 1, 0) \in Seq(PqSenders) /\ Len(Block(l, 1, 0)) = 0
    BY <2>2, BlockIs
  <2> QED BY <2>3, EmptySeq
<1> QED BY <1>1, <1>5, <1>6, <1>7, <1>8 DEF r, m


(* The insertion of mq_dosend is at the place for the message.             *)
LEMMA InsertPlace ==
  ASSUME NEW l \in Seq(Messages), Descends(l), NEW m \in Messages
  PROVE  LET k == Min({i \in DOMAIN l : m.prio > l[i].prio} \cup {Len(l) + 1})
         IN  k \in 1 .. Len(l) + 1 /\ PlaceFor(l, k, m)
<1> DEFINE W == {i \in DOMAIN l : m.prio > l[i].prio} \cup {Len(l) + 1}
           k == Min(W)
<1>1. /\ Len(l) \in Nat /\ DOMAIN l = 1 .. Len(l) /\ m.prio \in Nat
      /\ \A i \in 1 .. Len(l) : l[i].prio \in Nat
  <2>1. Len(l) \in Nat /\ DOMAIN l = 1 .. Len(l)
    BY LenProperties
  <2>2. \A i \in 1 .. Len(l) : l[i] \in Messages
    BY ElementOfSeq
  <2> QED BY <2>1, <2>2 DEF Messages
<1>2. /\ W \in SUBSET Nat /\ W # {} /\ W \subseteq 1 .. Len(l) + 1
      /\ \A i \in 1 .. Len(l) : i \in W <=> m.prio > l[i].prio
  BY <1>1
<1> HIDE DEF W
<1>3. \E n \in W : \A j \in W : n <= j
  BY <1>2, LeastNatural
<1>4. k \in W /\ \A j \in W : k <= j
  BY <1>3 DEF Min
<1> HIDE DEF k
<1>5. k \in 1 .. Len(l) + 1
  BY <1>2, <1>4
<1>6. ASSUME NEW i \in 1 .. Len(l) PROVE i < k <=> l[i].prio >= m.prio
  <2>1. CASE i < k
    <3>1. i \notin W
      BY <2>1, <1>1, <1>4, <1>5
    <3> QED BY <2>1, <3>1, <1>1, <1>2
  <2>2. CASE ~(i < k)
    <3>1. k \in 1 .. Len(l) /\ (k < i \/ k = i)
      BY <2>2, <1>1, <1>5
    <3>2. m.prio > l[k].prio
      BY <3>1, <1>2, <1>4
    <3>3. l[k].prio >= l[i].prio
      BY <3>1, <1>1 DEF Descends
    <3> QED BY <2>2, <3>1, <3>2, <3>3, <1>1
  <2> QED BY <2>1, <2>2
<1> QED BY <1>5, <1>6 DEF k, W, PlaceFor

-----------------------------------------------------------------------------
(* The messages are in order, and the priorities those that callers gave.  *)
InPrios(l) == \A i \in DOMAIN l : l[i].prio \in Prios

PrioOK(r) ==
  /\ r.at \in {"timedsend", "waitsend", "alloc", "heap"} => r.prio \in Prios
  /\ r.at = "dosend" => r.msg.prio \in Prios

ListsInOrder(ml) == \A q \in Queues : Descends(ml[q]) /\ InPrios(ml[q])

OrderInv == ListsInOrder(msglist) /\ \A t \in Tasks : PrioOK(call[t])

(* What a step may do to the queues of PriorityQueue.                      *)
PqAllowed == P!PNext \/ UNCHANGED P!pqvars

(* The actions of PriorityQueue, of the two mapped variables.              *)
LEMMA PMapping ==
  /\ P!PInit <=> /\ FifoOf = [q \in Queues |-> [p \in Prios |-> <<>>]]
                 /\ GotOf = [t \in Tasks |-> None]
  /\ \A q \in Queues, p \in Prios, from \in PqSenders :
       FifoOf' = [FifoOf EXCEPT ![q][p] = Append(@, from)] /\ GotOf' = GotOf => P!PNext
  /\ \A q \in Queues, p \in Prios, t \in Tasks :
       /\ GotOf[t] = None /\ FifoOf[q][p] # <<>>
       /\ \A h \in Prios : h > p => FifoOf[q][h] = <<>>
       /\ GotOf' = [GotOf EXCEPT ![t] = [prio |-> p, from |-> Head(FifoOf[q][p])]]
       /\ FifoOf' = [FifoOf EXCEPT ![q][p] = Tail(@)]
       => P!PNext
  /\ \A t \in Tasks : GotOf' = [GotOf EXCEPT ![t] = None] /\ FifoOf' = FifoOf => P!PNext
  /\ FifoOf' = FifoOf /\ GotOf' = GotOf => UNCHANGED P!pqvars
<1> USE DEF FifoOf, GotOf
<1>1. P!PInit <=> /\ FifoOf = [q \in Queues |-> [p \in Prios |-> <<>>]]
                  /\ GotOf = [t \in Tasks |-> None]
  BY Zenon DEF P!PInit
<1>2. \A q \in Queues, p \in Prios, from \in PqSenders :
        P!PSend(q, p, from) <=> FifoOf' = [FifoOf EXCEPT ![q][p] = Append(@, from)] /\ GotOf' = GotOf
  BY Zenon DEF P!PSend
<1>3. \A q \in Queues, p \in Prios, t \in Tasks :
        P!PReceive(q, p, t) <=>
          /\ GotOf[t] = None /\ FifoOf[q][p] # <<>>
          /\ \A h \in Prios : h > p => FifoOf[q][h] = <<>>
          /\ GotOf' = [GotOf EXCEPT ![t] = [prio |-> p, from |-> Head(FifoOf[q][p])]]
          /\ FifoOf' = [FifoOf EXCEPT ![q][p] = Tail(@)]
  BY ZenonT(60) DEF P!PReceive
<1>4. \A t \in Tasks : P!PDone(t) <=> GotOf' = [GotOf EXCEPT ![t] = None] /\ FifoOf' = FifoOf
  BY Zenon DEF P!PDone
<1>5. UNCHANGED <<FifoOf, GotOf>> <=> UNCHANGED P!pqvars
  BY Zenon DEF P!pqvars
<1> HIDE DEF FifoOf, GotOf
<1>6. P!PNext <=> \/ \E q \in Queues, p \in Prios :
                       \/ \E from \in PqSenders : P!PSend(q, p, from)
                       \/ \E t \in Tasks : P!PReceive(q, p, t)
                  \/ \E t \in Tasks : P!PDone(t)
  BY Zenon DEF P!PNext, PqSenders
<1> QED BY <1>1, <1>2, <1>3, <1>4, <1>5, <1>6

(* A message that is sent is the last of its priority.                     *)
LEMMA FifoSends ==
  ASSUME FillInv, OrderInv, NEW q \in Queues, NEW m \in Messages, m.prio \in Prios,
         msglist' = InsertMessage(q, m)
  PROVE  /\ ListsInOrder(msglist')
         /\ FifoOf' = [FifoOf EXCEPT ![q][m.prio] = Append(@, m.from)]
<1> DEFINE l == msglist[q]
           W == {i \in DOMAIN l : m.prio > l[i].prio} \cup {Len(l) + 1}
           k == Min(W)
           r == InsertAt(l, k, m)
<1>1. msglist \in [Queues -> Seq(Messages)] /\ l \in Seq(Messages) /\ Descends(l) /\ InPrios(l)
  BY DEF FillInv, OrderInv, ListsInOrder
<1>2. msglist' = [msglist EXCEPT ![q] = r]
  BY <1>1 DEF InsertMessage
<1>3. k \in 1 .. Len(l) + 1 /\ PlaceFor(l, k, m)
  BY <1>1, InsertPlace
<1> HIDE DEF l, k, W
<1>4. /\ Descends(r)
      /\ \A p \in Nat : OfPrio(r, p) = IF p = m.prio THEN Append(OfPrio(l, p), m.from) ELSE OfPrio(l, p)
  BY <1>1, <1>3, InsertBlock
<1>5. InPrios(r)
  <2>1. Inserts(l, r, k, m, Messages)
    BY <1>1, <1>3, InsertedPositions
  <2>2. /\ r \in Seq(Messages) /\ Len(r) = Len(l) + 1
        /\ \A i \in 1 .. Len(l) + 1 : r[i] = IF i < k THEN l[i] ELSE IF i = k THEN m ELSE l[i - 1]
    BY <2>1, Zenon DEF Inserts
  <2>3. DOMAIN r = 1 .. Len(l) + 1 /\ DOMAIN l = 1 .. Len(l) /\ Len(l) \in Nat
    BY <2>2, <1>1, LenProperties
  <2> HIDE DEF r
  <2> SUFFICES ASSUME NEW i \in 1 .. Len(l) + 1 PROVE r[i].prio \in Prios
    BY <2>3 DEF InPrios
  <2>4. CASE i = k
    BY <2>4, <2>2, <1>3
  <2>5. CASE i # k
    <3>1. r[i] = (IF i < k THEN l[i] ELSE l[i - 1]) /\ (IF i < k THEN i ELSE i - 1) \in 1 .. Len(l)
      BY <2>5, <2>2, <2>3, <1>3
    <3> QED BY <3>1, <2>3, <1>1 DEF InPrios
  <2> QED BY <2>4, <2>5
<1> HIDE DEF r
<1>6. msglist'[q] = r /\ \A x \in Queues \ {q} : msglist'[x] = msglist[x]
  BY <1>1, <1>2
<1>7. ListsInOrder(msglist')
  BY <1>4, <1>5, <1>6 DEF OrderInv, ListsInOrder
<1>8. Prios \subseteq Nat
  BY MqAssumption
<1>9. \A x \in Queues, p \in Prios :
        OfPrio(msglist'[x], p) = IF x = q /\ p = m.prio THEN Append(OfPrio(msglist[q], m.prio), m.from)
                                 ELSE OfPrio(msglist[x], p)
  BY <1>4, <1>6, <1>8 DEF l
<1>10. FifoOf' = [x \in Queues |-> [p \in Prios |-> OfPrio(msglist'[x], p)]]
  BY DEF FifoOf
<1>11. [FifoOf EXCEPT ![q][m.prio] = Append(@, m.from)]
         = [x \in Queues |-> [p \in Prios |-> IF x = q /\ p = m.prio
                                               THEN Append(OfPrio(msglist[q], m.prio), m.from)
                                               ELSE OfPrio(msglist[x], p)]]
  BY DEF FifoOf
<1>12. [x \in Queues |-> [p \in Prios |-> OfPrio(msglist'[x], p)]]
         = [x \in Queues |-> [p \in Prios |-> IF x = q /\ p = m.prio
                                               THEN Append(OfPrio(msglist[q], m.prio), m.from)
                                               ELSE OfPrio(msglist[x], p)]]
  BY <1>9
<1> QED BY <1>7, <1>10, <1>11, <1>12, Zenon


(* A message that is received is the first of its priority, and there is   *)
(* none of a higher one.                                                   *)
LEMMA FifoReceives ==
  ASSUME FillInv, OrderInv, NEW q \in Queues, msglist[q] # <<>>,
         msglist' = [msglist EXCEPT ![q] = Tail(@)]
  PROVE  LET m == Head(msglist[q])
         IN  /\ ListsInOrder(msglist') /\ m \in Messages /\ m.prio \in Prios
             /\ FifoOf[q][m.prio] # <<>> /\ Head(FifoOf[q][m.prio]) = m.from
             /\ \A h \in Prios : h > m.prio => FifoOf[q][h] = <<>>
             /\ FifoOf' = [FifoOf EXCEPT ![q][m.prio] = Tail(@)]
<1> DEFINE l == msglist[q]
           m == Head(l)
           r == Tail(l)
<1>1. msglist \in [Queues -> Seq(Messages)] /\ l \in Seq(Messages) /\ Descends(l) /\ InPrios(l)
  BY DEF FillInv, OrderInv, ListsInOrder
<1>2. msglist' = [msglist EXCEPT ![q] = r] /\ l # <<>>
  OBVIOUS
<1> HIDE DEF l
<1>3. /\ r \in Seq(Messages) /\ Descends(r) /\ m \in Messages
      /\ OfPrio(l, m.prio) # <<>> /\ Head(OfPrio(l, m.prio)) = m.from
      /\ \A p \in Nat : p > m.prio => OfPrio(l, p) = <<>>
      /\ \A p \in Nat : OfPrio(r, p) = IF p = m.prio THEN Tail(OfPrio(l, p)) ELSE OfPrio(l, p)
  BY <1>1, <1>2, TailBlock
<1>4. InPrios(r) /\ m.prio \in Prios
  <2>1. /\ Len(r) = Len(l) - 1 /\ \A i \in 1 .. Len(l) - 1 : r[i] = l[i + 1]
    BY <1>1, <1>2, HeadTailProperties
  <2>2. Len(l) \in Nat \ {0} /\ DOMAIN l = 1 .. Len(l)
    BY <1>1, <1>2, EmptySeq, LenProperties
  <2>3. DOMAIN r = 1 .. Len(l) - 1
    BY <2>1, <1>3, LenProperties
  <2>4. m = l[1]
    OBVIOUS
  <2> HIDE DEF r, m
  <2>5. InPrios(r)
    <3> SUFFICES ASSUME NEW i \in 1 .. Len(l) - 1 PROVE r[i].prio \in Prios
      BY <2>3 DEF InPrios
    <3>1. i + 1 \in 1 .. Len(l) /\ r[i] = l[i + 1]
      BY <2>1, <2>2
    <3> QED BY <3>1, <2>2, <1>1 DEF InPrios
  <2>6. 1 \in 1 .. Len(l)
    BY <2>2
  <2> QED BY <2>2, <2>4, <2>5, <2>6, <1>1 DEF InPrios
<1> HIDE DEF r, m
<1>5. msglist'[q] = r /\ \A x \in Queues \ {q} : msglist'[x] = msglist[x]
  BY <1>1, <1>2
<1>6. ListsInOrder(msglist')
  BY <1>3, <1>4, <1>5 DEF OrderInv, ListsInOrder
<1>7. Prios \subseteq Nat
  BY MqAssumption
<1>8. \A p \in Prios : FifoOf[q][p] = OfPrio(l, p)
  BY DEF FifoOf, l
<1>9. /\ FifoOf[q][m.prio] # <<>> /\ Head(FifoOf[q][m.prio]) = m.from
      /\ \A h \in Prios : h > m.prio => FifoOf[q][h] = <<>>
  BY <1>3, <1>4, <1>7, <1>8
<1>10. FifoOf' = [FifoOf EXCEPT ![q][m.prio] = Tail(@)]
  <2>1. \A x \in Queues, p \in Prios :
          OfPrio(msglist'[x], p) = IF x = q /\ p = m.prio THEN Tail(OfPrio(msglist[q], m.prio))
                                   ELSE OfPrio(msglist[x], p)
    <3> TAKE x \in Queues, p \in Prios
    <3>1. CASE x = q
      <4>1. OfPrio(r, p) = IF p = m.prio THEN Tail(OfPrio(l, p)) ELSE OfPrio(l, p)
        BY <1>3, <1>7
      <4> QED BY <3>1, <4>1, <1>5 DEF l
    <3>2. CASE x # q
      BY <3>2, <1>5
    <3> QED BY <3>1, <3>2
  <2>2. FifoOf' = [x \in Queues |-> [p \in Prios |-> OfPrio(msglist'[x], p)]]
    BY DEF FifoOf
  <2>3. [FifoOf EXCEPT ![q][m.prio] = Tail(@)]
          = [x \in Queues |-> [p \in Prios |-> IF x = q /\ p = m.prio
                                                THEN Tail(OfPrio(msglist[q], m.prio))
                                                ELSE OfPrio(msglist[x], p)]]
    BY DEF FifoOf
  <2>4. [x \in Queues |-> [p \in Prios |-> OfPrio(msglist'[x], p)]]
          = [x \in Queues |-> [p \in Prios |-> IF x = q /\ p = m.prio
                                                THEN Tail(OfPrio(msglist[q], m.prio))
                                                ELSE OfPrio(msglist[x], p)]]
    BY <2>1
  <2> QED BY <2>2, <2>3, <2>4, Zenon
<1> QED BY <1>3, <1>4, <1>6, <1>9, <1>10 DEF m, l

(* The queues, where the lists stay.                                       *)
LEMMA FifoSame ==
  msglist' = msglist => FifoOf' = FifoOf
BY DEF FifoOf

(* What the receivers were given, by task.                                 *)
Given(r) == IF r.at = "doreceive" THEN [prio |-> r.msg.prio, from |-> r.msg.from] ELSE None

LEMMA GotChanges ==
  ASSUME NEW t \in Tasks, \A x \in Tasks \ {t} : call'[x] = call[x]
  PROVE  /\ GotOf[t] = Given(call[t])
         /\ GotOf' = [GotOf EXCEPT ![t] = Given(call'[t])]
         /\ Given(call'[t]) = Given(call[t]) => GotOf' = GotOf
<1>1. GotOf = [x \in Tasks |-> Given(call[x])]
  BY DEF GotOf, Given
<1>2. GotOf' = [x \in Tasks |-> Given(call'[x])]
  BY DEF GotOf, Given
<1> QED BY <1>1, <1>2

(* A step of task t that is neither the beginning nor the end of what a    *)
(* receiver does with a message.                                           *)
LEMMA QuietStep ==
  ASSUME OrderInv, NEW t \in Tasks, \A x \in Tasks \ {t} : call'[x] = call[x], msglist' = msglist,
         call[t].at # "doreceive", call'[t].at # "doreceive", PrioOK(call'[t])
  PROVE  OrderInv' /\ PqAllowed
<1>1. OrderInv'
  BY DEF OrderInv
<1>2. Given(call'[t]) = Given(call[t])
  BY DEF Given
<1>3. FifoOf' = FifoOf /\ GotOf' = GotOf
  BY <1>2, FifoSame, GotChanges
<1> QED BY <1>1, <1>3, PMapping DEF PqAllowed

(* A step that changes no call and no list.                                *)
LEMMA QuietCalls ==
  ASSUME OrderInv, call' = call, msglist' = msglist
  PROVE  OrderInv' /\ PqAllowed
<1>1. OrderInv'
  BY DEF OrderInv
<1>2. FifoOf' = FifoOf /\ GotOf' = GotOf
  BY FifoSame DEF GotOf
<1> QED BY <1>1, <1>2, PMapping DEF PqAllowed

(* A receiver takes a message.                                             *)
LEMMA TakesOrdered ==
  ASSUME MqInv, OrderInv, NEW t \in Tasks, NEW q \in Queues, TakesMessage(t, q),
         call[t].at # "doreceive"
  PROVE  OrderInv' /\ PqAllowed
<1> DEFINE m == Head(msglist[q])
           r == [call[t] EXCEPT !.at = "doreceive", !.q = q, !.msg = m]
<1>1. call \in [Tasks -> MqCalls] /\ call[t] \in MqCalls /\ FillInv
  BY CallsFacts DEF MqInv
<1>2. /\ msglist[q] # <<>> /\ msglist' = [msglist EXCEPT ![q] = Tail(@)]
      /\ call' = [call EXCEPT ![t] = r]
  BY DEF TakesMessage
<1>3. /\ ListsInOrder(msglist') /\ m \in Messages /\ m.prio \in Prios
      /\ FifoOf[q][m.prio] # <<>> /\ Head(FifoOf[q][m.prio]) = m.from
      /\ \A h \in Prios : h > m.prio => FifoOf[q][h] = <<>>
      /\ FifoOf' = [FifoOf EXCEPT ![q][m.prio] = Tail(@)]
  BY <1>1, <1>2, FifoReceives
<1> HIDE DEF m
<1>4. r.at = "doreceive" /\ r.msg = m
  BY <1>1 DEF MqCalls
<1> HIDE DEF r
<1>5. call'[t] = r /\ \A x \in Tasks \ {t} : call'[x] = call[x]
  BY <1>1, <1>2
<1>6. OrderInv'
  BY <1>3, <1>4, <1>5 DEF OrderInv, PrioOK
<1>7. GotOf[t] = None
  BY <1>5, GotChanges DEF Given
<1>8. GotOf' = [GotOf EXCEPT ![t] = [prio |-> m.prio, from |-> m.from]]
  <2>1. GotOf' = [GotOf EXCEPT ![t] = Given(r)]
    BY <1>5, GotChanges
  <2>2. Given(r) = [prio |-> m.prio, from |-> m.from]
    BY <1>4 DEF Given
  <2> QED BY <2>1, <2>2
<1>9. P!PNext
  BY <1>3, <1>7, <1>8, PMapping
<1> QED BY <1>6, <1>9 DEF PqAllowed

(* What a call's step changes in it.                                       *)
LEMMA GoesIs ==
  ASSUME MqInv, NEW t \in Tasks, NEW at, Goes(t, at)
  PROVE  /\ \A x \in Tasks \ {t} : call'[x] = call[x]
         /\ call'[t].at = at /\ call'[t].prio = call[t].prio /\ call'[t].msg = call[t].msg
<1>1. call \in [Tasks -> MqCalls] /\ call[t] \in MqCalls
  BY CallsFacts
<1>2. call' = [call EXCEPT ![t] = [call[t] EXCEPT !.at = at]]
  BY DEF Goes
<1>3. call'[t] = [call[t] EXCEPT !.at = at]
  BY <1>1, <1>2
<1>4. /\ [call[t] EXCEPT !.at = at].at = at /\ [call[t] EXCEPT !.at = at].prio = call[t].prio
      /\ [call[t] EXCEPT !.at = at].msg = call[t].msg
  BY <1>1 DEF MqCalls
<1> QED BY <1>1, <1>2, <1>3, <1>4

(* Setting a call leaves the others.                                       *)
LEMMA CallSet ==
  ASSUME MqInv, NEW t \in Tasks, NEW r, call' = [call EXCEPT ![t] = r]
  PROVE  call'[t] = r /\ \A x \in Tasks \ {t} : call'[x] = call[x]
BY CallsFacts


(* A call goes on to a step where it has no message and needs no priority. *)
LEMMA LeavesOrdered ==
  ASSUME MqInv, OrderInv, NEW t \in Tasks, msglist' = msglist, call[t].at # "doreceive",
         Goes(t, "unlock") \/ Goes(t, "waitreceive") \/ Goes(t, "delete")
  PROVE  OrderInv' /\ PqAllowed
<1>1. PICK at \in {"unlock", "waitreceive", "delete"} : Goes(t, at)
  OBVIOUS
<1>2. (\A x \in Tasks \ {t} : call'[x] = call[x]) /\ call'[t].at = at
  BY <1>1, GoesIs
<1>3. PrioOK(call'[t]) /\ call'[t].at # "doreceive"
  BY <1>2 DEF PrioOK
<1> QED BY <1>2, <1>3, QuietStep

(* A timed call begins.                                                    *)
LEMMA TimedOrdered ==
  ASSUME MqInv, OrderInv, NEW t \in Tasks, NEW what \in {"timedsend", "timedreceive"}, NEW q, NEW p,
         TimedCall(t, what, q, p), what = "timedsend" => p \in Prios
  PROVE  OrderInv' /\ PqAllowed
<1> DEFINE r == [User EXCEPT !.at = what, !.q = q, !.prio = p, !.wdog = Head(g.g_wdfreelist)]
<1>1. /\ call[t].at = "user" /\ msglist' = msglist
      /\ call' = [call EXCEPT ![t] = User] \/ call' = [call EXCEPT ![t] = r]
  BY DEF TimedCall, Makes, CallAt, queuevars
<1>2. r.at = what /\ r.prio = p /\ User.at = "user"
  BY DEF User
<1>3. PrioOK(r) /\ r.at # "doreceive" /\ PrioOK(User) /\ User.at # "doreceive"
  BY <1>2 DEF PrioOK
<1> HIDE DEF r
<1>4. PICK c \in {User, r} : call' = [call EXCEPT ![t] = c]
  BY <1>1
<1>5. call'[t] = c /\ \A x \in Tasks \ {t} : call'[x] = call[x]
  BY <1>4, CallSet
<1> QED BY <1>1, <1>3, <1>5, QuietStep

(* The steps of senders.                                                   *)
LEMMA SendOrdered ==
  ASSUME MqInv, OrderInv, NEW t \in Tasks, SendStep(t)
  PROVE  OrderInv' /\ PqAllowed
<1>1. call \in [Tasks -> MqCalls] /\ call[t] \in MqCalls /\ PrioOK(call[t]) /\ CallOK(t, call[t])
  BY CallsFacts DEF OrderInv
<1>2. ASSUME NEW q \in Queues, NEW p \in Prios, mq_send(t, q, p) PROVE OrderInv' /\ PqAllowed
  <2>1. call[t].at = "user" /\ msglist' = msglist
    BY <1>2 DEF mq_send, Makes, CallAt, BlockSender, queuevars
  <2> DEFINE With(at) == [User EXCEPT !.at = at, !.q = q, !.prio = p]
             idle == [User EXCEPT !.at = "unlock"]
  <2>2. PICK r : call' = [call EXCEPT ![t] = r]
                 /\ (r.at = "unlock" \/ (r.at \in {"alloc", "waitsend"} /\ r.prio = p))
    <3>1. /\ \A at : With(at).at = at /\ With(at).prio = p
          /\ idle.at = "unlock"
      BY DEF User
    <3>2. \/ call' = [call EXCEPT ![t] = With("alloc")]
          \/ call' = [call EXCEPT ![t] = idle]
          \/ call' = [call EXCEPT ![t] = With("waitsend")]
      BY <1>2 DEF mq_send
    <3> HIDE DEF With, idle
    <3>3. CASE call' = [call EXCEPT ![t] = With("alloc")]
      <4>1. With("alloc").at \in {"alloc", "waitsend"} /\ With("alloc").prio = p
        BY <3>1
      <4> QED BY <3>3, <4>1, Zenon
    <3>4. CASE call' = [call EXCEPT ![t] = idle]
      BY <3>1, <3>4, Zenon
    <3>5. CASE call' = [call EXCEPT ![t] = With("waitsend")]
      <4>1. With("waitsend").at \in {"alloc", "waitsend"} /\ With("waitsend").prio = p
        BY <3>1
      <4> QED BY <3>5, <4>1, Zenon
    <3> QED BY <3>2, <3>3, <3>4, <3>5
  <2>3. call'[t] = r /\ \A x \in Tasks \ {t} : call'[x] = call[x]
    BY <2>2, CallSet
  <2>4. PrioOK(r) /\ r.at # "doreceive"
    BY <2>2 DEF PrioOK
  <2> QED BY <2>1, <2>3, <2>4, QuietStep
<1>3. ASSUME NEW q \in Queues, NEW p \in Prios, TimedCall(t, "timedsend", q, p)
      PROVE  OrderInv' /\ PqAllowed
  BY <1>3, TimedOrdered
<1>4. ASSUME NEW ticks \in Timeouts, mq_timedsend(t, ticks) PROVE OrderInv' /\ PqAllowed
  <2>1. call[t].at = "timedsend" /\ msglist' = msglist
    BY <1>4 DEF mq_timedsend, CallAt, BlockSender, queuevars
  <2>2. PICK at : Goes(t, at) /\ at \in {"alloc", "unlock", "waitsend"}
    BY <1>4 DEF mq_timedsend
  <2>3. /\ \A x \in Tasks \ {t} : call'[x] = call[x]
        /\ call'[t].at = at /\ call'[t].prio = call[t].prio
    BY <2>2, GoesIs
  <2>4. PrioOK(call'[t]) /\ call'[t].at # "doreceive"
    BY <1>1, <2>1, <2>2, <2>3 DEF PrioOK
  <2> QED BY <2>1, <2>3, <2>4, QuietStep
<1>5. CASE SendResumes(t)
  <2>1. call[t].at = "waitsend" /\ msglist' = msglist
    BY <1>5 DEF SendResumes, CallAt, BlockSender, queuevars
  <2>2. (\E at \in {"alloc", "unlock"} : Goes(t, at)) \/ call' = call
    BY <1>5 DEF SendResumes
  <2>3. ASSUME NEW at \in {"alloc", "unlock"}, Goes(t, at) PROVE OrderInv' /\ PqAllowed
    <3>1. /\ \A x \in Tasks \ {t} : call'[x] = call[x]
          /\ call'[t].at = at /\ call'[t].prio = call[t].prio
      BY <2>3, GoesIs
    <3>2. PrioOK(call'[t]) /\ call'[t].at # "doreceive"
      BY <1>1, <2>1, <3>1 DEF PrioOK
    <3> QED BY <2>1, <3>1, <3>2, QuietStep
  <2> QED BY <2>1, <2>2, <2>3, QuietCalls
<1>6. ASSUME NEW type, Gets(t, type), call[t].at \in {"alloc", "heap"}, msglist' = msglist
      PROVE  OrderInv' /\ PqAllowed
  <2> DEFINE m == [prio |-> call[t].prio, from |-> t, type |-> type]
             r == [call[t] EXCEPT !.at = "dosend", !.msg = m]
  <2>1. call' = [call EXCEPT ![t] = r]
    BY <1>6 DEF Gets
  <2>2. r.at = "dosend" /\ r.msg.prio = call[t].prio
    BY <1>1 DEF MqCalls
  <2>3. PrioOK(r) /\ r.at # "doreceive"
    BY <1>1, <1>6, <2>2 DEF PrioOK
  <2> HIDE DEF r
  <2>4. call'[t] = r /\ \A x \in Tasks \ {t} : call'[x] = call[x]
    BY <2>1, CallSet
  <2> QED BY <2>3, <2>4, <1>6, QuietStep
<1>9. CASE SendAllocates(t)
  <2>1. call[t].at = "alloc" /\ msglist' = msglist /\ (Gets(t, "FIXED") \/ Goes(t, "heap"))
    BY <1>9 DEF SendAllocates, CallAt, queuevars
  <2>2. CASE Goes(t, "heap")
    <3>1. /\ \A x \in Tasks \ {t} : call'[x] = call[x]
          /\ call'[t].at = "heap" /\ call'[t].prio = call[t].prio
      BY <2>2, GoesIs
    <3>2. PrioOK(call'[t]) /\ call'[t].at # "doreceive"
      BY <1>1, <2>1, <3>1 DEF PrioOK
    <3> QED BY <2>1, <3>1, <3>2, QuietStep
  <2> QED BY <2>1, <2>2, <1>6
<1>10. CASE HeapAllocates(t) \/ HeapBlocks(t)
  <2>1. call[t].at = "heap" /\ msglist' = msglist /\ (Gets(t, "DYN") \/ call' = call)
    BY <1>10 DEF HeapAllocates, HeapBlocks, CallAt, queuevars
  <2> QED BY <2>1, <1>6, QuietCalls
<1>7. CASE SendInserts(t)
  <2> DEFINE q == call[t].q
             m == call[t].msg
             r == [call[t] EXCEPT !.at = "wakereceiver", !.msg = None]
  <2>1. /\ call[t].at = "dosend" /\ msglist' = InsertMessage(q, m) /\ call' = [call EXCEPT ![t] = r]
    BY <1>7 DEF SendInserts, CallAt
  <2>2. q \in Queues /\ m \in Messages /\ m.prio \in Prios /\ FillInv /\ m.from \in PqSenders
    BY <1>1, <2>1 DEF CallOK, Sendings, PrioOK, MqInv, Messages, PqSenders
  <2>3. r.at = "wakereceiver"
    BY <1>1 DEF MqCalls
  <2> HIDE DEF r, m, q
  <2>4. call'[t] = r /\ \A x \in Tasks \ {t} : call'[x] = call[x]
    BY <2>1, CallSet
  <2>5. /\ ListsInOrder(msglist') /\ FifoOf' = [FifoOf EXCEPT ![q][m.prio] = Append(@, m.from)]
    BY <2>1, <2>2, FifoSends
  <2>6. GotOf' = GotOf
    <3>1. Given(call'[t]) = Given(call[t])
      BY <2>1, <2>3, <2>4 DEF Given
    <3> QED BY <3>1, <2>4, GotChanges
  <2>7. OrderInv'
    BY <2>3, <2>4, <2>5 DEF OrderInv, PrioOK
  <2>8. P!PNext
    BY <2>2, <2>5, <2>6, PMapping
  <2> QED BY <2>7, <2>8 DEF PqAllowed
<1>8. CASE SendWakes(t)
  <2>1. call[t].at = "wakereceiver" /\ msglist' = msglist /\ Goes(t, "unlock")
    BY <1>8 DEF SendWakes, CallAt
  <2> QED BY <2>1, LeavesOrdered
<1> QED BY <1>2, <1>3, <1>4, <1>5, <1>7, <1>8, <1>9, <1>10 DEF SendStep

(* The steps of receivers.                                                 *)
LEMMA ReceiveOrdered ==
  ASSUME MqInv, OrderInv, NEW t \in Tasks, ReceiveStep(t)
  PROVE  OrderInv' /\ PqAllowed
<1>1. call \in [Tasks -> MqCalls] /\ call[t] \in MqCalls /\ CallOK(t, call[t])
  BY CallsFacts
<1>2. ASSUME NEW q \in Queues, mq_receive(t, q) PROVE OrderInv' /\ PqAllowed
  <2>1. call[t].at = "user"
    BY <1>2 DEF mq_receive, Makes, CallAt
  <2>2. CASE TakesMessage(t, q)
    BY <2>1, <2>2, TakesOrdered
  <2>3. CASE ~TakesMessage(t, q)
    <3> DEFINE gives == [User EXCEPT !.at = "unlock"]
               waits == [User EXCEPT !.at = "waitreceive", !.q = q]
    <3>1. /\ msglist' = msglist
          /\ call' = [call EXCEPT ![t] = gives] \/ call' = [call EXCEPT ![t] = waits]
      BY <1>2, <2>3 DEF mq_receive, BlockReceiver, queuevars
    <3>2. gives.at = "unlock" /\ waits.at = "waitreceive"
      BY DEF User
    <3> HIDE DEF gives, waits
    <3>3. PICK r \in {gives, waits} : call' = [call EXCEPT ![t] = r]
      BY <3>1
    <3>4. call'[t] = r /\ \A u \in Tasks \ {t} : call'[u] = call[u]
      BY <3>3, CallSet
    <3>5. PrioOK(r) /\ r.at # "doreceive"
      BY <3>2 DEF PrioOK
    <3> QED BY <2>1, <3>1, <3>4, <3>5, QuietStep
  <2> QED BY <2>2, <2>3
<1>3. ASSUME NEW q \in Queues, TimedCall(t, "timedreceive", q, 0) PROVE OrderInv' /\ PqAllowed
  BY <1>3, TimedOrdered
<1>4. ASSUME NEW ticks \in Timeouts, mq_timedreceive(t, ticks) PROVE OrderInv' /\ PqAllowed
  <2>1. call[t].at = "timedreceive" /\ call[t].q \in Queues
    BY <1>1, <1>4 DEF mq_timedreceive, CallAt, CallOK
  <2>2. CASE TakesMessage(t, call[t].q)
    BY <2>1, <2>2, TakesOrdered
  <2>3. CASE ~TakesMessage(t, call[t].q)
    <3>1. /\ msglist' = msglist /\ (Goes(t, "unlock") \/ Goes(t, "waitreceive"))
      BY <1>4, <2>3 DEF mq_timedreceive, BlockReceiver, queuevars
    <3> QED BY <2>1, <3>1, LeavesOrdered
  <2> QED BY <2>2, <2>3
<1>5. CASE ReceiveResumes(t)
  <2>1. call[t].at = "waitreceive" /\ call[t].q \in Queues
    BY <1>1, <1>5 DEF ReceiveResumes, CallAt, CallOK, Sendings
  <2>2. CASE TakesMessage(t, call[t].q)
    BY <2>1, <2>2, TakesOrdered
  <2>3. CASE ~TakesMessage(t, call[t].q)
    <3>1. /\ msglist' = msglist /\ (Goes(t, "unlock") \/ call' = call)
      BY <1>5, <2>3 DEF ReceiveResumes, BlockReceiver, queuevars
    <3> QED BY <2>1, <3>1, LeavesOrdered, QuietCalls
  <2> QED BY <2>2, <2>3
<1>6. CASE ReceiveFrees(t)
  <2> DEFINE at == IF nwaitnotfull[call[t].q] > 0 THEN "wakesender" ELSE "unlock"
             r == [call[t] EXCEPT !.msg = None, !.at = at]
  <2>1. call[t].at = "doreceive" /\ msglist' = msglist /\ call' = [call EXCEPT ![t] = r]
    BY <1>6 DEF ReceiveFrees, CallAt, queuevars
  <2>2. r.at \in {"wakesender", "unlock"}
    BY <1>1 DEF MqCalls
  <2> HIDE DEF r
  <2>3. call'[t] = r /\ \A x \in Tasks \ {t} : call'[x] = call[x]
    BY <2>1, CallSet
  <2>4. OrderInv'
    BY <2>1, <2>2, <2>3 DEF OrderInv, PrioOK
  <2>5. GotOf' = [GotOf EXCEPT ![t] = None]
    <3>1. Given(r) = None
      BY <2>2 DEF Given
    <3> QED BY <3>1, <2>3, GotChanges
  <2>6. P!PNext
    BY <2>1, <2>5, FifoSame, PMapping
  <2> QED BY <2>4, <2>6 DEF PqAllowed
<1>7. CASE ReceiveWakes(t)
  <2>1. call[t].at = "wakesender" /\ msglist' = msglist /\ (Goes(t, "unlock") \/ call' = call)
    BY <1>7 DEF ReceiveWakes, CallAt
  <2> QED BY <2>1, LeavesOrdered, QuietCalls
<1> QED BY <1>2, <1>3, <1>4, <1>5, <1>6, <1>7 DEF ReceiveStep

(* Every step of the queues is a step of PriorityQueue, or none.           *)
LEMMA OrderedStep ==
  ASSUME MqInv, OrderInv, [MqNext]_mqvars
  PROVE  OrderInv' /\ PqAllowed
<1>1. ASSUME NEW t \in Tasks, Unlocks(t) \/ Deletes(t) PROVE OrderInv' /\ PqAllowed
  <2>1. call[t].at \in {"unlock", "delete"} /\ msglist' = msglist
    BY <1>1 DEF Unlocks, Deletes, CallAt, queuevars
  <2>2. CASE call' = [call EXCEPT ![t] = User]
    <3>1. call'[t] = User /\ \A x \in Tasks \ {t} : call'[x] = call[x]
      BY <2>2, CallSet
    <3>2. PrioOK(User) /\ User.at # "doreceive"
      BY DEF PrioOK, User
    <3> QED BY <2>1, <3>1, <3>2, QuietStep
  <2>3. CASE Goes(t, "delete")
    BY <2>1, <2>3, LeavesOrdered
  <2>4. call' = [call EXCEPT ![t] = User] \/ Goes(t, "delete")
    <3>1. call \in [Tasks -> MqCalls]
      BY CallsFacts
    <3> QED BY <3>1, <1>1 DEF Unlocks, Deletes, Goes
  <2> QED BY <2>2, <2>3, <2>4
<1>2. ASSUME NEW q \in Queues, NEW p \in Prios, InterruptSends(q, p) PROVE OrderInv' /\ PqAllowed
  <2> DEFINE m == [prio |-> p, from |-> Handler, type |-> AllocType]
  <2>1. msglist' = InsertMessage(q, m) /\ call' = call
    BY <1>2 DEF InterruptSends
  <2>2. m \in Messages /\ m.prio = p /\ m.from = Handler
    BY MqAssumption DEF Messages, AllocType
  <2> HIDE DEF m
  <2>3. /\ ListsInOrder(msglist') /\ FifoOf' = [FifoOf EXCEPT ![q][p] = Append(@, Handler)]
    BY <2>1, <2>2, FifoSends DEF MqInv
  <2>4. OrderInv'
    BY <2>1, <2>3 DEF OrderInv
  <2>5. GotOf' = GotOf /\ Handler \in PqSenders
    BY <2>1 DEF GotOf, PqSenders
  <2>6. P!PNext
    BY <2>3, <2>5, PMapping
  <2> QED BY <2>4, <2>6 DEF PqAllowed
<1>3. ASSUME NEW x \in Tasks, Signal(x) \/ HeapFreed(x) PROVE OrderInv' /\ PqAllowed
  BY <1>3, QuietCalls DEF Signal, HeapFreed, queuevars
<1>4. CASE TimerBegins \/ Timeout \/ TimerEnds
  BY <1>4, QuietCalls DEF TimerBegins, Timeout, TimerEnds, queuevars
<1>5. CASE UNCHANGED mqvars
  BY <1>5, QuietCalls DEF mqvars
<1> QED BY <1>1, <1>2, <1>3, <1>4, <1>5, SendOrdered, ReceiveOrdered DEF MqNext

(* The queues are empty at first.                                          *)
LEMMA OrderInit ==
  ASSUME MqInit
  PROVE  OrderInv /\ P!PInit
<1>1. call = [t \in Tasks |-> User] /\ msglist = [q \in Queues |-> <<>>]
  BY DEF MqInit
<1>2. OrderInv
  <2>1. \A t \in Tasks : PrioOK(call[t])
    BY <1>1 DEF PrioOK, User
  <2>2. Descends(<<>>) /\ InPrios(<<>>)
    BY DEF Descends, InPrios
  <2> QED BY <1>1, <2>1, <2>2 DEF OrderInv, ListsInOrder
<1>3. \A p : OfPrio(<<>>, p) = <<>>
  <2>1. ASSUME NEW e \in Seq(Messages), e = <<>>, NEW p PROVE OfPrio(e, p) = <<>>
    <3>1. Len(e) = 0
      BY <2>1
    <3>2. Spans(e, p, 1, 0)
      BY <3>1 DEF Spans
    <3>3. OfPrio(e, p) = Block(e, 1, 0) /\ Block(e, 1, 0) \in Seq(PqSenders)
          /\ Len(Block(e, 1, 0)) = 0
      BY <3>2, BlockIs
    <3> QED BY <3>3, EmptySeq
  <2>2. <<>> \in Seq(Messages)
    OBVIOUS
  <2> QED BY <2>1, <2>2
<1>4. FifoOf = [q \in Queues |-> [p \in Prios |-> <<>>]]
  BY <1>1, <1>3 DEF FifoOf
<1>5. GotOf = [t \in Tasks |-> None]
  BY <1>1 DEF GotOf, User
<1> QED BY <1>2, <1>4, <1>5, PMapping

(* The queues implement PriorityQueue: every message is received once, the *)
(* oldest of the highest priority first, whatever order tasks, interrupt   *)
(* handlers, timeouts and signals take in mq_dosend and mq_waitreceive.    *)
THEOREM MessagesInOrderAlways == MqSpec => MessagesInOrder
<1>1. Scheduled /\ MqInit => OrderInv /\ P!PInit
  BY OrderInit
<1>2. MqInv /\ OrderInv /\ [MqNext]_mqvars => OrderInv' /\ [P!PNext]_P!pqvars
  BY OrderedStep DEF PqAllowed
<1> QED BY <1>1, <1>2, MqInvAlways, PTL DEF MqSpec, MessagesInOrder, P!PSpec
=============================================================================
