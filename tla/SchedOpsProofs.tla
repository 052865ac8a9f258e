--------------------------- MODULE SchedOpsProofs ---------------------------
(***************************************************************************)
(* Every operation of the scheduler keeps a well-formed state well formed: *)
(* the lists agree with the task states, prioritized lists are in order,   *)
(* the idle task ends g_readytorun and the head is the one RUNNING task.   *)
(***************************************************************************)
EXTENDS SchedOps, TaskListProofs

WellFormed(z) ==
  /\ z \in SchedStates
  /\ Consistent(z)
  /\ InOrder(z)
  /\ IdleEnds(z)
  /\ HeadRuns(z)

(* What holds even while no task, or a task on its way out, is RUNNING.    *)
Shaped(z) ==
  /\ z \in SchedStates
  /\ Consistent(z)
  /\ InOrder(z)
  /\ IdleEnds(z)

(* The TCB fields that operations on lists leave alone.                    *)
SameTcbs(y, z) ==
  /\ y.sched_priority = z.sched_priority
  /\ y.init_priority = z.init_priority
  /\ y.lockcount = z.lockcount
  /\ y.round_robin = z.round_robin
  /\ y.g_pidhash = z.g_pidhash

(* The tasks in neither g_readytorun nor g_pendingtasks, before or after,  *)
(* keep their state: all of them, or all but t.                            *)
Unready == {"INVALID"} \cup BlockedStates

UnreadyStay(y, z) ==
  \A x \in Tasks : z.task_state[x] \in Unready \/ y.task_state[x] \in Unready =>
                     y.task_state[x] = z.task_state[x]

OthersStay(y, z, t) ==
  \A x \in Tasks \ {t} : z.task_state[x] \in Unready \/ y.task_state[x] \in Unready =>
                           y.task_state[x] = z.task_state[x]

(* Which states these are. *)
LEMMA UnreadyStates ==
  /\ "INVALID" \in Unready /\ BlockedStates \subseteq Unready
  /\ \A st \in {"PENDING", "READYTORUN", "RUNNING"} : st \notin Unready
BY DEF Unready, BlockedStates, WaitStates

(* The list column of g_tasklisttable.                                     *)
LEMMA TaskListTable ==
  /\ tasklist("INVALID") = "NULL" /\ "NULL" \notin Lists
  /\ tasklist("PENDING") = "g_pendingtasks"
  /\ tasklist("READYTORUN") = "g_readytorun"
  /\ tasklist("RUNNING") = "g_readytorun"
  /\ \A st \in TaskStates : tasklist(st) = "g_readytorun" => st \in {"READYTORUN", "RUNNING"}
  /\ \A st \in TaskStates : tasklist(st) = "g_pendingtasks" => st = "PENDING"
  /\ \A st \in TaskStates \ {"INVALID"} : tasklist(st) \in Lists
  /\ \A st \in BlockedStates : tasklist(st) \in Lists \ {"g_readytorun", "g_pendingtasks"}
  /\ \A st \in TaskStates \ {"INVALID"} : prioritized(st) <=> tasklist(st) \in PrioritizedLists
BY DEF tasklist, Lists, TaskStates, BlockedStates, WaitStates, prioritized, PrioritizedLists

(* The names of the lists that the proofs tell apart. *)
LEMMA ListNames ==
  /\ PrioritizedLists \subseteq Lists
  /\ "g_readytorun" \in PrioritizedLists
  /\ "g_pendingtasks" \in PrioritizedLists
  /\ "g_inactivetasks" \in Lists
  /\ "g_readytorun" # "g_pendingtasks"
BY DEF Lists, PrioritizedLists

(* A uint8_t priority can be compared as an integer. *)
LEMMA PrioritiesAreIntegers ==
  ASSUME NEW f \in [Tasks -> 0 .. 255]
  PROVE  f \in [Tasks -> Int]
OBVIOUS

(* The types of the parts of a scheduler state.                            *)
LEMMA StateTypes ==
  ASSUME NEW z \in SchedStates
  PROVE  /\ \A l \in Lists : z.list[l] \in Seq(Tasks)
         /\ \A t \in Tasks : z.task_state[t] \in TaskStates
         /\ z.sched_priority \in [Tasks -> Int]
         /\ \A t \in Tasks : z.sched_priority[t] \in 0 .. SCHED_PRIORITY_MAX
         /\ \A t \in Tasks : z.lockcount[t] \in Nat
<1>1. /\ z.list \in [Lists -> Seq(Tasks)]
      /\ z.task_state \in [Tasks -> TaskStates]
      /\ z.sched_priority \in [Tasks -> 0 .. SCHED_PRIORITY_MAX]
      /\ z.lockcount \in [Tasks -> Nat]
  BY DEF SchedStates
<1>2. z.sched_priority \in [Tasks -> Int]
  BY <1>1, PrioritiesAreIntegers DEF SCHED_PRIORITY_MAX
<1> QED BY <1>1, <1>2

(* Linking t into list l.                                                  *)
LEMMA LinkConsistent ==
  ASSUME NEW z \in SchedStates, NEW y \in SchedStates, NEW t \in Tasks, NEW l \in Lists,
         Consistent(z),
         tasklist(z.task_state[t]) \notin Lists,
         tasklist(y.task_state[t]) = l,
         \A x \in Tasks \ {t} : tasklist(y.task_state[x]) = tasklist(z.task_state[x]),
         \A m \in Lists \ {l} : y.list[m] = z.list[m],
         Distinct(y.list[l]),
         \A x \in Tasks : Linked(y.list[l], x) <=> Linked(z.list[l], x) \/ x = t
  PROVE  Consistent(y)
<1> SUFFICES ASSUME NEW m \in Lists
             PROVE  /\ Distinct(y.list[m])
                    /\ \A x \in Tasks : Linked(y.list[m], x) <=> tasklist(y.task_state[x]) = m
  BY DEF Consistent
<1>1. /\ Distinct(z.list[m])
      /\ \A x \in Tasks : Linked(z.list[m], x) <=> tasklist(z.task_state[x]) = m
  BY DEF Consistent
<1>2. CASE m = l
  <2>1. ASSUME NEW x \in Tasks PROVE Linked(y.list[m], x) <=> tasklist(y.task_state[x]) = m
    BY <1>1, <1>2
  <2> QED BY <1>2, <2>1
<1>3. CASE m # l
  <2>1. ASSUME NEW x \in Tasks PROVE Linked(y.list[m], x) <=> tasklist(y.task_state[x]) = m
    BY <1>1, <1>3
  <2> QED BY <1>1, <1>3, <2>1
<1> QED BY <1>2, <1>3

(* Unlinking t from list l.                                                *)
LEMMA UnlinkConsistent ==
  ASSUME NEW z \in SchedStates, NEW y \in SchedStates, NEW t \in Tasks, NEW l \in Lists,
         Consistent(z),
         tasklist(z.task_state[t]) = l,
         tasklist(y.task_state[t]) \notin Lists,
         \A x \in Tasks \ {t} : tasklist(y.task_state[x]) = tasklist(z.task_state[x]),
         \A m \in Lists \ {l} : y.list[m] = z.list[m],
         Distinct(y.list[l]),
         \A x \in Tasks : Linked(y.list[l], x) <=> Linked(z.list[l], x) /\ x # t
  PROVE  Consistent(y)
<1> SUFFICES ASSUME NEW m \in Lists
             PROVE  /\ Distinct(y.list[m])
                    /\ \A x \in Tasks : Linked(y.list[m], x) <=> tasklist(y.task_state[x]) = m
  BY DEF Consistent
<1>1. /\ Distinct(z.list[m])
      /\ \A x \in Tasks : Linked(z.list[m], x) <=> tasklist(z.task_state[x]) = m
  BY DEF Consistent
<1>2. CASE m = l
  <2>1. ASSUME NEW x \in Tasks PROVE Linked(y.list[m], x) <=> tasklist(y.task_state[x]) = m
    BY <1>1, <1>2
  <2> QED BY <1>2, <2>1
<1>3. CASE m # l
  <2>1. ASSUME NEW x \in Tasks PROVE Linked(y.list[m], x) <=> tasklist(y.task_state[x]) = m
    BY <1>1, <1>3
  <2> QED BY <1>1, <1>3, <2>1
<1> QED BY <1>2, <1>3

(* A well-formed ready list: its head, its tail, and who is in it.         *)
LEMMA ShapedReadyList ==
  ASSUME NEW z, Shaped(z)
  PROVE  LET q == z.list["g_readytorun"]
         IN  /\ q \in Seq(Tasks) /\ Len(q) \in Nat \ {0} /\ DOMAIN q = 1 .. Len(q)
             /\ Running(z) = q[1] /\ Running(z) \in Tasks
             /\ q[Len(q)] = Idle
             /\ \A t \in Tasks : Linked(q, t) <=> z.task_state[t] \in {"READYTORUN", "RUNNING"}
             /\ z.task_state[Idle] \in {"READYTORUN", "RUNNING"}
             /\ z.sched_priority[Idle] = 0
<1> DEFINE q == z.list["g_readytorun"]
<1>1. q \in Seq(Tasks) /\ q # <<>>
  BY ListNames, StateTypes DEF Shaped, IdleEnds
<1>2. Len(q) \in Nat \ {0} /\ DOMAIN q = 1 .. Len(q)
  BY <1>1, EmptySeq, LenProperties
<1>3. Running(z) = q[1] /\ q[1] \in Tasks
  BY <1>1, <1>2, ElementOfSeq DEF Running
<1>4. q[Len(q)] = Idle /\ z.sched_priority[Idle] = 0
  BY DEF Shaped, IdleEnds, Last
<1>5. ASSUME NEW t \in Tasks
      PROVE  Linked(q, t) <=> z.task_state[t] \in {"READYTORUN", "RUNNING"}
  <2>1. Linked(q, t) <=> tasklist(z.task_state[t]) = "g_readytorun"
    BY ListNames DEF Shaped, Consistent
  <2>2. z.task_state[t] \in TaskStates
    BY StateTypes DEF Shaped
  <2> QED BY <2>1, <2>2, TaskListTable
<1>6. Linked(q, Idle)
  BY <1>2, <1>4 DEF Linked
<1> QED BY <1>1, <1>2, <1>3, <1>4, <1>5, <1>6, IdleAssumption

(* In a well-formed state g_readytorun holds exactly the ready tasks and
   ends with the idle task, so it is never empty. *)
LEMMA ReadyList ==
  ASSUME NEW z, WellFormed(z)
  PROVE  LET q == z.list["g_readytorun"]
         IN  /\ q \in Seq(Tasks) /\ Len(q) \in Nat \ {0} /\ DOMAIN q = 1 .. Len(q)
             /\ Running(z) = q[1] /\ Running(z) \in Tasks
             /\ q[Len(q)] = Idle
             /\ \A t \in Tasks : Linked(q, t) <=> z.task_state[t] \in {"READYTORUN", "RUNNING"}
             /\ z.task_state[Idle] \in {"READYTORUN", "RUNNING"}
             /\ z.sched_priority[Idle] = 0
<1>1. Shaped(z)
  BY DEF WellFormed, Shaped
<1> QED BY <1>1, ShapedReadyList

(* Replacing one list and the task states.                                 *)
Relist(z, l, r, st) == [z EXCEPT !.list[l] = r, !.task_state = st]

(* What a step that relinks one list and rewrites task states leaves alone. *)
LEMMA Relisted ==
  ASSUME NEW z \in SchedStates, NEW l \in Lists, NEW r \in Seq(Tasks),
         NEW st \in [Tasks -> TaskStates]
  PROVE  LET y == Relist(z, l, r, st)
         IN  /\ y \in SchedStates
             /\ y.list[l] = r
             /\ \A m \in Lists \ {l} : y.list[m] = z.list[m]
             /\ y.task_state = st
             /\ SameTcbs(y, z) /\ y.panic = z.panic /\ y.timeslice = z.timeslice
<1> DEFINE y == Relist(z, l, r, st)
<1>1. /\ y.list = [z.list EXCEPT ![l] = r] /\ y.task_state = st
      /\ y.sched_priority = z.sched_priority /\ y.init_priority = z.init_priority
      /\ y.lockcount = z.lockcount /\ y.timeslice = z.timeslice
      /\ y.round_robin = z.round_robin /\ y.g_pidhash = z.g_pidhash /\ y.panic = z.panic
  BY DEF SchedStates, Relist
<1>2. y \in SchedStates
  BY DEF SchedStates, Relist
<1>3. z.list \in [Lists -> Seq(Tasks)]
  BY DEF SchedStates
<1> HIDE DEF y
<1>4. y.list[l] = r /\ \A m \in Lists \ {l} : y.list[m] = z.list[m]
  BY <1>1, <1>3
<1> QED BY <1>1, <1>2, <1>4 DEF SameTcbs, y

(* The priority order of all lists after one of them was replaced.         *)
LEMMA RelistedInOrder ==
  ASSUME NEW y, NEW z, InOrder(z), SameTcbs(y, z), NEW l \in Lists,
         \A m \in Lists \ {l} : y.list[m] = z.list[m],
         l \in PrioritizedLists => Sorted(y.list[l], z.sched_priority)
  PROVE  InOrder(y)
BY ListNames DEF InOrder, SameTcbs

(* sched_removereadytorun of any task but the idle task.                   *)
LEMMA RemoveReady ==
  ASSUME NEW z, WellFormed(z), NEW t \in Tasks \ {Idle},
         z.task_state[t] \in {"READYTORUN", "RUNNING"}
  PROVE  LET y == sched_removereadytorun(z, t)
         IN  /\ WellFormed(y)
             /\ SameTcbs(y, z) /\ y.panic = z.panic /\ y.timeslice = z.timeslice
             /\ y.task_state[t] = "INVALID" /\ OthersStay(y, z, t)
             /\ y.list["g_pendingtasks"] = z.list["g_pendingtasks"]
             /\ Running(z) # t => Running(y) = Running(z)
             /\ KeepsOrder(z.list["g_readytorun"], y.list["g_readytorun"], Tasks \ {t})
<1> DEFINE q == z.list["g_readytorun"]
           r == dq_rem(q, t)
           y == sched_removereadytorun(z, t)
           st == IF Running(z) = t
                 THEN [[z.task_state EXCEPT ![t] = "INVALID"] EXCEPT ![q[2]] = "RUNNING"]
                 ELSE [z.task_state EXCEPT ![t] = "INVALID"]
<1>z. z \in SchedStates /\ Consistent(z) /\ InOrder(z) /\ IdleEnds(z) /\ HeadRuns(z)
  BY DEF WellFormed
<1>1. /\ q \in Seq(Tasks) /\ Len(q) \in Nat \ {0} /\ DOMAIN q = 1 .. Len(q)
      /\ Running(z) = q[1] /\ Head(q) = q[1]
      /\ q[Len(q)] = Idle /\ \E n \in DOMAIN q : q[n] = t
  BY ReadyList DEF Running, Linked
<1>2. Distinct(q) /\ Sorted(q, z.sched_priority)
  BY <1>z, ListNames DEF Consistent, InOrder
<1>3. /\ r \in Seq(Tasks) /\ Len(r) = Len(q) - 1 /\ Distinct(r)
      /\ \A x \in Tasks : Linked(r, x) <=> Linked(q, x) /\ x # t
      /\ q[1] = t /\ Len(q) > 1 => r[1] = q[2]
      /\ q[1] # t => r[1] = q[1]
      /\ Len(q) > 1 /\ r[Len(q) - 1] = Idle
  <2> HIDE DEF q, r
  <2>0. r = dq_rem(q, t) /\ q[Len(q)] # t
    BY <1>1 DEF r
  <2>1. q \in Seq(Tasks) /\ t \in Tasks /\ Distinct(q) /\ \E n \in DOMAIN q : q[n] = t
    BY <1>1, <1>2
  <2>2. dq_rem(q, t) \in Seq(Tasks) /\ Len(dq_rem(q, t)) = Len(q) - 1 /\ Distinct(dq_rem(q, t))
    BY <2>1, DqRemUnlinks
  <2>3. \A x \in Tasks : Linked(dq_rem(q, t), x) <=> Linked(q, x) /\ x # t
    BY <2>1, DqRemUnlinks
  <2>4. /\ q[1] = t /\ Len(q) > 1 => dq_rem(q, t)[1] = q[2]
        /\ q[1] # t => dq_rem(q, t)[1] = q[1]
        /\ q[Len(q)] # t => Len(q) > 1 /\ dq_rem(q, t)[Len(q) - 1] = q[Len(q)]
    BY <2>1, DqRemUnlinks
  <2> QED BY <1>1, <2>0, <2>2, <2>3, <2>4
<1>4. Sorted(r, z.sched_priority)
  BY <1>z, <1>1, <1>2, StateTypes, DqRemSorted
<1>o. KeepsOrder(q, r, Tasks \ {t})
  <2> HIDE DEF q
  <2> QED BY <1>1, DqRemOrder
<1>5. q[2] \in Tasks /\ Linked(q, q[2]) /\ (q[1] = t => q[2] # t)
  <2>1. 2 \in 1 .. Len(q) /\ 1 \in 1 .. Len(q)
    BY <1>1, <1>3
  <2> QED BY <2>1, <1>1, <1>2, ElementOfSeq DEF Linked, Distinct
<1>6. y = [z EXCEPT !.list["g_readytorun"] = r, !.task_state = st]
  BY <1>z, <1>1, <1>3 DEF sched_removereadytorun, Running, SchedStates
<1>7. /\ y \in SchedStates
      /\ y.list = [z.list EXCEPT !["g_readytorun"] = r]
      /\ y.task_state = st
      /\ SameTcbs(y, z) /\ y.panic = z.panic /\ y.timeslice = z.timeslice
  <2> HIDE DEF r, y
  <2>1. st \in [Tasks -> TaskStates]
    BY <1>z, <1>5 DEF SchedStates, TaskStates
  <2> HIDE DEF st
  <2> QED BY <1>z, <1>3, <1>6, <2>1 DEF SchedStates, SameTcbs
<1>8. st[t] = "INVALID" /\ \A x \in Tasks \ {t} : tasklist(st[x]) = tasklist(z.task_state[x])
  <2>1. z.task_state \in [Tasks -> TaskStates]
    BY <1>z DEF SchedStates
  <2>2. Running(z) = t => st[t] = "INVALID" /\ \A x \in Tasks \ {t} : st[x] = IF x = q[2] THEN "RUNNING" ELSE z.task_state[x]
    BY <2>1, <1>1, <1>5
  <2>3. Running(z) # t => st[t] = "INVALID" /\ \A x \in Tasks \ {t} : st[x] = z.task_state[x]
    BY <2>1
  <2>4. z.task_state[q[2]] \in {"READYTORUN", "RUNNING"}
    BY <1>5, ReadyList
  <2> QED BY <2>2, <2>3, <2>4, TaskListTable
<1> HIDE DEF r, y, st
<1>9. /\ \A m \in Lists \ {"g_readytorun"} : y.list[m] = z.list[m]
      /\ y.list["g_readytorun"] = r
  BY <1>z, <1>7, ListNames DEF SchedStates
<1>10. Consistent(y)
  <2>1. tasklist(z.task_state[t]) = "g_readytorun" /\ tasklist(y.task_state[t]) \notin Lists
    BY <1>7, <1>8, TaskListTable
  <2>2. /\ "g_readytorun" \in Lists /\ t \in Tasks
        /\ Distinct(y.list["g_readytorun"])
        /\ \A x \in Tasks : Linked(y.list["g_readytorun"], x) <=> Linked(z.list["g_readytorun"], x) /\ x # t
        /\ \A x \in Tasks \ {t} : tasklist(y.task_state[x]) = tasklist(z.task_state[x])
    BY <1>3, <1>7, <1>8, <1>9, ListNames
  <2> QED BY <1>z, <1>7, <1>9, <2>1, <2>2, UnlinkConsistent, ZenonT(30)
<1>11. InOrder(y)
  BY <1>z, <1>4, <1>7, <1>9, ListNames DEF InOrder, SameTcbs
<1>12. Running(y) = r[1] /\ r # <<>> /\ r[1] \in Tasks
  BY <1>3, <1>9, <1>1, ElementOfSeq DEF Running
<1>13. ASSUME NEW x \in Tasks PROVE x # t => (st[x] = "INVALID" <=> z.task_state[x] = "INVALID")
  BY <1>8, TaskListTable, <1>z, <1>7, StateTypes
<1>14. IdleEnds(y)
  BY <1>z, <1>3, <1>7, <1>8, <1>9, <1>12, <1>13 DEF IdleEnds, Last, SameTcbs
<1>15. HeadRuns(y)
  <2>0. z.task_state \in [Tasks -> TaskStates]
    BY <1>z DEF SchedStates
  <2>1. CASE Running(z) = t
    <3>1. st = [[z.task_state EXCEPT ![t] = "INVALID"] EXCEPT ![q[2]] = "RUNNING"]
      BY <2>1 DEF st
    <3>2. Running(y) = q[2] /\ q[2] \in Tasks /\ q[2] # t
      BY <2>1, <1>1, <1>3, <1>5, <1>12
    <3>3. \A x \in Tasks : z.task_state[x] = "RUNNING" <=> x = t
      BY <2>1, <1>z DEF HeadRuns
    <3>4. \A x \in Tasks : y.task_state[x] = "RUNNING" <=> x = q[2]
      <4> HIDE DEF q
      <4> QED BY <2>0, <3>1, <3>2, <3>3, <1>7
    <3> QED BY <3>2, <3>4 DEF HeadRuns
  <2>2. CASE Running(z) # t
    <3>1. st = [z.task_state EXCEPT ![t] = "INVALID"]
      BY <2>2 DEF st
    <3> QED BY <2>0, <2>2, <3>1, <1>z, <1>1, <1>3, <1>7, <1>12 DEF HeadRuns
  <2> QED BY <2>1, <2>2
<1>16. WellFormed(y)
  BY <1>7, <1>10, <1>11, <1>14, <1>15 DEF WellFormed
<1>17. y.list["g_pendingtasks"] = z.list["g_pendingtasks"]
  BY <1>9, ListNames
<1>18. OthersStay(y, z, t)
  <2>1. z.task_state \in [Tasks -> TaskStates] /\ z.task_state[q[2]] \in {"READYTORUN", "RUNNING"}
    BY <1>z, <1>5, ReadyList DEF SchedStates
  <2> QED BY <2>1, <1>5, <1>7 DEF OthersStay, st, Unready, BlockedStates, WaitStates
<1>19. KeepsOrder(z.list["g_readytorun"], y.list["g_readytorun"], Tasks \ {t})
  BY <1>9, <1>o
<1> QED BY <1>1, <1>3, <1>7, <1>8, <1>12, <1>16, <1>17, <1>18, <1>19 DEF y

(* sched_addprioritized of an unlinked task to a prioritized list.         *)
LEMMA AddToList ==
  ASSUME NEW z \in SchedStates, Consistent(z), InOrder(z),
         NEW t \in Tasks, z.task_state[t] = "INVALID", NEW l \in PrioritizedLists
  PROVE  LET q == z.list[l]
             r == sched_addprioritized(q, z.sched_priority, t)
         IN  /\ r \in Seq(Tasks) /\ Len(r) = Len(q) + 1 /\ Distinct(r)
             /\ Sorted(r, z.sched_priority)
             /\ \A x \in Tasks : Linked(r, x) <=> Linked(q, x) \/ x = t
             /\ q # <<>> /\ z.sched_priority[q[1]] < z.sched_priority[t] => r[1] = t /\ r[2] = q[1]
             /\ q # <<>> /\ z.sched_priority[t] <= z.sched_priority[q[1]] => r[1] = q[1]
             /\ q # <<>> /\ z.sched_priority[q[Len(q)]] < z.sched_priority[t] =>
                  r[Len(q) + 1] = q[Len(q)]
<1> DEFINE q == z.list[l]
           prio == z.sched_priority
           r == sched_addprioritized(q, prio, t)
<1>1. q \in Seq(Tasks) /\ prio \in [Tasks -> Int] /\ l \in Lists
  BY ListNames, StateTypes
<1>2. Distinct(q) /\ Sorted(q, prio)
  BY <1>1 DEF Consistent, InOrder
<1>3. ~Linked(q, t)
  BY <1>1, TaskListTable DEF Consistent
<1>4. \A n \in DOMAIN q : q[n] # t
  BY <1>3 DEF Linked
<1> HIDE DEF q, prio
<1>5. r \in Seq(Tasks) /\ Len(r) = Len(q) + 1 /\ Distinct(r) /\ Sorted(r, prio)
  BY <1>1, <1>2, <1>4, AddPrioritizedKeeps
<1>6. \A x \in Tasks : Linked(r, x) <=> Linked(q, x) \/ x = t
  BY <1>1, <1>2, <1>4, AddPrioritizedKeeps
<1>7. /\ q # <<>> /\ prio[q[1]] < prio[t] => r[1] = t /\ r[2] = q[1]
      /\ q # <<>> /\ prio[t] <= prio[q[1]] => r[1] = q[1]
      /\ q # <<>> /\ prio[q[Len(q)]] < prio[t] => r[Len(q) + 1] = q[Len(q)]
  BY <1>1, <1>2, <1>4, AddPrioritizedKeeps
<1> QED BY <1>5, <1>6, <1>7 DEF q, prio

(* Only INVALID tasks are in no list.                                      *)
LEMMA InvalidTasks ==
  ASSUME NEW st \in TaskStates
  PROVE  st = "INVALID" <=> tasklist(st) \notin Lists
BY TaskListTable

(* Linking t, which is in no list, into list l.                            *)
LEMMA LinkShaped ==
  ASSUME NEW z, Shaped(z), NEW t \in Tasks \ {Idle}, z.task_state[t] = "INVALID",
         z.sched_priority[t] > 0,
         NEW l \in Lists, NEW r \in Seq(Tasks), NEW st \in [Tasks -> TaskStates],
         tasklist(st[t]) = l,
         \A x \in Tasks \ {t} : tasklist(st[x]) = tasklist(z.task_state[x]),
         Distinct(r), \A x \in Tasks : Linked(r, x) <=> Linked(z.list[l], x) \/ x = t,
         l \in PrioritizedLists => Sorted(r, z.sched_priority),
         l = "g_readytorun" => r # <<>> /\ r[Len(r)] = Idle
  PROVE  LET y == Relist(z, l, r, st)
         IN  /\ Shaped(y) /\ SameTcbs(y, z) /\ y.panic = z.panic /\ y.timeslice = z.timeslice
             /\ y.list[l] = r /\ \A m \in Lists \ {l} : y.list[m] = z.list[m]
             /\ y.task_state = st
<1> DEFINE y == Relist(z, l, r, st)
<1>z. z \in SchedStates /\ Consistent(z) /\ InOrder(z) /\ IdleEnds(z)
  BY DEF Shaped
<1>1. /\ y \in SchedStates
      /\ y.list[l] = r
      /\ \A m \in Lists \ {l} : y.list[m] = z.list[m]
      /\ y.task_state = st
      /\ SameTcbs(y, z) /\ y.panic = z.panic /\ y.timeslice = z.timeslice
  BY <1>z, Relisted
<1> HIDE DEF y
<1>2. Consistent(y)
  <2>1. tasklist(z.task_state[t]) \notin Lists
    BY TaskListTable
  <2>2. /\ tasklist(y.task_state[t]) = l
        /\ \A x \in Tasks \ {t} : tasklist(y.task_state[x]) = tasklist(z.task_state[x])
        /\ Distinct(y.list[l])
        /\ \A x \in Tasks : Linked(y.list[l], x) <=> Linked(z.list[l], x) \/ x = t
    BY <1>1
  <2> QED BY <1>z, <1>1, <2>1, <2>2, LinkConsistent
<1>3. InOrder(y)
  BY <1>z, <1>1, RelistedInOrder
<1>4. IdleEnds(y)
  <2>1. y.list["g_readytorun"] # <<>> /\ Last(y.list["g_readytorun"]) = Idle
    <3>1. CASE l = "g_readytorun"
      BY <3>1, <1>1 DEF Last
    <3>2. CASE l # "g_readytorun"
      BY <3>2, <1>z, <1>1, ListNames DEF IdleEnds
    <3> QED BY <3>1, <3>2
  <2>2. ASSUME NEW x \in Tasks \ {Idle}, y.task_state[x] # "INVALID"
        PROVE  y.sched_priority[x] > 0
    <3>1. y.sched_priority[x] = z.sched_priority[x]
      BY <1>1 DEF SameTcbs
    <3>2. CASE x = t
      BY <3>1, <3>2
    <3>3. CASE x # t
      <4>1. z.task_state[x] \in TaskStates /\ st[x] \in TaskStates /\ st[x] # "INVALID"
        BY <1>z, <1>1, <2>2, StateTypes
      <4>2. z.task_state[x] # "INVALID"
        BY <4>1, <3>3, InvalidTasks
      <4> QED BY <4>2, <3>1, <1>z DEF IdleEnds
    <3> QED BY <3>2, <3>3
  <2>3. y.sched_priority[Idle] = 0
    BY <1>z, <1>1 DEF IdleEnds, SameTcbs
  <2> QED BY <2>1, <2>2, <2>3 DEF IdleEnds
<1>5. Shaped(y)
  BY <1>1, <1>2, <1>3, <1>4 DEF Shaped
<1> QED BY <1>1, <1>5 DEF y

(* Unlinking t from list l, another list than g_readytorun.                *)
LEMMA UnlinkShaped ==
  ASSUME NEW z, Shaped(z), NEW t \in Tasks, NEW l \in Lists \ {"g_readytorun"},
         tasklist(z.task_state[t]) = l,
         NEW st \in [Tasks -> TaskStates], st[t] = "INVALID",
         \A x \in Tasks \ {t} : st[x] = z.task_state[x]
  PROVE  LET y == Relist(z, l, dq_rem(z.list[l], t), st)
         IN  /\ Shaped(y) /\ SameTcbs(y, z) /\ y.panic = z.panic /\ y.timeslice = z.timeslice
             /\ \A m \in Lists \ {l} : y.list[m] = z.list[m]
             /\ y.task_state = st
<1> DEFINE q == z.list[l]
           r == dq_rem(q, t)
           y == Relist(z, l, r, st)
<1>z. z \in SchedStates /\ Consistent(z) /\ InOrder(z) /\ IdleEnds(z)
  BY DEF Shaped
<1>1. q \in Seq(Tasks) /\ Distinct(q) /\ \E n \in DOMAIN q : q[n] = t
  BY <1>z, StateTypes DEF Consistent, Linked
<1>2. r \in Seq(Tasks) /\ Distinct(r) /\ \A x \in Tasks : Linked(r, x) <=> Linked(q, x) /\ x # t
  <2> HIDE DEF q
  <2> QED BY <1>1, DqRemUnlinks
<1>3. l \in PrioritizedLists => Sorted(r, z.sched_priority)
  <2>1. l \in PrioritizedLists => Sorted(q, z.sched_priority)
    BY <1>z DEF InOrder
  <2>2. z.sched_priority \in [Tasks -> Int]
    BY <1>z, StateTypes
  <2> HIDE DEF q
  <2> QED BY <1>1, <2>1, <2>2, DqRemSorted
<1> HIDE DEF r
<1>5. /\ y \in SchedStates
      /\ y.list[l] = r
      /\ \A m \in Lists \ {l} : y.list[m] = z.list[m]
      /\ y.task_state = st
      /\ SameTcbs(y, z) /\ y.panic = z.panic /\ y.timeslice = z.timeslice
  BY <1>z, <1>2, Relisted
<1> HIDE DEF y
<1>6. Consistent(y)
  <2>1. /\ tasklist(y.task_state[t]) \notin Lists
        /\ \A x \in Tasks \ {t} : tasklist(y.task_state[x]) = tasklist(z.task_state[x])
        /\ Distinct(y.list[l])
        /\ \A x \in Tasks : Linked(y.list[l], x) <=> Linked(z.list[l], x) /\ x # t
    BY <1>2, <1>5, TaskListTable
  <2> QED BY <1>z, <1>5, <2>1, UnlinkConsistent
<1>7. InOrder(y)
  BY <1>z, <1>3, <1>5, RelistedInOrder
<1>8. IdleEnds(y)
  BY <1>z, <1>5, ListNames DEF IdleEnds, SameTcbs
<1>9. Shaped(y)
  BY <1>5, <1>6, <1>7, <1>8 DEF Shaped
<1> QED BY <1>5, <1>9 DEF y, r

(* A task that is in no list.                                              *)
LEMMA InvalidUnlinked ==
  ASSUME NEW z \in SchedStates, Consistent(z), NEW t \in Tasks, z.task_state[t] = "INVALID",
         NEW l \in Lists
  PROVE  z.list[l] \in Seq(Tasks) /\ Distinct(z.list[l]) /\ \A n \in DOMAIN z.list[l] : z.list[l][n] # t
<1>1. ~Linked(z.list[l], t) /\ Distinct(z.list[l])
  BY TaskListTable DEF Consistent
<1> QED BY <1>1, StateTypes DEF Linked

(* sched_addreadytorun of any task but the idle task.                      *)
LEMMA AddReady ==
  ASSUME NEW z, WellFormed(z), NEW t \in Tasks \ {Idle}, z.task_state[t] = "INVALID",
         z.sched_priority[t] > 0
  PROVE  LET y == sched_addreadytorun(z, t)
         IN  /\ WellFormed(y)
             /\ SameTcbs(y, z) /\ y.panic = z.panic /\ y.timeslice = z.timeslice
             /\ y.task_state[t] \notin Unready /\ OthersStay(y, z, t)
             /\ \/ z.lockcount[Running(z)] > 0 /\ Running(y) = Running(z)
                \/ /\ y.list["g_pendingtasks"] = z.list["g_pendingtasks"]
                   /\ Running(y) \in {Running(z), t}
             /\ Running(y) = t => z.sched_priority[Running(z)] < z.sched_priority[t]
             /\ z.lockcount[Running(z)] > 0 => Running(y) = Running(z)
             /\ KeepsOrder(z.list["g_readytorun"], y.list["g_readytorun"], Tasks)
             /\ \A u \in Tasks : Ahead(y.list["g_readytorun"], t, u) =>
                                    z.sched_priority[u] < z.sched_priority[t]
<1> DEFINE q == z.list["g_readytorun"]
           prio == z.sched_priority
           rtcb == Running(z)
           r == sched_addprioritized(q, prio, t)
           rp == sched_addprioritized(z.list["g_pendingtasks"], prio, t)
           y == sched_addreadytorun(z, t)
<1>z. z \in SchedStates /\ Consistent(z) /\ InOrder(z) /\ IdleEnds(z) /\ HeadRuns(z) /\ Shaped(z)
  BY DEF WellFormed, Shaped
<1>0. z.task_state \in [Tasks -> TaskStates]
  BY <1>z DEF SchedStates
<1>1. /\ q \in Seq(Tasks) /\ Len(q) \in Nat \ {0} /\ q # <<>>
      /\ rtcb = q[1] /\ rtcb \in Tasks /\ rtcb # t
      /\ z.task_state[rtcb] = "RUNNING"
      /\ q[Len(q)] = Idle
      /\ prio[rtcb] \in Nat /\ prio[t] \in Nat /\ prio[Idle] = 0 /\ z.lockcount[rtcb] \in Nat
  <2>1. rtcb \in Tasks /\ z.task_state[rtcb] = "RUNNING"
    BY <1>z, ReadyList DEF HeadRuns
  <2>2. q # <<>>
    BY <1>z DEF IdleEnds
  <2>3. prio[rtcb] \in Nat /\ prio[t] \in Nat /\ prio[Idle] = 0 /\ z.lockcount[rtcb] \in Nat
    BY <1>z, <2>1, StateTypes DEF SCHED_PRIORITY_MAX, IdleEnds
  <2>4. q \in Seq(Tasks) /\ Len(q) \in Nat \ {0} /\ rtcb = q[1] /\ q[Len(q)] = Idle
    BY ReadyList
  <2> QED BY <2>1, <2>2, <2>3, <2>4
<1>a. AddPrioritized(z, "g_readytorun", t) = [z EXCEPT !.list["g_readytorun"] = r]
  BY <1>1 DEF AddPrioritized, PanicUnless, SCHED_PRIORITY_MIN
<1>b. AddPrioritized(z, "g_pendingtasks", t) = [z EXCEPT !.list["g_pendingtasks"] = rp]
  BY <1>1 DEF AddPrioritized, PanicUnless, SCHED_PRIORITY_MIN
<1>2. /\ r \in Seq(Tasks) /\ Len(r) = Len(q) + 1 /\ Distinct(r) /\ Sorted(r, prio)
      /\ \A x \in Tasks : Linked(r, x) <=> Linked(q, x) \/ x = t
      /\ prio[rtcb] < prio[t] => r[1] = t /\ r[2] = rtcb
      /\ prio[t] <= prio[rtcb] => r[1] = rtcb
      /\ r[Len(r)] = Idle
  <2>1. /\ r \in Seq(Tasks) /\ Len(r) = Len(q) + 1 /\ Distinct(r) /\ Sorted(r, prio)
        /\ \A x \in Tasks : Linked(r, x) <=> Linked(q, x) \/ x = t
    BY <1>z, AddToList, ListNames
  <2>2. /\ q # <<>> /\ prio[q[1]] < prio[t] => r[1] = t /\ r[2] = q[1]
        /\ q # <<>> /\ prio[t] <= prio[q[1]] => r[1] = q[1]
        /\ q # <<>> /\ prio[q[Len(q)]] < prio[t] => r[Len(q) + 1] = q[Len(q)]
    BY <1>z, AddToList, ListNames
  <2> HIDE DEF q, r, prio
  <2> QED BY <1>1, <2>1, <2>2 DEF prio
<1>q. /\ KeepsOrder(q, q, Tasks) /\ KeepsOrder(q, r, Tasks)
      /\ \A u \in Tasks : ~Ahead(q, t, u)
      /\ \A u \in Tasks : Ahead(r, t, u) => prio[u] < prio[t]
  <2>1. KeepsOrder(q, q, Tasks)
    BY DEF KeepsOrder
  <2>2. Distinct(q) /\ Sorted(q, prio) /\ \A n \in DOMAIN q : q[n] # t
    BY <1>z, ListNames, InvalidUnlinked DEF InOrder
  <2>3. prio \in [Tasks -> Int]
    BY <1>z, StateTypes
  <2>4. \A u \in Tasks : ~Ahead(q, t, u)
    BY <2>2 DEF Ahead
  <2> HIDE DEF q, prio
  <2>5. KeepsOrder(q, r, Tasks) /\ \A u \in Tasks : Ahead(r, t, u) => prio[u] < prio[t]
    BY <1>1, <2>2, <2>3, AddPrioritizedOrder
  <2> QED BY <2>1, <2>4, <2>5
<1>3. /\ rp \in Seq(Tasks) /\ Distinct(rp) /\ Sorted(rp, prio)
      /\ \A x \in Tasks : Linked(rp, x) <=> Linked(z.list["g_pendingtasks"], x) \/ x = t
  BY <1>z, AddToList, ListNames
<1>4. CASE z.lockcount[rtcb] > 0 /\ prio[rtcb] < prio[t]
  <2> DEFINE st == [z.task_state EXCEPT ![t] = "PENDING"]
  <2>1. y = Relist(z, "g_pendingtasks", rp, st)
    <3>1. y = [[z EXCEPT !.list["g_pendingtasks"] = rp] EXCEPT !.task_state[t] = "PENDING"]
      BY <1>4, <1>b DEF sched_addreadytorun
    <3> QED BY <3>1, <1>z DEF Relist, SchedStates
  <2>2. /\ st \in [Tasks -> TaskStates] /\ st[t] = "PENDING"
        /\ \A x \in Tasks \ {t} : st[x] = z.task_state[x]
    BY <1>0 DEF TaskStates
  <2> HIDE DEF rp, st, y, q
  <2>3. tasklist(st[t]) = "g_pendingtasks"
        /\ \A x \in Tasks \ {t} : tasklist(st[x]) = tasklist(z.task_state[x])
    BY <2>2, TaskListTable
  <2>4. /\ Shaped(y) /\ SameTcbs(y, z) /\ y.panic = z.panic /\ y.timeslice = z.timeslice
        /\ y.task_state = st
        /\ \A m \in Lists \ {"g_pendingtasks"} : y.list[m] = z.list[m]
    BY <1>z, <1>3, <2>1, <2>2, <2>3, ListNames, LinkShaped
  <2>5. y.list["g_readytorun"] = z.list["g_readytorun"] /\ Running(y) = Running(z)
    BY <2>4, ListNames DEF Running
  <2>6. HeadRuns(y)
    BY <1>z, <1>1, <2>2, <2>4, <2>5 DEF HeadRuns
  <2>7. WellFormed(y) /\ OthersStay(y, z, t) /\ y.task_state[t] \notin Unready
    BY <2>2, <2>4, <2>6, UnreadyStates DEF WellFormed, Shaped, OthersStay
  <2>8. /\ KeepsOrder(q, y.list["g_readytorun"], Tasks)
        /\ \A u \in Tasks : ~Ahead(y.list["g_readytorun"], t, u)
    BY <1>q, <2>5 DEF q
  <2> QED BY <1>1, <1>4, <2>2, <2>4, <2>5, <2>7, <2>8 DEF y, q
<1>5. CASE ~(z.lockcount[rtcb] > 0) /\ prio[rtcb] < prio[t]
  <2> DEFINE st == [[z.task_state EXCEPT ![t] = "RUNNING"] EXCEPT ![rtcb] = "READYTORUN"]
  <2>1. y = Relist(z, "g_readytorun", r, st)
    <3> DEFINE s1 == AddPrioritized(z, "g_readytorun", t)
    <3>1. s1.list["g_readytorun"] = r
      BY <1>a, <1>z, ListNames DEF SchedStates
    <3>2. Running(s1) = r[1] /\ (Running(s1) = t <=> prio[rtcb] < prio[t])
      BY <3>1, <1>1, <1>2 DEF Running
    <3>3. y = [s1 EXCEPT !.task_state = [@ EXCEPT ![t] = "RUNNING", ![rtcb] = "READYTORUN"]]
      <4>1. z.lockcount[rtcb] = 0 /\ Running(s1) = t
        BY <1>1, <1>5, <3>2
      <4>2. PanicUnless(s1, z.lockcount[rtcb] = 0, "LOCKED_SWITCH") = s1
        BY <4>1 DEF PanicUnless
      <4>3. s1.list["g_readytorun"][2] = rtcb
        BY <1>2, <1>5, <3>1
      <4> QED BY <4>1, <4>2, <4>3, <1>5, Zenon DEF sched_addreadytorun
    <3> QED BY <3>3, <1>a, <1>z DEF Relist, SchedStates
  <2>2. /\ st \in [Tasks -> TaskStates] /\ st[t] = "RUNNING" /\ st[rtcb] = "READYTORUN"
        /\ \A x \in Tasks \ {t, rtcb} : st[x] = z.task_state[x]
    BY <1>0, <1>1 DEF TaskStates
  <2>3. r # <<>> /\ r[1] = t
    BY <1>1, <1>2, <1>5
  <2>4. z.task_state[rtcb] = "RUNNING" /\ rtcb \in Tasks /\ rtcb # t
    BY <1>1
  <2>10. r \in Seq(Tasks) /\ Distinct(r) /\ Sorted(r, prio) /\ r[Len(r)] = Idle
         /\ \A x \in Tasks : Linked(r, x) <=> Linked(z.list["g_readytorun"], x) \/ x = t
    BY <1>2
  <2> HIDE DEF r, st, y, q, rtcb
  <2>5. tasklist(st[t]) = "g_readytorun"
        /\ \A x \in Tasks \ {t} : tasklist(st[x]) = tasklist(z.task_state[x])
    BY <2>2, <2>4, TaskListTable
  <2>6. /\ Shaped(y) /\ SameTcbs(y, z) /\ y.panic = z.panic /\ y.timeslice = z.timeslice
        /\ y.task_state = st /\ y.list["g_readytorun"] = r
        /\ \A m \in Lists \ {"g_readytorun"} : y.list[m] = z.list[m]
    BY <1>z, <2>10, <2>1, <2>2, <2>3, <2>5, ListNames, LinkShaped
  <2>7. y.list["g_pendingtasks"] = z.list["g_pendingtasks"] /\ Running(y) = t
    BY <2>3, <2>6, <2>10, ListNames DEF Running
  <2>8. HeadRuns(y)
    <3>1. \A x \in Tasks : z.task_state[x] = "RUNNING" <=> x = rtcb
      BY <1>z DEF HeadRuns, rtcb
    <3> QED BY <3>1, <2>2, <2>4, <2>6, <2>7 DEF HeadRuns
  <2>9. WellFormed(y) /\ OthersStay(y, z, t) /\ y.task_state[t] \notin Unready
    BY <2>2, <2>4, <2>6, <2>8, UnreadyStates DEF WellFormed, Shaped, OthersStay
  <2> QED BY <1>5, <1>q, <2>2, <2>6, <2>7, <2>9 DEF y, rtcb, q
<1>6. CASE ~(prio[rtcb] < prio[t])
  <2> DEFINE st == [z.task_state EXCEPT ![t] = "READYTORUN"]
  <2>1. y = Relist(z, "g_readytorun", r, st)
    <3> DEFINE s1 == AddPrioritized(z, "g_readytorun", t)
    <3>1. s1.list["g_readytorun"] = r
      BY <1>a, <1>z, ListNames DEF SchedStates
    <3>2. Running(s1) = r[1] /\ (Running(s1) = t <=> prio[rtcb] < prio[t])
      BY <3>1, <1>1, <1>2 DEF Running
    <3>3. y = [s1 EXCEPT !.task_state[t] = "READYTORUN"]
      <4> HIDE DEF r
      <4> QED BY <1>1, <1>2, <1>6, <3>1, <3>2 DEF sched_addreadytorun, PanicUnless
    <3> QED BY <3>3, <1>a, <1>z DEF Relist, SchedStates
  <2>2. /\ st \in [Tasks -> TaskStates] /\ st[t] = "READYTORUN"
        /\ \A x \in Tasks \ {t} : st[x] = z.task_state[x]
    BY <1>0 DEF TaskStates
  <2>3. r # <<>> /\ r[1] = rtcb
    BY <1>1, <1>2, <1>6
  <2>4. rtcb # t
    BY <1>1
  <2>10. r \in Seq(Tasks) /\ Distinct(r) /\ Sorted(r, prio) /\ r[Len(r)] = Idle
         /\ \A x \in Tasks : Linked(r, x) <=> Linked(z.list["g_readytorun"], x) \/ x = t
    BY <1>2
  <2> HIDE DEF r, st, y, q, rtcb
  <2>5. tasklist(st[t]) = "g_readytorun"
        /\ \A x \in Tasks \ {t} : tasklist(st[x]) = tasklist(z.task_state[x])
    BY <2>2, TaskListTable
  <2>6. /\ Shaped(y) /\ SameTcbs(y, z) /\ y.panic = z.panic /\ y.timeslice = z.timeslice
        /\ y.task_state = st /\ y.list["g_readytorun"] = r
        /\ \A m \in Lists \ {"g_readytorun"} : y.list[m] = z.list[m]
    BY <1>z, <2>10, <2>1, <2>2, <2>3, <2>5, ListNames, LinkShaped
  <2>7. y.list["g_pendingtasks"] = z.list["g_pendingtasks"] /\ Running(y) = rtcb
    BY <2>3, <2>6, <2>10, ListNames DEF Running
  <2>8. HeadRuns(y)
    <3>1. \A x \in Tasks : z.task_state[x] = "RUNNING" <=> x = rtcb
      BY <1>z DEF HeadRuns, rtcb
    <3> QED BY <3>1, <2>2, <2>4, <2>6, <2>7 DEF HeadRuns
  <2>9. WellFormed(y) /\ OthersStay(y, z, t) /\ y.task_state[t] \notin Unready
    BY <2>2, <2>6, <2>8, UnreadyStates DEF WellFormed, Shaped, OthersStay
  <2> QED BY <1>q, <2>2, <2>4, <2>6, <2>7, <2>9 DEF y, rtcb, q
<1> QED BY <1>4, <1>5, <1>6

(* sched_addblocked.                                                       *)
LEMMA AddBlocked ==
  ASSUME NEW z, Shaped(z), NEW t \in Tasks \ {Idle}, z.task_state[t] = "INVALID",
         z.sched_priority[t] > 0, NEW st \in BlockedStates
  PROVE  LET y == sched_addblocked(z, t, st)
         IN  /\ Shaped(y) /\ SameTcbs(y, z) /\ y.panic = z.panic /\ y.timeslice = z.timeslice
             /\ y.list["g_readytorun"] = z.list["g_readytorun"]
             /\ y.list["g_pendingtasks"] = z.list["g_pendingtasks"]
             /\ y.task_state = [z.task_state EXCEPT ![t] = st]
<1> DEFINE l == tasklist(st)
           q == z.list[l]
           r == IF prioritized(st) THEN sched_addprioritized(q, z.sched_priority, t)
                ELSE dq_addlast(q, t)
           ts == [z.task_state EXCEPT ![t] = st]
           y == sched_addblocked(z, t, st)
<1>z. z \in SchedStates /\ Consistent(z) /\ InOrder(z) /\ IdleEnds(z)
  BY DEF Shaped
<1>1. /\ st \in TaskStates \ {"INVALID"} /\ l \in Lists /\ l \notin {"g_readytorun", "g_pendingtasks"}
      /\ prioritized(st) <=> l \in PrioritizedLists
  BY TaskListTable DEF BlockedStates, WaitStates, TaskStates
<1>2. z.task_state \in [Tasks -> TaskStates]
  BY <1>z DEF SchedStates
<1>3. z.sched_priority[t] >= SCHED_PRIORITY_MIN
  BY <1>z, StateTypes DEF SCHED_PRIORITY_MIN
<1>4. y = Relist(z, l, r, ts)
  <2>1. CASE prioritized(st)
    <3>1. AddPrioritized(z, l, t) = [z EXCEPT !.list[l] = r]
      BY <1>3, <2>1 DEF AddPrioritized, PanicUnless
    <3>2. y = [AddPrioritized(z, l, t) EXCEPT !.task_state[t] = st]
      BY <2>1 DEF sched_addblocked
    <3> HIDE DEF r, l
    <3> QED BY <3>1, <3>2, <1>z DEF Relist, SchedStates
  <2>2. CASE ~prioritized(st)
    <3>1. y = [[z EXCEPT !.list[l] = r] EXCEPT !.task_state[t] = st]
      BY <2>2 DEF sched_addblocked
    <3> HIDE DEF r, l
    <3> QED BY <3>1, <1>z DEF Relist, SchedStates
  <2> QED BY <2>1, <2>2
<1>5. /\ r \in Seq(Tasks) /\ Distinct(r)
      /\ \A x \in Tasks : Linked(r, x) <=> Linked(q, x) \/ x = t
      /\ l \in PrioritizedLists => Sorted(r, z.sched_priority)
  <2>1. CASE prioritized(st)
    BY <2>1, <1>z, <1>1, AddToList
  <2>2. CASE ~prioritized(st)
    <3>1. q \in Seq(Tasks) /\ Distinct(q) /\ \A n \in DOMAIN q : q[n] # t
      BY <1>z, <1>1, InvalidUnlinked
    <3> HIDE DEF q, l
    <3> QED BY <2>2, <3>1, <1>1, AddLastLinks
  <2> QED BY <2>1, <2>2
<1>6. /\ ts \in [Tasks -> TaskStates] /\ ts[t] = st
      /\ \A x \in Tasks \ {t} : tasklist(ts[x]) = tasklist(z.task_state[x])
  BY <1>1, <1>2
<1> HIDE DEF r, ts, y, l
<1>7. tasklist(ts[t]) = l
  BY <1>6 DEF l
<1>8. /\ Shaped(y) /\ SameTcbs(y, z) /\ y.panic = z.panic /\ y.timeslice = z.timeslice
      /\ \A m \in Lists \ {l} : y.list[m] = z.list[m]
      /\ y.task_state = ts
  BY <1>1, <1>4, <1>5, <1>6, <1>7, LinkShaped
<1> QED BY <1>1, <1>8, ListNames DEF y, ts

(* RemoveFromList, from any list but g_readytorun.                         *)
LEMMA RemoveUnready ==
  ASSUME NEW z, Shaped(z), NEW t \in Tasks,
         z.task_state[t] \in {"PENDING"} \cup BlockedStates
  PROVE  LET y == RemoveFromList(z, t)
         IN  /\ Shaped(y) /\ SameTcbs(y, z) /\ y.panic = z.panic /\ y.timeslice = z.timeslice
             /\ y.list["g_readytorun"] = z.list["g_readytorun"]
             /\ z.task_state[t] # "PENDING" => y.list["g_pendingtasks"] = z.list["g_pendingtasks"]
             /\ y.task_state = [z.task_state EXCEPT ![t] = "INVALID"]
<1> DEFINE l == tasklist(z.task_state[t])
           y == RemoveFromList(z, t)
           r == dq_rem(z.list[l], t)
           ts == [z.task_state EXCEPT ![t] = "INVALID"]
<1>1. z \in SchedStates
  BY DEF Shaped
<1>2. /\ z.task_state[t] # "INVALID"
      /\ l \in Lists \ {"g_readytorun"}
      /\ z.task_state[t] # "PENDING" => l # "g_pendingtasks"
  <2>1. z.task_state[t] \in TaskStates /\ z.task_state[t] # "INVALID"
    BY <1>1, StateTypes DEF BlockedStates, WaitStates
  <2> QED BY <2>1, TaskListTable, ListNames
<1>3. y = Relist(z, l, r, ts)
  <2>1. y = [z EXCEPT !.list[l] = r, !.task_state[t] = "INVALID"]
    BY <1>2 DEF RemoveFromList
  <2> HIDE DEF r, l, y
  <2> QED BY <2>1, <1>1 DEF Relist, SchedStates
<1> HIDE DEF l
<1>4. tasklist(z.task_state[t]) = l
  BY DEF l
<1>5. /\ Shaped(y) /\ SameTcbs(y, z) /\ y.panic = z.panic /\ y.timeslice = z.timeslice
      /\ \A m \in Lists \ {l} : y.list[m] = z.list[m]
      /\ y.task_state = ts
  <2>1. /\ ts \in [Tasks -> TaskStates] /\ ts[t] = "INVALID"
        /\ \A x \in Tasks \ {t} : ts[x] = z.task_state[x]
    BY <1>1 DEF SchedStates, TaskStates
  <2> HIDE DEF y, ts
  <2> QED BY <1>2, <1>3, <1>4, <2>1, UnlinkShaped
<1> QED BY <1>2, <1>5, ListNames

-----------------------------------------------------------------------------
(* sched_mergepending: the single pass that merges two lists in priority   *)
(* order, for lists of any length.  MergeStart is the loop before its      *)
(* first turn.                                                             *)
MergeStart(z) ==
  [list |-> z.list["g_readytorun"], at |-> 1, state |-> z.task_state, panic |-> FALSE]

(* The loop is well defined, turn by turn.                                 *)
LEMMA MergeLoopTurns ==
  ASSUME NEW z, z.list["g_pendingtasks"] \in Seq(Tasks)
  PROVE  LET pnd == z.list["g_pendingtasks"]
             m   == MergeLoop(z)
         IN  /\ m[0] = MergeStart(z)
             /\ \A k \in 1 .. Len(pnd) : m[k] = MergeOne(z, m[k-1], pnd[k])
<1> DEFINE pnd == z.list["g_pendingtasks"]
           one(f, k) == MergeOne(z, f[k-1], pnd[k])
           start == MergeStart(z)
           turns(f, n) == [k \in 0 .. n |-> IF k = 0 THEN start ELSE one(f, k)]
           Upto(n) == \E f : f = turns(f, n)
           T == {n \in Nat : ~Upto(n)}
<1>0. Len(pnd) \in Nat
  BY LenProperties
<1> HIDE DEF start, pnd
<1>1. Upto(0)
  <2>1. [k \in 0 .. 0 |-> start] = turns([k \in 0 .. 0 |-> start], 0)
    OBVIOUS
  <2> QED BY <2>1
<1>2. ASSUME NEW n \in Nat, Upto(n) PROVE Upto(n + 1)
  <2>1. PICK f : f = turns(f, n)
    BY <1>2
  <2> DEFINE g == [k \in 0 .. n + 1 |-> IF k <= n THEN f[k] ELSE one(f, k)]
  <2>2. \A k \in 0 .. n : f[k] = IF k = 0 THEN start ELSE one(f, k)
    BY <2>1
  <2>3. ASSUME NEW k \in 0 .. n + 1 PROVE g[k] = IF k = 0 THEN start ELSE one(g, k)
    <3>1. CASE k = 0
      BY <3>1, <2>2
    <3>2. CASE k # 0
      <4>1. k - 1 \in 0 .. n /\ g[k - 1] = f[k - 1]
        BY <3>2
      <4>2. g[k] = one(f, k)
        BY <3>2, <2>2
      <4> HIDE DEF g
      <4> QED BY <3>2, <4>1, <4>2
    <3> QED BY <3>1, <3>2
  <2>4. g = [k \in 0 .. n + 1 |-> g[k]]
    OBVIOUS
  <2>5. g = turns(g, n + 1)
    <3> HIDE DEF g
    <3> QED BY <2>3, <2>4
  <2> HIDE DEF g, turns
  <2> QED BY <2>5
<1>3. T = {}
  <2> HIDE DEF Upto
  <2> SUFFICES ASSUME T # {} PROVE FALSE
    OBVIOUS
  <2>1. T \in SUBSET Nat
    OBVIOUS
  <2>2. PICK n \in T : \A k \in T : n <= k
    <3> HIDE DEF T
    <3> QED BY <2>1, LeastNatural
  <2>3. n # 0 /\ n \in Nat
    BY <1>1
  <2>4. n - 1 \in Nat /\ n - 1 \notin T
    BY <2>2, <2>3
  <2>5. Upto((n - 1) + 1)
    BY <1>2, <2>4
  <2> QED BY <2>2, <2>3, <2>5
<1>4. Upto(Len(pnd))
  <2> HIDE DEF Upto
  <2> QED BY <1>0, <1>3
<1> DEFINE m == CHOOSE f : f = turns(f, Len(pnd))
<1>5. m = turns(m, Len(pnd))
  <2> HIDE DEF turns
  <2> QED BY <1>4
<1>6. MergeLoop(z) = m
  BY DEF MergeLoop, pnd, start, MergeStart
<1> HIDE DEF m
<1>7. m[0] = start /\ \A k \in 1 .. Len(pnd) : m[k] = one(m, k)
  BY <1>0, <1>5
<1> QED BY <1>6, <1>7 DEF pnd, start

(* After k turns: the first k pending tasks are in, the list is in order,  *)
(* and no task still to come belongs before the position reached.          *)
MergeInv(z, m, k) ==
  LET pnd  == z.list["g_pendingtasks"]
      prio == z.sched_priority
  IN  /\ m.list \in Seq(Tasks) /\ Distinct(m.list) /\ Sorted(m.list, prio)
      /\ m.list # <<>> /\ m.list[Len(m.list)] = Idle
      /\ m.at \in 1 .. Len(m.list)
      /\ \A j \in 1 .. m.at - 1 : \A n \in k + 1 .. Len(pnd) : prio[pnd[n]] <= prio[m.list[j]]
      /\ \A x \in Tasks : Linked(m.list, x) <=>
                            Linked(z.list["g_readytorun"], x) \/ \E j \in 1 .. k : pnd[j] = x
      /\ m.panic = FALSE
      /\ m.state \in [Tasks -> TaskStates]
      /\ \A x \in Tasks : m.state[x] = "RUNNING" <=> x = m.list[1]
      /\ \A x \in Tasks : Linked(m.list, x) => m.state[x] \in {"READYTORUN", "RUNNING"}
      /\ \A x \in Tasks : ~Linked(m.list, x) => m.state[x] = z.task_state[x]
      /\ KeepsOrder(z.list["g_readytorun"], m.list, Tasks)

(* A well-formed g_pendingtasks.                                           *)
LEMMA PendingList ==
  ASSUME NEW z, WellFormed(z)
  PROVE  LET pnd == z.list["g_pendingtasks"]
         IN  /\ pnd \in Seq(Tasks) /\ Len(pnd) \in Nat /\ DOMAIN pnd = 1 .. Len(pnd)
             /\ Distinct(pnd) /\ Sorted(pnd, z.sched_priority)
             /\ \A t \in Tasks : Linked(pnd, t) <=> z.task_state[t] = "PENDING"
             /\ \A k \in 1 .. Len(pnd) : /\ pnd[k] \in Tasks \ {Idle}
                                         /\ z.task_state[pnd[k]] = "PENDING"
                                         /\ z.sched_priority[pnd[k]] > 0
                                         /\ ~Linked(z.list["g_readytorun"], pnd[k])
<1> DEFINE pnd == z.list["g_pendingtasks"]
<1>z. z \in SchedStates /\ Consistent(z) /\ InOrder(z) /\ IdleEnds(z) /\ HeadRuns(z)
  BY DEF WellFormed
<1>1. pnd \in Seq(Tasks) /\ Len(pnd) \in Nat /\ DOMAIN pnd = 1 .. Len(pnd)
  BY <1>z, ListNames, StateTypes, LenProperties
<1>2. Distinct(pnd) /\ Sorted(pnd, z.sched_priority)
  BY <1>z, ListNames DEF Consistent, InOrder
<1>3. ASSUME NEW t \in Tasks PROVE Linked(pnd, t) <=> z.task_state[t] = "PENDING"
  <2>1. Linked(pnd, t) <=> tasklist(z.task_state[t]) = "g_pendingtasks"
    BY <1>z, ListNames DEF Consistent
  <2>2. z.task_state[t] \in TaskStates
    BY <1>z, StateTypes
  <2> QED BY <2>1, <2>2, TaskListTable
<1>4. ASSUME NEW k \in 1 .. Len(pnd)
      PROVE  /\ pnd[k] \in Tasks \ {Idle} /\ z.task_state[pnd[k]] = "PENDING"
             /\ z.sched_priority[pnd[k]] > 0 /\ ~Linked(z.list["g_readytorun"], pnd[k])
  <2>1. pnd[k] \in Tasks /\ Linked(pnd, pnd[k])
    BY <1>1, ElementOfSeq DEF Linked
  <2>2. z.task_state[pnd[k]] = "PENDING"
    BY <1>3, <2>1
  <2>3. pnd[k] # Idle /\ ~Linked(z.list["g_readytorun"], pnd[k])
    BY <2>1, <2>2, ReadyList
  <2> QED BY <2>1, <2>2, <2>3, <1>z DEF IdleEnds
<1> QED BY <1>1, <1>2, <1>3, <1>4

(* Before the first pending task sched_mergepending has merged nothing. *)
LEMMA MergeBegins ==
  ASSUME NEW z, WellFormed(z)
  PROVE  MergeInv(z, MergeStart(z), 0)
<1> DEFINE m == MergeStart(z)
           q == z.list["g_readytorun"]
<1>1. /\ m.list = q /\ m.at = 1 /\ m.state = z.task_state /\ m.panic = FALSE
  BY DEF MergeStart
<1>2. /\ q \in Seq(Tasks) /\ Len(q) \in Nat \ {0} /\ q[Len(q)] = Idle /\ Running(z) = q[1]
      /\ \A x \in Tasks : Linked(q, x) => z.task_state[x] \in {"READYTORUN", "RUNNING"}
  BY ReadyList
<1>3. q # <<>> /\ Distinct(q) /\ Sorted(q, z.sched_priority)
  BY ListNames DEF WellFormed, IdleEnds, Consistent, InOrder
<1>4. z.task_state \in [Tasks -> TaskStates]
  BY DEF WellFormed, SchedStates
<1>5. \A x \in Tasks : z.task_state[x] = "RUNNING" <=> x = q[1]
  BY <1>2 DEF WellFormed, HeadRuns
<1>o. KeepsOrder(q, q, Tasks)
  BY DEF KeepsOrder
<1> HIDE DEF m, q
<1>6. MergeInv(z, m, 0)
  BY <1>1, <1>2, <1>3, <1>4, <1>5, <1>o DEF MergeInv, q
<1> QED BY <1>6 DEF m

(* One turn of sched_mergepending's loop: the next pending task is linked in
   its place and the state of the head it may displace is corrected. *)
LEMMA MergeTurn ==
  ASSUME NEW z, WellFormed(z), NEW m, NEW k \in Nat,
         k + 1 \in 1 .. Len(z.list["g_pendingtasks"]),
         MergeInv(z, m, k)
  PROVE  MergeInv(z, MergeOne(z, m, z.list["g_pendingtasks"][k + 1]), k + 1)
<1> DEFINE pnd == z.list["g_pendingtasks"]
           rtr == z.list["g_readytorun"]
           prio == z.sched_priority
           p == pnd[k + 1]
           q == m.list
           i == SearchFrom(q, prio, prio[p], m.at)
           r == InsertAt(q, i, p)
           st == IF i = 1
                 THEN [m.state EXCEPT ![q[1]] = "READYTORUN", ![p] = "RUNNING"]
                 ELSE [m.state EXCEPT ![p] = "READYTORUN"]
           y == MergeOne(z, m, p)
<1>p. /\ pnd \in Seq(Tasks) /\ Len(pnd) \in Nat /\ DOMAIN pnd = 1 .. Len(pnd)
      /\ Distinct(pnd) /\ Sorted(pnd, prio)
      /\ p \in Tasks \ {Idle} /\ prio[p] > 0 /\ ~Linked(rtr, p)
  BY PendingList
<1>t. prio \in [Tasks -> Int] /\ prio[p] \in Int /\ prio[Idle] = 0
  BY <1>p, StateTypes DEF WellFormed, IdleEnds
<1>m. /\ q \in Seq(Tasks) /\ Distinct(q) /\ Sorted(q, prio)
      /\ q # <<>> /\ q[Len(q)] = Idle
      /\ m.at \in 1 .. Len(q)
      /\ \A j \in 1 .. m.at - 1 : \A n \in k + 1 .. Len(pnd) : prio[pnd[n]] <= prio[q[j]]
      /\ \A x \in Tasks : Linked(q, x) <=> Linked(rtr, x) \/ \E j \in 1 .. k : pnd[j] = x
      /\ m.panic = FALSE
      /\ m.state \in [Tasks -> TaskStates]
      /\ \A x \in Tasks : m.state[x] = "RUNNING" <=> x = q[1]
      /\ \A x \in Tasks : Linked(q, x) => m.state[x] \in {"READYTORUN", "RUNNING"}
      /\ \A x \in Tasks : ~Linked(q, x) => m.state[x] = z.task_state[x]
  BY DEF MergeInv
<1>o. KeepsOrder(rtr, q, Tasks)
  BY DEF MergeInv
<1>l. Len(q) \in Nat \ {0} /\ DOMAIN q = 1 .. Len(q) /\ q[1] \in Tasks
  BY <1>m, LenProperties, EmptySeq, ElementOfSeq
<1>u. ~Linked(q, p) /\ \A n \in DOMAIN q : q[n] # p
  <2>1. ~ \E j \in 1 .. k : pnd[j] = p
    <3> SUFFICES ASSUME NEW j \in 1 .. k, pnd[j] = p PROVE FALSE
      OBVIOUS
    <3>1. j \in DOMAIN pnd /\ k + 1 \in DOMAIN pnd /\ pnd[j] = pnd[k + 1]
      BY <1>p
    <3>2. j = k + 1
      <4> HIDE DEF pnd
      <4> QED BY <3>1, <1>p DEF Distinct
    <3> QED BY <3>2
  <2>2. ~Linked(q, p)
    BY <2>1, <1>p, <1>m
  <2> QED BY <2>2 DEF Linked
<1> HIDE DEF pnd, rtr, prio, p, q
<1>1. /\ i \in m.at .. Len(q) + 1
      /\ \A j \in m.at .. i - 1 : prio[p] <= prio[q[j]]
      /\ i <= Len(q) => prio[q[i]] < prio[p]
  <2>1. m.at \in 1 .. Len(q) + 1
    BY <1>m, <1>l
  <2> QED BY <2>1, <1>m, <1>t, SearchFromStops
<1> HIDE DEF i
<1>2. i \in 1 .. Len(q) /\ prio[q[i]] < prio[p]
  <2>1. Len(q) \in m.at .. Len(q) /\ ~ (prio[p] <= prio[q[Len(q)]])
    BY <1>m, <1>l, <1>t, <1>p
  <2>2. i # Len(q) + 1
    BY <2>1, <1>1, <1>l
  <2> QED BY <2>2, <1>1, <1>m, <1>l
<1>3. \A j \in 1 .. i - 1 : prio[p] <= prio[q[j]]
  <2> TAKE j \in 1 .. i - 1
  <2>1. CASE j >= m.at
    BY <2>1, <1>1, <1>m, <1>l
  <2>2. CASE ~(j >= m.at)
    <3>1. j \in 1 .. m.at - 1 /\ k + 1 \in k + 1 .. Len(pnd)
      BY <2>2, <1>m, <1>l, <1>p DEF pnd
    <3>2. prio[pnd[k + 1]] <= prio[q[j]]
      BY <3>1, <1>m
    <3> QED BY <3>2 DEF p
  <2> QED BY <2>1, <2>2
<1>4. /\ r \in Seq(Tasks) /\ Len(r) = Len(q) + 1
      /\ \A n \in 1 .. Len(q) + 1 : r[n] = IF n < i THEN q[n] ELSE IF n = i THEN p ELSE q[n - 1]
  <2>1. i \in 1 .. Len(q) + 1 /\ p \in Tasks
    BY <1>2, <1>l, <1>p
  <2> QED BY <2>1, <1>m, InsertAtPositions
<1>5. Distinct(r) /\ \A x \in Tasks : Linked(r, x) <=> Linked(q, x) \/ x = p
  <2>1. i \in 1 .. Len(q) + 1 /\ p \in Tasks
    BY <1>2, <1>l, <1>p
  <2> QED BY <2>1, <1>m, <1>u, InsertLinks
<1>v. KeepsOrder(rtr, r, Tasks)
  <2>1. i \in 1 .. Len(q) + 1 /\ p \in Tasks
    BY <1>2, <1>l, <1>p
  <2>2. KeepsOrder(q, r, Tasks)
    BY <2>1, <1>m, InsertOrder
  <2> QED BY <2>2, <1>o DEF KeepsOrder
<1>6. Sorted(r, prio)
  <2>1. i \in 1 .. Len(q) + 1 /\ p \in Tasks
    BY <1>2, <1>l, <1>p
  <2> QED BY <2>1, <1>2, <1>3, <1>m, <1>t, InsertSorted
<1>7. y.list = r /\ y.at = i /\ y.state = st /\ y.panic = FALSE
  <2>1. i # Len(q) + 1
    BY <1>2, <1>l
  <2>2. y = [list |-> r, at |-> i, state |-> st, panic |-> m.panic]
    BY <2>1 DEF MergeOne, i, q, prio
  <2> HIDE DEF y, r, st
  <2> QED BY <2>2, <1>m
<1> HIDE DEF y, r
<1>8. r # <<>> /\ r[Len(r)] = Idle /\ i \in 1 .. Len(r)
  BY <1>2, <1>4, <1>m, <1>l
<1>9. \A j \in 1 .. i - 1 : \A n \in (k + 1) + 1 .. Len(pnd) : prio[pnd[n]] <= prio[r[j]]
  <2> TAKE j \in 1 .. i - 1
  <2> TAKE n \in (k + 1) + 1 .. Len(pnd)
  <2>1. r[j] = q[j] /\ j \in 1 .. Len(q)
    BY <1>2, <1>4, <1>l
  <2>2. prio[p] <= prio[q[j]]
    BY <1>3
  <2>3. prio[pnd[n]] <= prio[pnd[k + 1]]
    <3>1. n \in DOMAIN pnd /\ k + 1 \in DOMAIN pnd /\ k + 1 < n
      BY <1>p
    <3> QED BY <3>1, <1>p DEF Sorted
  <2>4. prio[pnd[n]] \in Int /\ prio[q[j]] \in Int /\ prio[pnd[k + 1]] = prio[p]
    <3>1. n \in 1 .. Len(pnd)
      BY <1>p
    <3>2. pnd[n] \in Tasks /\ q[j] \in Tasks
      BY <3>1, <2>1, <1>p, <1>m, ElementOfSeq
    <3> QED BY <3>2, <1>t DEF p
  <2> QED BY <2>1, <2>2, <2>3, <2>4, <1>t
<1>10. ASSUME NEW x \in Tasks
       PROVE  Linked(r, x) <=> Linked(rtr, x) \/ \E j \in 1 .. k + 1 : pnd[j] = x
  <2>1. (\E j \in 1 .. k + 1 : pnd[j] = x) <=> (\E j \in 1 .. k : pnd[j] = x) \/ x = p
    BY DEF p
  <2> QED BY <2>1, <1>5, <1>m
<1>11. /\ st \in [Tasks -> TaskStates]
       /\ \A x \in Tasks : st[x] = "RUNNING" <=> x = r[1]
       /\ \A x \in Tasks : Linked(r, x) => st[x] \in {"READYTORUN", "RUNNING"}
       /\ \A x \in Tasks : ~Linked(r, x) => st[x] = z.task_state[x]
  <2>1. CASE i = 1
    <3>1. r[1] = p /\ q[1] # p /\ Linked(q, q[1])
      BY <2>1, <1>4, <1>l, <1>u DEF Linked
    <3>2. st = [m.state EXCEPT ![q[1]] = "READYTORUN", ![p] = "RUNNING"]
      BY <2>1
    <3> HIDE DEF st
    <3>3. /\ st \in [Tasks -> TaskStates]
          /\ st[p] = "RUNNING" /\ st[q[1]] = "READYTORUN"
          /\ \A x \in Tasks \ {p, q[1]} : st[x] = m.state[x]
      BY <3>1, <3>2, <1>m, <1>l, <1>p DEF TaskStates
    <3>4. ASSUME NEW x \in Tasks PROVE st[x] = "RUNNING" <=> x = r[1]
      BY <3>1, <3>3, <1>m
    <3>5. ASSUME NEW x \in Tasks, Linked(r, x) PROVE st[x] \in {"READYTORUN", "RUNNING"}
      BY <3>5, <3>3, <1>m, <1>5
    <3>6. ASSUME NEW x \in Tasks, ~Linked(r, x) PROVE st[x] = z.task_state[x]
      BY <3>6, <3>1, <3>3, <1>m, <1>5
    <3> QED BY <3>3, <3>4, <3>5, <3>6
  <2>2. CASE i # 1
    <3>1. r[1] = q[1] /\ q[1] # p
      <4>1. 1 < i /\ 1 \in 1 .. Len(q) + 1 /\ 1 \in 1 .. Len(q)
        BY <2>2, <1>2, <1>l
      <4>2. r[1] = q[1]
        BY <4>1, <1>4
      <4>3. q[1] # p
        BY <4>1, <1>l, <1>u DEF Linked
      <4> QED BY <4>2, <4>3
    <3>2. st = [m.state EXCEPT ![p] = "READYTORUN"]
      BY <2>2
    <3> HIDE DEF st
    <3>3. /\ st \in [Tasks -> TaskStates] /\ st[p] = "READYTORUN"
          /\ \A x \in Tasks \ {p} : st[x] = m.state[x]
      BY <3>2, <1>m, <1>p DEF TaskStates
    <3>4. ASSUME NEW x \in Tasks PROVE st[x] = "RUNNING" <=> x = r[1]
      BY <3>1, <3>3, <1>m
    <3>5. ASSUME NEW x \in Tasks, Linked(r, x) PROVE st[x] \in {"READYTORUN", "RUNNING"}
      BY <3>5, <3>3, <1>m, <1>5
    <3>6. ASSUME NEW x \in Tasks, ~Linked(r, x) PROVE st[x] = z.task_state[x]
      BY <3>6, <3>3, <1>m, <1>5
    <3> QED BY <3>3, <3>4, <3>5, <3>6
  <2> QED BY <2>1, <2>2
<1> HIDE DEF st
<1>12. MergeInv(z, y, k + 1)
  BY <1>4, <1>5, <1>6, <1>7, <1>8, <1>9, <1>10, <1>11, <1>v DEF MergeInv, pnd, prio, rtr
<1> QED BY <1>12 DEF y, p, pnd

(* The loop keeps its invariant to the end.                                *)
LEMMA MergeEnds ==
  ASSUME NEW z, WellFormed(z)
  PROVE  MergeInv(z, MergeLoop(z)[Len(z.list["g_pendingtasks"])], Len(z.list["g_pendingtasks"]))
<1> DEFINE pnd == z.list["g_pendingtasks"]
           m == MergeLoop(z)
           T == {k \in Nat : k <= Len(pnd) /\ ~MergeInv(z, m[k], k)}
<1>1. pnd \in Seq(Tasks) /\ Len(pnd) \in Nat
  BY PendingList
<1>2. m[0] = MergeStart(z) /\ \A k \in 1 .. Len(pnd) : m[k] = MergeOne(z, m[k-1], pnd[k])
  BY <1>1, MergeLoopTurns
<1> HIDE DEF m, pnd
<1>3. MergeInv(z, m[0], 0)
  BY <1>2, MergeBegins
<1>4. ASSUME NEW k \in Nat, k + 1 \in 1 .. Len(pnd), MergeInv(z, m[k], k)
      PROVE  MergeInv(z, m[k + 1], k + 1)
  <2>1. m[k + 1] = MergeOne(z, m[k], pnd[k + 1])
    <3>1. m[k + 1] = MergeOne(z, m[(k + 1) - 1], pnd[k + 1])
      BY <1>2, <1>4
    <3>2. (k + 1) - 1 = k
      OBVIOUS
    <3> QED BY <3>1, <3>2
  <2>2. MergeInv(z, MergeOne(z, m[k], pnd[k + 1]), k + 1)
    BY <1>4, MergeTurn DEF pnd
  <2> QED BY <2>1, <2>2
<1>5. T = {}
  <2> SUFFICES ASSUME T # {} PROVE FALSE
    OBVIOUS
  <2>1. T \in SUBSET Nat
    OBVIOUS
  <2>2. PICK n \in T : \A k \in T : n <= k
    <3> HIDE DEF T
    <3> QED BY <2>1, LeastNatural
  <2>3. n \in Nat /\ n # 0 /\ n <= Len(pnd) /\ ~MergeInv(z, m[n], n)
    BY <1>3, <2>2
  <2>4. n - 1 \in Nat /\ n - 1 <= Len(pnd) /\ n - 1 \notin T
    BY <2>2, <2>3, <1>1
  <2>5. MergeInv(z, m[n - 1], n - 1)
    BY <2>4
  <2>6. MergeInv(z, m[(n - 1) + 1], (n - 1) + 1)
    <3>1. (n - 1) + 1 \in 1 .. Len(pnd)
      BY <2>3, <1>1
    <3> QED BY <3>1, <2>4, <2>5, <1>4
  <2>7. (n - 1) + 1 = n
    BY <2>3
  <2> QED BY <2>3, <2>6, <2>7
<1>6. MergeInv(z, m[Len(pnd)], Len(pnd))
  BY <1>1, <1>5
<1> QED BY <1>6 DEF m, pnd

(* sched_mergepending empties g_pendingtasks into g_readytorun.            *)
LEMMA MergePending ==
  ASSUME NEW z, WellFormed(z)
  PROVE  LET y == sched_mergepending(z)
         IN  /\ WellFormed(y)
             /\ SameTcbs(y, z) /\ y.panic = z.panic /\ y.timeslice = z.timeslice
             /\ y.list["g_pendingtasks"] = <<>>
             /\ UnreadyStay(y, z)
             /\ KeepsOrder(z.list["g_readytorun"], y.list["g_readytorun"], Tasks)
<1> DEFINE pnd == z.list["g_pendingtasks"]
           rtr == z.list["g_readytorun"]
           prio == z.sched_priority
           m == MergeLoop(z)[Len(pnd)]
           q == m.list
           st == m.state
           y == sched_mergepending(z)
<1>z. z \in SchedStates /\ Consistent(z) /\ InOrder(z) /\ IdleEnds(z) /\ HeadRuns(z)
  BY DEF WellFormed
<1>0. MergeInv(z, m, Len(pnd))
  BY MergeEnds
<1> HIDE DEF m
<1>m. /\ q \in Seq(Tasks) /\ Distinct(q) /\ Sorted(q, prio)
      /\ q # <<>> /\ q[Len(q)] = Idle
      /\ \A x \in Tasks : Linked(q, x) <=> Linked(rtr, x) \/ \E j \in 1 .. Len(pnd) : pnd[j] = x
      /\ m.panic = FALSE
      /\ st \in [Tasks -> TaskStates]
      /\ \A x \in Tasks : st[x] = "RUNNING" <=> x = q[1]
      /\ \A x \in Tasks : Linked(q, x) => st[x] \in {"READYTORUN", "RUNNING"}
      /\ \A x \in Tasks : ~Linked(q, x) => st[x] = z.task_state[x]
  BY <1>0 DEF MergeInv
<1>o. KeepsOrder(rtr, q, Tasks)
  BY <1>0 DEF MergeInv
<1>p. DOMAIN pnd = 1 .. Len(pnd)
  BY PendingList
<1>1. \A x \in Tasks : Linked(q, x) <=> Linked(rtr, x) \/ Linked(pnd, x)
  <2> HIDE DEF pnd, rtr, q
  <2> QED BY <1>m, <1>p DEF Linked
<1>2. y = [[z EXCEPT !.list["g_readytorun"] = q] EXCEPT !.list["g_pendingtasks"] = <<>>, !.task_state = st]
  BY <1>m, <1>z DEF sched_mergepending, PanicUnless, m, pnd, SchedStates
<1>3. /\ y.list = [[z.list EXCEPT !["g_readytorun"] = q] EXCEPT !["g_pendingtasks"] = <<>>]
      /\ y.task_state = st
      /\ y.sched_priority = z.sched_priority /\ y.init_priority = z.init_priority
      /\ y.lockcount = z.lockcount /\ y.timeslice = z.timeslice
      /\ y.round_robin = z.round_robin /\ y.g_pidhash = z.g_pidhash /\ y.panic = z.panic
      /\ y \in SchedStates
  <2> HIDE DEF y, q, st
  <2>1. <<>> \in Seq(Tasks) /\ q \in Seq(Tasks) /\ st \in [Tasks -> TaskStates]
    BY <1>m
  <2> QED BY <1>2, <1>z, <2>1, ListNames DEF SchedStates
<1> HIDE DEF y, q, st
<1>4. /\ y.list["g_readytorun"] = q /\ y.list["g_pendingtasks"] = <<>>
      /\ \A l \in Lists \ {"g_readytorun", "g_pendingtasks"} : y.list[l] = z.list[l]
  <2>1. z.list \in [Lists -> Seq(Tasks)]
    BY <1>z DEF SchedStates
  <2> QED BY <2>1, <1>3, ListNames
<1>5. \A x \in Tasks : /\ Linked(rtr, x) <=> tasklist(z.task_state[x]) = "g_readytorun"
                       /\ Linked(pnd, x) <=> tasklist(z.task_state[x]) = "g_pendingtasks"
  BY <1>z, ListNames DEF Consistent
<1>6. ASSUME NEW x \in Tasks, Linked(q, x)
      PROVE  /\ tasklist(st[x]) = "g_readytorun"
             /\ tasklist(z.task_state[x]) \in {"g_readytorun", "g_pendingtasks"}
  <2>1. st[x] \in {"READYTORUN", "RUNNING"}
    BY <1>6, <1>m DEF st, q
  <2> QED BY <2>1, <1>1, <1>5, <1>6, TaskListTable
<1>7. ASSUME NEW x \in Tasks, ~Linked(q, x)
      PROVE  /\ st[x] = z.task_state[x]
             /\ tasklist(z.task_state[x]) \notin {"g_readytorun", "g_pendingtasks"}
  BY <1>1, <1>5, <1>7, <1>m DEF st, q
<1>8. Consistent(y)
  <2> SUFFICES ASSUME NEW l \in Lists
               PROVE  /\ Distinct(y.list[l])
                      /\ \A x \in Tasks : Linked(y.list[l], x) <=> tasklist(y.task_state[x]) = l
    BY DEF Consistent
  <2>1. CASE l = "g_readytorun"
    <3>1. \A x \in Tasks : Linked(q, x) <=> tasklist(st[x]) = "g_readytorun"
      BY <1>6, <1>7
    <3>2. Distinct(q)
      BY <1>m DEF q
    <3> QED BY <2>1, <3>1, <3>2, <1>3, <1>4
  <2>2. CASE l = "g_pendingtasks"
    <3>1. \A x \in Tasks : tasklist(st[x]) # "g_pendingtasks"
      BY <1>6, <1>7, ListNames
    <3>2. Distinct(<<>>) /\ \A x \in Tasks : ~Linked(<<>>, x)
      BY DEF Distinct, Linked
    <3> QED BY <2>2, <3>1, <3>2, <1>3, <1>4
  <2>3. CASE l \notin {"g_readytorun", "g_pendingtasks"}
    <3>1. \A x \in Tasks : Linked(z.list[l], x) <=> tasklist(z.task_state[x]) = l
      BY <1>z DEF Consistent
    <3>2. \A x \in Tasks : tasklist(z.task_state[x]) = l <=> tasklist(st[x]) = l
      BY <2>3, <1>6, <1>7
    <3>3. y.list[l] = z.list[l] /\ Distinct(z.list[l])
      BY <2>3, <1>4, <1>z DEF Consistent
    <3> QED BY <3>1, <3>2, <3>3, <1>3
  <2> QED BY <2>1, <2>2, <2>3
<1>9. InOrder(y)
  <2>1. Sorted(<<>>, prio) /\ Sorted(q, prio)
    BY <1>m DEF Sorted, q
  <2> QED BY <2>1, <1>z, <1>3, <1>4, ListNames DEF InOrder
<1>10. q # <<>> /\ q[Len(q)] = Idle /\ q \in Seq(Tasks)
  BY <1>m DEF q
<1>11. IdleEnds(y)
  <2>1. \A x \in Tasks : st[x] # "INVALID" => z.task_state[x] # "INVALID"
    BY <1>6, <1>7, TaskListTable, ListNames
  <2> QED BY <2>1, <1>z, <1>3, <1>4, <1>10 DEF IdleEnds, Last
<1>12. HeadRuns(y)
  <2>1. Running(y) = q[1]
    BY <1>4, <1>10 DEF Running
  <2>2. \A x \in Tasks : st[x] = "RUNNING" <=> x = q[1]
    BY <1>m DEF q, st
  <2> QED BY <2>1, <2>2, <1>3 DEF HeadRuns
<1>13. UnreadyStay(y, z)
  <2> SUFFICES ASSUME NEW t \in Tasks, z.task_state[t] \in Unready \/ y.task_state[t] \in Unready
               PROVE  y.task_state[t] = z.task_state[t]
    BY DEF UnreadyStay
  <2>1. \/ tasklist(z.task_state[t]) \notin {"g_readytorun", "g_pendingtasks"}
        \/ tasklist(st[t]) # "g_readytorun"
    BY <1>3, TaskListTable, ListNames DEF Unready
  <2>2. ~Linked(q, t)
    BY <2>1, <1>6
  <2> QED BY <2>2, <1>3, <1>7
<1>14. WellFormed(y) /\ SameTcbs(y, z)
  BY <1>3, <1>8, <1>9, <1>11, <1>12 DEF WellFormed, SameTcbs
<1> QED BY <1>3, <1>4, <1>13, <1>14, <1>o DEF y

(* The merge that every caller guards with a test of g_pendingtasks.head.  *)
LEMMA MergedIfPending ==
  ASSUME NEW z, WellFormed(z)
  PROVE  LET y == MergeIfPending(z)
         IN  /\ WellFormed(y)
             /\ SameTcbs(y, z) /\ y.panic = z.panic /\ y.timeslice = z.timeslice
             /\ y.list["g_pendingtasks"] = <<>>
             /\ UnreadyStay(y, z)
             /\ KeepsOrder(z.list["g_readytorun"], y.list["g_readytorun"], Tasks)
<1>1. CASE z.list["g_pendingtasks"] = <<>>
  BY <1>1 DEF MergeIfPending, SameTcbs, KeepsOrder, UnreadyStay
<1>2. CASE z.list["g_pendingtasks"] # <<>>
  <2>1. MergeIfPending(z) = sched_mergepending(z)
    BY <1>2 DEF MergeIfPending
  <2> QED BY <2>1, MergePending
<1> QED BY <1>1, <1>2

-----------------------------------------------------------------------------
(* The operations that system calls and interrupt handlers are made of     *)
(* keep a sound scheduler state sound: blocking, waking, changing a        *)
(* priority, locking and unlocking pre-emption, and the time slice.        *)


(* A well-formed state that holds tasks back only for a locked task.       *)
Sound(z) ==
  /\ WellFormed(z)
  /\ PendingIsLocked(z)

(* What no operation but the ones named for it changes.                    *)
SameRest(y, z) ==
  /\ y.panic = z.panic
  /\ y.g_pidhash = z.g_pidhash
  /\ y.init_priority = z.init_priority
  /\ y.round_robin = z.round_robin

(* The ready tasks of A stay ready, in the order they were in.             *)
OrderStays(y, z, A) == KeepsOrder(z.list["g_readytorun"], y.list["g_readytorun"], A)

(* A well-formed state is a shaped one whose head is the running task. *)
LEMMA WellFormedIsShaped ==
  ASSUME NEW z
  PROVE  WellFormed(z) <=> Shaped(z) /\ HeadRuns(z)
BY DEF WellFormed, Shaped

(* The fields that no list operation reads.                                *)
LEMMA SameListsWellFormed ==
  ASSUME NEW z, Shaped(z), NEW y \in SchedStates,
         y.list = z.list, y.task_state = z.task_state, y.sched_priority = z.sched_priority
  PROVE  Shaped(y) /\ Running(y) = Running(z) /\ (HeadRuns(z) => HeadRuns(y))
BY DEF Shaped, Consistent, InOrder, IdleEnds, HeadRuns, Running

(* Giving t another priority where that keeps every list in order.         *)
WithPriority(z, t, pri) == [z EXCEPT !.sched_priority[t] = pri]

(* Writing a TCB's sched_priority keeps the state shaped when the lists stay
   in order under the new priority. *)
LEMMA NewPriority ==
  ASSUME NEW z, Shaped(z), NEW t \in Tasks \ {Idle},
         NEW pri \in SCHED_PRIORITY_MIN .. SCHED_PRIORITY_MAX,
         NEW np, np = [z.sched_priority EXCEPT ![t] = pri],
         \A l \in PrioritizedLists : Sorted(z.list[l], np)
  PROVE  LET y == WithPriority(z, t, pri)
         IN  /\ Shaped(y) /\ Running(y) = Running(z) /\ (HeadRuns(z) => HeadRuns(y))
             /\ y.list = z.list /\ y.task_state = z.task_state
             /\ y.sched_priority = np /\ np \in [Tasks -> 0 .. SCHED_PRIORITY_MAX]
             /\ y.lockcount = z.lockcount /\ y.timeslice = z.timeslice
             /\ SameRest(y, z)
<1> DEFINE y == WithPriority(z, t, pri)
<1>z. z \in SchedStates /\ Consistent(z) /\ InOrder(z) /\ IdleEnds(z)
  BY DEF Shaped
<1>1. np \in [Tasks -> 0 .. SCHED_PRIORITY_MAX] /\ np[t] = pri
      /\ \A x \in Tasks \ {t} : np[x] = z.sched_priority[x]
  <2>1. z.sched_priority \in [Tasks -> 0 .. SCHED_PRIORITY_MAX] /\ pri \in 0 .. SCHED_PRIORITY_MAX
    BY <1>z DEF SchedStates, SCHED_PRIORITY_MIN, SCHED_PRIORITY_MAX
  <2> QED BY <2>1
<1>2. /\ y.list = z.list /\ y.task_state = z.task_state /\ y.sched_priority = np
      /\ y.init_priority = z.init_priority /\ y.lockcount = z.lockcount
      /\ y.timeslice = z.timeslice /\ y.round_robin = z.round_robin
      /\ y.g_pidhash = z.g_pidhash /\ y.panic = z.panic
  BY <1>z DEF SchedStates, WithPriority
<1>3. y \in SchedStates
  BY <1>z, <1>1 DEF SchedStates, WithPriority
<1> HIDE DEF y
<1>4. Consistent(y) /\ InOrder(y)
  BY <1>z, <1>2 DEF Consistent, InOrder
<1>5. IdleEnds(y)
  BY <1>z, <1>1, <1>2 DEF IdleEnds, SCHED_PRIORITY_MIN, SCHED_PRIORITY_MAX
<1>6. Running(y) = Running(z) /\ (HeadRuns(z) => HeadRuns(y))
  BY <1>2 DEF Running, HeadRuns
<1> QED BY <1>1, <1>2, <1>3, <1>4, <1>5, <1>6 DEF y, Shaped, SameRest

(* The priority of a task in no prioritized list.                          *)
LEMMA UnlistedPriority ==
  ASSUME NEW z, Shaped(z), NEW t \in Tasks \ {Idle},
         NEW pri \in SCHED_PRIORITY_MIN .. SCHED_PRIORITY_MAX,
         tasklist(z.task_state[t]) \notin PrioritizedLists
  PROVE  LET y == WithPriority(z, t, pri)
         IN  /\ Shaped(y) /\ Running(y) = Running(z) /\ (HeadRuns(z) => HeadRuns(y))
             /\ y.list = z.list /\ y.task_state = z.task_state /\ y.sched_priority[t] = pri
             /\ \A x \in Tasks \ {t} : y.sched_priority[x] = z.sched_priority[x]
             /\ y.lockcount = z.lockcount /\ y.timeslice = z.timeslice
             /\ SameRest(y, z)
<1> DEFINE np == [z.sched_priority EXCEPT ![t] = pri]
           y == WithPriority(z, t, pri)
<1>z. z \in SchedStates /\ Consistent(z) /\ InOrder(z)
  BY DEF Shaped
<1>1. z.sched_priority \in [Tasks -> Int] /\ np \in [Tasks -> Int]
      /\ np[t] = pri /\ \A x \in Tasks \ {t} : np[x] = z.sched_priority[x]
  <2>1. z.sched_priority \in [Tasks -> Int] /\ pri \in Int
    BY <1>z, StateTypes DEF SCHED_PRIORITY_MIN, SCHED_PRIORITY_MAX
  <2> QED BY <2>1
<1>2. np = [z.sched_priority EXCEPT ![t] = pri]
  OBVIOUS
<1> HIDE DEF np
<1>3. ASSUME NEW l \in PrioritizedLists PROVE Sorted(z.list[l], np)
  <2>1. z.list[l] \in Seq(Tasks) /\ Sorted(z.list[l], z.sched_priority) /\ ~Linked(z.list[l], t)
    BY <1>z, ListNames, StateTypes DEF Consistent, InOrder
  <2> DEFINE q == z.list[l]
  <2>2. \A n \in DOMAIN q : z.sched_priority[q[n]] = np[q[n]]
    <3> TAKE n \in DOMAIN q
    <3>1. q[n] \in Tasks /\ q[n] # t
      BY <2>1, ElementOfSeq, LenProperties DEF Linked
    <3> QED BY <3>1, <1>1
  <2> HIDE DEF q
  <2>3. q \in Seq(Tasks) /\ Sorted(q, z.sched_priority)
    BY <2>1 DEF q
  <2>4. Sorted(q, np)
    BY <2>2, <2>3 DEF Sorted
  <2> QED BY <2>4 DEF q
<1>4. /\ Shaped(y) /\ Running(y) = Running(z) /\ (HeadRuns(z) => HeadRuns(y))
      /\ y.list = z.list /\ y.task_state = z.task_state
      /\ y.sched_priority = np
      /\ y.lockcount = z.lockcount /\ y.timeslice = z.timeslice
      /\ SameRest(y, z)
  BY <1>2, <1>3, NewPriority
<1> QED BY <1>1, <1>4

-----------------------------------------------------------------------------
(* The lock count of t set to n.                                           *)
WithLock(z, t, n) == [z EXCEPT !.lockcount[t] = n]

(* Writing a TCB's lockcount disturbs no list. *)
LEMMA NewLock ==
  ASSUME NEW z, Shaped(z), NEW t \in Tasks, NEW n \in Nat
  PROVE  LET y == WithLock(z, t, n)
         IN  /\ Shaped(y) /\ Running(y) = Running(z) /\ (HeadRuns(z) => HeadRuns(y))
             /\ y.list = z.list /\ y.task_state = z.task_state
             /\ y.sched_priority = z.sched_priority /\ y.timeslice = z.timeslice
             /\ y.lockcount[t] = n /\ \A x \in Tasks \ {t} : y.lockcount[x] = z.lockcount[x]
             /\ SameRest(y, z)
<1> DEFINE y == WithLock(z, t, n)
<1>z. z \in SchedStates
  BY DEF Shaped
<1>1. /\ y.list = z.list /\ y.task_state = z.task_state /\ y.sched_priority = z.sched_priority
      /\ y.init_priority = z.init_priority /\ y.timeslice = z.timeslice
      /\ y.round_robin = z.round_robin /\ y.g_pidhash = z.g_pidhash /\ y.panic = z.panic
      /\ y.lockcount = [z.lockcount EXCEPT ![t] = n]
      /\ y \in SchedStates
  BY <1>z DEF SchedStates, WithLock
<1>2. z.lockcount \in [Tasks -> Nat]
  BY <1>z DEF SchedStates
<1> HIDE DEF y
<1>3. Shaped(y) /\ Running(y) = Running(z) /\ (HeadRuns(z) => HeadRuns(y))
  BY <1>1, SameListsWellFormed
<1> QED BY <1>1, <1>2, <1>3 DEF y, SameRest

(* A PANIC or ASSERT that may or may not be met.                           *)
LEMMA NewPanic ==
  ASSUME NEW z, Shaped(z), NEW ok, NEW why \in Panics
  PROVE  LET y == PanicUnless(z, ok, why)
         IN  /\ Shaped(y) /\ Running(y) = Running(z) /\ (HeadRuns(z) => HeadRuns(y))
             /\ y.list = z.list /\ y.task_state = z.task_state
             /\ y.sched_priority = z.sched_priority /\ y.init_priority = z.init_priority
             /\ y.lockcount = z.lockcount /\ y.timeslice = z.timeslice
             /\ y.round_robin = z.round_robin /\ y.g_pidhash = z.g_pidhash
             /\ y.panic \subseteq z.panic \cup {why}
<1> DEFINE y == PanicUnless(z, ok, why)
<1>z. z \in SchedStates
  BY DEF Shaped
<1>1. CASE ok
  BY <1>1 DEF PanicUnless
<1>2. CASE ~ok
  <2> DEFINE np == z.panic \cup {why}
  <2>0. y = [z EXCEPT !.panic = np]
    BY <1>2 DEF PanicUnless
  <2>p. np \in SUBSET Panics
    BY <1>z DEF SchedStates
  <2> HIDE DEF y, np
  <2>1. /\ y.list = z.list /\ y.task_state = z.task_state /\ y.sched_priority = z.sched_priority
        /\ y.init_priority = z.init_priority /\ y.timeslice = z.timeslice
        /\ y.round_robin = z.round_robin /\ y.g_pidhash = z.g_pidhash
        /\ y.lockcount = z.lockcount
        /\ y.panic = np
        /\ y \in SchedStates
    BY <1>z, <2>0, <2>p DEF SchedStates
  <2>3. Shaped(y) /\ Running(y) = Running(z) /\ (HeadRuns(z) => HeadRuns(y))
    BY <2>1, SameListsWellFormed
  <2> QED BY <2>1, <2>3 DEF y, np
<1> QED BY <1>1, <1>2

(* sched_lock changes the caller's lockcount, or panics at MAX_LOCK_COUNT. *)
LEMMA LockShaped ==
  ASSUME NEW z, Shaped(z)
  PROVE  LET y == sched_lock(z)
         IN  /\ Shaped(y) /\ Running(y) = Running(z) /\ (HeadRuns(z) => HeadRuns(y))
             /\ y.list = z.list /\ y.task_state = z.task_state
             /\ y.sched_priority = z.sched_priority /\ y.init_priority = z.init_priority
             /\ y.timeslice = z.timeslice
             /\ y.round_robin = z.round_robin /\ y.g_pidhash = z.g_pidhash
             /\ y.panic \subseteq z.panic \cup {"MAX_LOCK_COUNT"}
             /\ y.lockcount[Running(z)] = z.lockcount[Running(z)] + 1
             /\ \A x \in Tasks \ {Running(z)} : y.lockcount[x] = z.lockcount[x]
             /\ z.lockcount[Running(z)] < MAX_LOCK_COUNT => y.panic = z.panic
<1> DEFINE t == Running(z)
           n == z.lockcount[t] + 1
           z1 == WithLock(z, t, n)
           ok == z.lockcount[t] < MAX_LOCK_COUNT
           y == sched_lock(z)
<1>1. t \in Tasks /\ n \in Nat
  <2>1. t \in Tasks /\ z \in SchedStates
    BY ShapedReadyList DEF Shaped
  <2> QED BY <2>1, StateTypes
<1>2. y = PanicUnless(z1, ok, "MAX_LOCK_COUNT") /\ (z.lockcount[t] < MAX_LOCK_COUNT => y = z1)
  BY DEF sched_lock, WithLock, PanicUnless
<1> HIDE DEF t, n, y, ok
<1>3. /\ Shaped(z1) /\ Running(z1) = Running(z) /\ (HeadRuns(z) => HeadRuns(z1))
      /\ z1.list = z.list /\ z1.task_state = z.task_state
      /\ z1.sched_priority = z.sched_priority /\ z1.timeslice = z.timeslice
      /\ z1.lockcount[t] = n /\ \A x \in Tasks \ {t} : z1.lockcount[x] = z.lockcount[x]
      /\ SameRest(z1, z)
  BY <1>1, NewLock
<1> HIDE DEF z1
<1>4. /\ Shaped(y) /\ Running(y) = Running(z1) /\ (HeadRuns(z1) => HeadRuns(y))
      /\ y.list = z1.list /\ y.task_state = z1.task_state
      /\ y.sched_priority = z1.sched_priority /\ y.init_priority = z1.init_priority
      /\ y.lockcount = z1.lockcount /\ y.timeslice = z1.timeslice
      /\ y.round_robin = z1.round_robin /\ y.g_pidhash = z1.g_pidhash
      /\ y.panic \subseteq z1.panic \cup {"MAX_LOCK_COUNT"}
  <2>1. "MAX_LOCK_COUNT" \in Panics
    BY DEF Panics
  <2> QED BY <1>2, <1>3, <2>1, NewPanic
<1>5. z.lockcount[t] < MAX_LOCK_COUNT => y.panic = z.panic
  BY <1>2, <1>3 DEF SameRest
<1> QED BY <1>3, <1>4, <1>5 DEF y, t, n, SameRest

(* sched_lock leaves a sound state in which the caller holds the lock. *)
LEMMA LockSound ==
  ASSUME NEW z, Sound(z)
  PROVE  LET y == sched_lock(z)
         IN  /\ Sound(y) /\ y.panic \subseteq z.panic \cup {"MAX_LOCK_COUNT"}
             /\ y.g_pidhash = z.g_pidhash /\ y.list = z.list /\ y.task_state = z.task_state
             /\ y.sched_priority = z.sched_priority /\ y.init_priority = z.init_priority
             /\ y.timeslice = z.timeslice /\ y.round_robin = z.round_robin
             /\ UnreadyStay(y, z) /\ Running(y) = Running(z) /\ Running(z) \in Tasks
             /\ y.lockcount[Running(z)] > 0
<1> DEFINE y == sched_lock(z)
<1>1. Shaped(z) /\ HeadRuns(z)
  BY WellFormedIsShaped DEF Sound
<1>2. /\ Shaped(y) /\ Running(y) = Running(z) /\ (HeadRuns(z) => HeadRuns(y))
      /\ y.list = z.list /\ y.task_state = z.task_state
      /\ y.sched_priority = z.sched_priority /\ y.init_priority = z.init_priority
      /\ y.timeslice = z.timeslice
      /\ y.round_robin = z.round_robin /\ y.g_pidhash = z.g_pidhash
      /\ y.panic \subseteq z.panic \cup {"MAX_LOCK_COUNT"}
      /\ y.lockcount[Running(z)] = z.lockcount[Running(z)] + 1
  BY <1>1, LockShaped
<1>3. Running(z) \in Tasks
  BY <1>1, ShapedReadyList
<1>4. z.lockcount[Running(z)] \in Nat
  BY <1>1, <1>3, StateTypes DEF Shaped
<1>5. y.lockcount[Running(z)] > 0
  BY <1>2, <1>4
<1> HIDE DEF y
<1>6. Sound(y) /\ UnreadyStay(y, z)
  BY <1>1, <1>2, <1>5, WellFormedIsShaped DEF Sound, PendingIsLocked, UnreadyStay
<1> QED BY <1>2, <1>3, <1>5, <1>6 DEF y

(* sched_unlock leaves a sound state, whether it merges the pending tasks,
   switches to one of them, or only counts down. *)
LEMMA UnlockSound ==
  ASSUME NEW z, Sound(z)
  PROVE  LET y == sched_unlock(z)
         IN  /\ Sound(y) /\ SameRest(y, z) /\ UnreadyStay(y, z)
             /\ y.sched_priority = z.sched_priority /\ y.timeslice = z.timeslice
             /\ y.lockcount[Running(z)] =
                  IF z.lockcount[Running(z)] > 0 THEN z.lockcount[Running(z)] - 1 ELSE 0
             /\ \A x \in Tasks \ {Running(z)} : y.lockcount[x] = z.lockcount[x]
             /\ z.lockcount[Running(z)] > 1 => Running(y) = Running(z)
             /\ OrderStays(y, z, Tasks)
<1> DEFINE t == Running(z)
           n == IF z.lockcount[t] > 0 THEN z.lockcount[t] - 1 ELSE 0
           z1 == WithLock(z, t, n)
           y == sched_unlock(z)
<1>0. Shaped(z) /\ HeadRuns(z) /\ PendingIsLocked(z) /\ z \in SchedStates
  BY WellFormedIsShaped DEF Sound, Shaped
<1>1. t \in Tasks /\ n \in Nat /\ z.lockcount[t] \in Nat
  <2>1. t \in Tasks
    BY <1>0, ShapedReadyList
  <2> QED BY <2>1, <1>0, StateTypes
<1>2. y = IF z1.lockcount[t] = 0 /\ z.list["g_pendingtasks"] # <<>>
          THEN sched_mergepending(z1) ELSE z1
  BY DEF sched_unlock, WithLock, up_release_pending
<1>n. n = IF z.lockcount[t] > 0 THEN z.lockcount[t] - 1 ELSE 0
  OBVIOUS
<1> HIDE DEF t, n, y
<1>3. /\ Shaped(z1) /\ Running(z1) = Running(z) /\ (HeadRuns(z) => HeadRuns(z1))
      /\ z1.list = z.list /\ z1.task_state = z.task_state
      /\ z1.sched_priority = z.sched_priority /\ z1.timeslice = z.timeslice
      /\ z1.lockcount[t] = n /\ \A x \in Tasks \ {t} : z1.lockcount[x] = z.lockcount[x]
      /\ SameRest(z1, z)
  BY <1>0, <1>1, NewLock
<1> HIDE DEF z1
<1>4. WellFormed(z1)
  BY <1>0, <1>3, WellFormedIsShaped
<1>5. CASE n = 0 /\ z.list["g_pendingtasks"] # <<>>
  <2>1. y = sched_mergepending(z1)
    BY <1>2, <1>3, <1>5
  <2>2. /\ WellFormed(y)
        /\ SameTcbs(y, z1) /\ y.panic = z1.panic /\ y.timeslice = z1.timeslice
        /\ y.list["g_pendingtasks"] = <<>>
        /\ UnreadyStay(y, z1)
        /\ OrderStays(y, z1, Tasks)
    BY <1>4, <2>1, MergePending DEF OrderStays
  <2>3. Sound(y) /\ SameRest(y, z) /\ UnreadyStay(y, z)
    BY <1>3, <2>2 DEF Sound, PendingIsLocked, SameRest, UnreadyStay, SameTcbs
  <2>4. ~(z.lockcount[t] > 1)
    BY <1>5, <1>1, <1>n
  <2>5. OrderStays(y, z, Tasks)
    BY <2>2, <1>3 DEF OrderStays
  <2> QED BY <1>3, <1>n, <2>2, <2>3, <2>4, <2>5 DEF SameTcbs, y, t
<1>6. CASE ~(n = 0 /\ z.list["g_pendingtasks"] # <<>>)
  <2>1. y = z1
    BY <1>2, <1>3, <1>6
  <2>2. PendingIsLocked(y)
    BY <2>1, <1>1, <1>3, <1>6 DEF PendingIsLocked, t
  <2>3. Sound(y) /\ SameRest(y, z) /\ UnreadyStay(y, z)
    BY <1>3, <1>4, <2>1, <2>2 DEF Sound, UnreadyStay
  <2>4. OrderStays(y, z, Tasks)
    BY <1>3, <2>1 DEF OrderStays, KeepsOrder
  <2> QED BY <1>3, <1>n, <2>1, <2>3, <2>4 DEF y, t
<1> QED BY <1>5, <1>6

-----------------------------------------------------------------------------
(* up_block_task of the running task.                                      *)
LEMMA BlockSound ==
  ASSUME NEW z, Sound(z), NEW t \in Tasks \ {Idle}, Running(z) = t, NEW st \in BlockedStates
  PROVE  LET y == up_block_task(z, t, st)
         IN  /\ Sound(y) /\ SameTcbs(y, z) /\ SameRest(y, z) /\ y.timeslice = z.timeslice
             /\ OthersStay(y, z, t) /\ y.task_state[t] = st
             /\ OrderStays(y, z, Tasks \ {t})
<1> DEFINE z1 == sched_removereadytorun(z, t)
           z2 == sched_addblocked(z1, t, st)
           y == up_block_task(z, t, st)
<1>0. WellFormed(z) /\ z.task_state[t] = "RUNNING" /\ z.sched_priority[t] > 0
  BY DEF Sound, WellFormed, HeadRuns, IdleEnds
<1>1. y = MergeIfPending(z2)
  BY <1>0 DEF up_block_task
<1>2. /\ WellFormed(z1)
      /\ SameTcbs(z1, z) /\ z1.panic = z.panic /\ z1.timeslice = z.timeslice
      /\ z1.task_state[t] = "INVALID" /\ OthersStay(z1, z, t)
      /\ OrderStays(z1, z, Tasks \ {t})
  BY <1>0, RemoveReady DEF OrderStays
<1> HIDE DEF z1
<1>3. Shaped(z1) /\ HeadRuns(z1) /\ z1.sched_priority[t] > 0
  BY <1>0, <1>2, WellFormedIsShaped DEF SameTcbs
<1>4. /\ Shaped(z2) /\ SameTcbs(z2, z1) /\ z2.panic = z1.panic /\ z2.timeslice = z1.timeslice
      /\ z2.list["g_readytorun"] = z1.list["g_readytorun"]
      /\ z2.task_state = [z1.task_state EXCEPT ![t] = st]
  BY <1>2, <1>3, AddBlocked
<1> HIDE DEF z2, y
<1>5. z1.task_state \in [Tasks -> TaskStates] /\ st \notin {"INVALID", "RUNNING"}
  BY <1>3 DEF Shaped, SchedStates, BlockedStates, WaitStates
<1>6. /\ z2.task_state[t] = st
      /\ \A x \in Tasks \ {t} : z2.task_state[x] = z1.task_state[x]
  BY <1>4, <1>5
<1>7. WellFormed(z2)
  <2>1. Running(z2) = Running(z1)
    BY <1>4 DEF Running
  <2>2. HeadRuns(z2)
    BY <2>1, <1>2, <1>3, <1>5, <1>6 DEF HeadRuns
  <2> QED BY <2>2, <1>4, WellFormedIsShaped
<1>8. /\ WellFormed(y)
      /\ SameTcbs(y, z2) /\ y.panic = z2.panic /\ y.timeslice = z2.timeslice
      /\ y.list["g_pendingtasks"] = <<>>
      /\ UnreadyStay(y, z2)
      /\ OrderStays(y, z2, Tasks)
  BY <1>1, <1>7, MergedIfPending DEF OrderStays
<1>9. Sound(y)
  BY <1>8 DEF Sound, PendingIsLocked
<1>10. SameTcbs(y, z) /\ SameRest(y, z) /\ y.timeslice = z.timeslice
  BY <1>2, <1>4, <1>8 DEF SameTcbs, SameRest
<1>11. OthersStay(y, z, t) /\ y.task_state[t] = st
  BY <1>2, <1>6, <1>8, UnreadyStates DEF OthersStay, UnreadyStay
<1>12. OrderStays(y, z, Tasks \ {t})
  BY <1>2, <1>4, <1>8 DEF OrderStays, KeepsOrder
<1> QED BY <1>9, <1>10, <1>11, <1>12 DEF y

(* The time slice of t set to n.                                           *)
LEMMA NewSlice ==
  ASSUME NEW z, Shaped(z), NEW t \in Tasks, NEW n \in 0 .. TimeSlice,
         NEW y, y = [z EXCEPT !.timeslice[t] = n]
  PROVE  /\ Shaped(y) /\ Running(y) = Running(z) /\ (HeadRuns(z) => HeadRuns(y))
         /\ y.list = z.list /\ y.task_state = z.task_state
         /\ SameTcbs(y, z) /\ SameRest(y, z)
<1>z. z \in SchedStates
  BY DEF Shaped
<1>1. /\ y.list = z.list /\ y.task_state = z.task_state /\ y.sched_priority = z.sched_priority
      /\ y.init_priority = z.init_priority /\ y.lockcount = z.lockcount
      /\ y.round_robin = z.round_robin /\ y.g_pidhash = z.g_pidhash /\ y.panic = z.panic
      /\ y \in SchedStates
  BY <1>z DEF SchedStates
<1>2. Shaped(y) /\ Running(y) = Running(z) /\ (HeadRuns(z) => HeadRuns(y))
  BY <1>1, SameListsWellFormed
<1> QED BY <1>1, <1>2 DEF SameTcbs, SameRest

(* up_unblock_task of a blocked task.                                      *)
LEMMA UnblockSound ==
  ASSUME NEW z, Sound(z), NEW t \in Tasks \ {Idle}, z.task_state[t] \in BlockedStates
  PROVE  LET y == up_unblock_task(z, t)
         IN  /\ Sound(y) /\ SameTcbs(y, z) /\ SameRest(y, z)
             /\ OthersStay(y, z, t) /\ y.task_state[t] \notin Unready
             /\ z.lockcount[Running(z)] > 0 => Running(y) = Running(z)
             /\ OrderStays(y, z, Tasks)
<1> DEFINE z1 == RemoveFromList(z, t)
           z2 == [z1 EXCEPT !.timeslice[t] = TimeSlice]
           y == up_unblock_task(z, t)
<1>0. WellFormed(z) /\ Shaped(z) /\ HeadRuns(z) /\ z.sched_priority[t] > 0
  <2>1. z.task_state[t] # "INVALID"
    BY DEF BlockedStates, WaitStates
  <2> QED BY <2>1, WellFormedIsShaped DEF Sound, WellFormed, IdleEnds
<1>1. y = sched_addreadytorun(z2, t)
  BY DEF up_unblock_task, sched_removeblocked, PanicUnless
<1>2. /\ Shaped(z1) /\ SameTcbs(z1, z) /\ z1.panic = z.panic
      /\ z1.list["g_readytorun"] = z.list["g_readytorun"]
      /\ z.task_state[t] # "PENDING" => z1.list["g_pendingtasks"] = z.list["g_pendingtasks"]
      /\ z1.task_state = [z.task_state EXCEPT ![t] = "INVALID"]
  BY <1>0, RemoveUnready
<1>3. z1.list["g_pendingtasks"] = z.list["g_pendingtasks"]
  BY <1>2 DEF BlockedStates, WaitStates
<1> HIDE DEF z1
<1>4. z2 = [z1 EXCEPT !.timeslice[t] = TimeSlice] /\ TimeSlice \in 0 .. TimeSlice
  BY BoundsAssumption
<1> HIDE DEF z2, y
<1>5. /\ Shaped(z2) /\ Running(z2) = Running(z1) /\ (HeadRuns(z1) => HeadRuns(z2))
      /\ z2.list = z1.list /\ z2.task_state = z1.task_state
      /\ SameTcbs(z2, z1) /\ SameRest(z2, z1)
  BY <1>2, <1>4, NewSlice
<1>6. z.task_state \in [Tasks -> TaskStates]
  BY <1>0 DEF Shaped, SchedStates
<1>7. z1.task_state[t] = "INVALID" /\ \A x \in Tasks \ {t} : z1.task_state[x] = z.task_state[x]
  BY <1>2, <1>6
<1>8. Running(z1) = Running(z)
  BY <1>2 DEF Running
<1>9. HeadRuns(z1)
  BY <1>0, <1>7, <1>8 DEF HeadRuns, BlockedStates, WaitStates
<1>10. WellFormed(z2) /\ z2.task_state[t] = "INVALID" /\ z2.sched_priority[t] > 0
  BY <1>0, <1>2, <1>5, <1>7, <1>9, WellFormedIsShaped DEF SameTcbs
<1>11. /\ WellFormed(y)
       /\ SameTcbs(y, z2) /\ y.panic = z2.panic
       /\ OthersStay(y, z2, t) /\ y.task_state[t] \notin Unready
       /\ \/ z2.lockcount[Running(z2)] > 0 /\ Running(y) = Running(z2)
          \/ /\ y.list["g_pendingtasks"] = z2.list["g_pendingtasks"]
             /\ Running(y) \in {Running(z2), t}
       /\ z2.lockcount[Running(z2)] > 0 => Running(y) = Running(z2)
       /\ OrderStays(y, z2, Tasks)
  BY <1>1, <1>10, AddReady DEF OrderStays
<1>12. SameTcbs(y, z) /\ SameRest(y, z)
  BY <1>2, <1>5, <1>11 DEF SameTcbs, SameRest
<1>13. Running(z2) = Running(z) /\ z2.lockcount = z.lockcount /\ y.lockcount = z.lockcount
       /\ z2.list["g_pendingtasks"] = z.list["g_pendingtasks"]
  BY <1>3, <1>5, <1>8, <1>12, <1>2 DEF SameTcbs
<1>14. PendingIsLocked(y)
  <2>0. PendingIsLocked(z)
    BY DEF Sound
  <2>1. CASE z2.lockcount[Running(z2)] > 0
    BY <2>1, <1>11, <1>13 DEF PendingIsLocked
  <2>2. CASE ~(z2.lockcount[Running(z2)] > 0)
    BY <2>0, <2>2, <1>11, <1>13 DEF PendingIsLocked
  <2> QED BY <2>1, <2>2
<1>15. OthersStay(y, z, t)
  BY <1>5, <1>7, <1>11 DEF OthersStay
<1>16. OrderStays(y, z, Tasks)
  BY <1>2, <1>5, <1>11 DEF OrderStays
<1> QED BY <1>11, <1>12, <1>13, <1>14, <1>15, <1>16 DEF y, Sound

-----------------------------------------------------------------------------
(* t leaves g_readytorun and gets a priority: the first half of a change.  *)
LEMMA RemoveForPriority ==
  ASSUME NEW z, Sound(z), NEW t \in Tasks \ {Idle},
         z.task_state[t] \in {"READYTORUN", "RUNNING"},
         NEW pri \in SCHED_PRIORITY_MIN .. SCHED_PRIORITY_MAX
  PROVE  LET y == WithPriority(sched_removereadytorun(z, t), t, pri)
         IN  /\ WellFormed(y) /\ SameRest(y, z) /\ OthersStay(y, z, t)
             /\ y.lockcount = z.lockcount /\ y.timeslice = z.timeslice
             /\ y.task_state[t] = "INVALID" /\ y.sched_priority[t] = pri
             /\ \A x \in Tasks \ {t} : y.sched_priority[x] = z.sched_priority[x]
             /\ y.list["g_pendingtasks"] = z.list["g_pendingtasks"]
             /\ Running(z) # t => Running(y) = Running(z)
             /\ OrderStays(y, z, Tasks \ {t})
<1> DEFINE z0 == sched_removereadytorun(z, t)
           y == WithPriority(z0, t, pri)
<1>1. /\ WellFormed(z0)
      /\ SameTcbs(z0, z) /\ z0.panic = z.panic /\ z0.timeslice = z.timeslice
      /\ z0.task_state[t] = "INVALID" /\ OthersStay(z0, z, t)
      /\ z0.list["g_pendingtasks"] = z.list["g_pendingtasks"]
      /\ Running(z) # t => Running(z0) = Running(z)
      /\ OrderStays(z0, z, Tasks \ {t})
  BY RemoveReady DEF Sound, OrderStays
<1> HIDE DEF z0
<1>2. Shaped(z0) /\ HeadRuns(z0) /\ tasklist(z0.task_state[t]) \notin PrioritizedLists
  BY <1>1, WellFormedIsShaped, TaskListTable, ListNames
<1>3. /\ Shaped(y) /\ Running(y) = Running(z0) /\ (HeadRuns(z0) => HeadRuns(y))
      /\ y.list = z0.list /\ y.task_state = z0.task_state /\ y.sched_priority[t] = pri
      /\ \A x \in Tasks \ {t} : y.sched_priority[x] = z0.sched_priority[x]
      /\ y.lockcount = z0.lockcount /\ y.timeslice = z0.timeslice
      /\ SameRest(y, z0)
  BY <1>2, UnlistedPriority
<1> HIDE DEF y
<1>4. WellFormed(y) /\ SameRest(y, z)
  BY <1>1, <1>2, <1>3, WellFormedIsShaped DEF SameRest, SameTcbs
<1>5. OthersStay(y, z, t)
  BY <1>1, <1>3 DEF OthersStay
<1>6. OrderStays(y, z, Tasks \ {t})
  BY <1>1, <1>3 DEF OrderStays
<1> QED BY <1>1, <1>3, <1>4, <1>5, <1>6 DEF y, z0, SameTcbs

(* The second half: t, RUNNING nowhere, becomes ready again.               *)
LEMMA AddWithPriority ==
  ASSUME NEW z, Sound(z), NEW t \in Tasks \ {Idle},
         z.task_state[t] \in {"READYTORUN", "RUNNING"},
         NEW pri \in SCHED_PRIORITY_MIN .. SCHED_PRIORITY_MAX
  PROVE  LET y == sched_addreadytorun(WithPriority(sched_removereadytorun(z, t), t, pri), t)
         IN  /\ WellFormed(y) /\ SameRest(y, z) /\ UnreadyStay(y, z)
             /\ y.lockcount = z.lockcount /\ y.timeslice = z.timeslice
             /\ (Running(z) = t) = (Running(y) = t) => PendingIsLocked(y)
             /\ Running(z) # t /\ pri <= z.sched_priority[Running(z)] => Running(y) # t
             /\ Running(z) # t /\ z.lockcount[Running(z)] > 0 => Running(y) = Running(z)
             /\ y.sched_priority[t] = pri /\ OrderStays(y, z, Tasks \ {t})
             /\ \A u \in Tasks \ {t} : Ahead(y.list["g_readytorun"], t, u) =>
                                          z.sched_priority[u] < pri
<1> DEFINE z1 == WithPriority(sched_removereadytorun(z, t), t, pri)
           y == sched_addreadytorun(z1, t)
<1>1. /\ WellFormed(z1) /\ SameRest(z1, z) /\ OthersStay(z1, z, t)
      /\ z1.lockcount = z.lockcount /\ z1.timeslice = z.timeslice
      /\ z1.task_state[t] = "INVALID" /\ z1.sched_priority[t] = pri
      /\ \A x \in Tasks \ {t} : z1.sched_priority[x] = z.sched_priority[x]
      /\ z1.list["g_pendingtasks"] = z.list["g_pendingtasks"]
      /\ Running(z) # t => Running(z1) = Running(z)
      /\ OrderStays(z1, z, Tasks \ {t})
  BY RemoveForPriority
<1> HIDE DEF z1
<1>2. z1.sched_priority[t] > 0 /\ pri \in Int
  BY <1>1 DEF SCHED_PRIORITY_MIN, SCHED_PRIORITY_MAX
<1>3. Running(z1) # t /\ Running(z1) \in Tasks
  BY <1>1, ReadyList DEF WellFormed, HeadRuns
<1>4. /\ WellFormed(y)
      /\ SameTcbs(y, z1) /\ y.panic = z1.panic /\ y.timeslice = z1.timeslice
      /\ OthersStay(y, z1, t) /\ y.task_state[t] \notin Unready
      /\ \/ z1.lockcount[Running(z1)] > 0 /\ Running(y) = Running(z1)
         \/ /\ y.list["g_pendingtasks"] = z1.list["g_pendingtasks"]
            /\ Running(y) \in {Running(z1), t}
      /\ Running(y) = t => z1.sched_priority[Running(z1)] < z1.sched_priority[t]
      /\ z1.lockcount[Running(z1)] > 0 => Running(y) = Running(z1)
      /\ OrderStays(y, z1, Tasks)
      /\ \A u \in Tasks : Ahead(y.list["g_readytorun"], t, u) =>
                             z1.sched_priority[u] < z1.sched_priority[t]
  BY <1>1, <1>2, AddReady DEF OrderStays
<1> HIDE DEF y
<1>5. SameRest(y, z) /\ y.lockcount = z.lockcount /\ y.timeslice = z.timeslice
  BY <1>1, <1>4 DEF SameRest, SameTcbs
<1>6. UnreadyStay(y, z)
  BY <1>1, <1>4, UnreadyStates DEF UnreadyStay, OthersStay
<1>7. ASSUME (Running(z) = t) = (Running(y) = t) PROVE PendingIsLocked(y)
  <2>0. PendingIsLocked(z)
    BY DEF Sound
  <2>1. CASE Running(z) = t
    BY <2>0, <2>1, <1>1, <1>3, <1>4, <1>5, <1>7 DEF PendingIsLocked
  <2>2. CASE Running(z) # t
    BY <2>0, <2>2, <1>1, <1>3, <1>4, <1>5, <1>7 DEF PendingIsLocked
  <2> QED BY <2>1, <2>2
<1>8. ASSUME Running(z) # t, pri <= z.sched_priority[Running(z)] PROVE Running(y) # t
  <2>1. Running(z1) = Running(z) /\ z1.sched_priority[Running(z1)] = z.sched_priority[Running(z)]
    BY <1>1, <1>3, <1>8
  <2>2. z.sched_priority[Running(z)] \in Int
    BY <2>1, <1>3, StateTypes DEF Sound, WellFormed
  <2> QED BY <2>1, <2>2, <1>1, <1>2, <1>4, <1>8
<1>9. Running(z) # t /\ z.lockcount[Running(z)] > 0 => Running(y) = Running(z)
  BY <1>1, <1>4
<1>10. y.sched_priority[t] = pri /\ OrderStays(y, z, Tasks \ {t})
  BY <1>1, <1>4 DEF SameTcbs, OrderStays, KeepsOrder
<1>11. \A u \in Tasks \ {t} : Ahead(y.list["g_readytorun"], t, u) => z.sched_priority[u] < pri
  BY <1>1, <1>4
<1> QED BY <1>4, <1>5, <1>6, <1>7, <1>8, <1>9, <1>10, <1>11 DEF y, z1

(* up_reprioritize_rtr.                                                    *)
LEMMA ReprioritizeSound ==
  ASSUME NEW z, Sound(z), NEW t \in Tasks \ {Idle},
         z.task_state[t] \in {"READYTORUN", "RUNNING"},
         NEW pri \in SCHED_PRIORITY_MIN .. SCHED_PRIORITY_MAX
  PROVE  LET y == up_reprioritize_rtr(z, t, pri)
         IN  /\ Sound(y) /\ SameRest(y, z) /\ UnreadyStay(y, z)
             /\ y.lockcount = z.lockcount /\ y.timeslice = z.timeslice
             /\ Running(z) # t /\ z.lockcount[Running(z)] > 0 => Running(y) = Running(z)
             /\ y.sched_priority[t] = pri /\ OrderStays(y, z, Tasks \ {t})
<1> DEFINE z2 == sched_addreadytorun(WithPriority(sched_removereadytorun(z, t), t, pri), t)
           y == up_reprioritize_rtr(z, t, pri)
<1>1. /\ WellFormed(z2) /\ SameRest(z2, z) /\ UnreadyStay(z2, z)
      /\ z2.lockcount = z.lockcount /\ z2.timeslice = z.timeslice
      /\ (Running(z) = t) = (Running(z2) = t) => PendingIsLocked(z2)
      /\ Running(z) # t /\ z.lockcount[Running(z)] > 0 => Running(z2) = Running(z)
      /\ z2.sched_priority[t] = pri /\ OrderStays(z2, z, Tasks \ {t})
  BY AddWithPriority
<1>2. y = IF (Running(z) = t) # (Running(z2) = t) THEN MergeIfPending(z2) ELSE z2
  BY Zenon DEF up_reprioritize_rtr, WithPriority
<1> HIDE DEF z2, y
<1>3. CASE (Running(z) = t) # (Running(z2) = t)
  <2>1. /\ WellFormed(y)
        /\ SameTcbs(y, z2) /\ y.panic = z2.panic /\ y.timeslice = z2.timeslice
        /\ y.list["g_pendingtasks"] = <<>>
        /\ UnreadyStay(y, z2)
        /\ OrderStays(y, z2, Tasks)
    BY <1>1, <1>2, <1>3, MergedIfPending DEF OrderStays
  <2>2. Sound(y) /\ SameRest(y, z) /\ UnreadyStay(y, z)
    BY <1>1, <2>1 DEF Sound, PendingIsLocked, SameRest, SameTcbs, UnreadyStay
  <2>3. ~(Running(z) # t /\ z.lockcount[Running(z)] > 0)
    BY <1>1, <1>3
  <2>4. y.sched_priority[t] = pri /\ OrderStays(y, z, Tasks \ {t})
    BY <1>1, <2>1 DEF SameTcbs, OrderStays, KeepsOrder
  <2> QED BY <1>1, <2>1, <2>2, <2>3, <2>4 DEF SameTcbs, y
<1>4. CASE (Running(z) = t) = (Running(z2) = t)
  BY <1>1, <1>2, <1>4 DEF Sound, y
<1> QED BY <1>3, <1>4

(* The running task stays first with more priority than the next task.     *)
LEMMA RaiseRunning ==
  ASSUME NEW z, Sound(z), NEW t \in Tasks \ {Idle}, Running(z) = t,
         NEW pri \in SCHED_PRIORITY_MIN .. SCHED_PRIORITY_MAX,
         ~(pri <= z.sched_priority[z.list["g_readytorun"][2]])
  PROVE  LET y == WithPriority(z, t, pri)
         IN  /\ Sound(y) /\ SameRest(y, z) /\ UnreadyStay(y, z)
             /\ y.lockcount = z.lockcount /\ y.timeslice = z.timeslice /\ y.list = z.list
<1> DEFINE q == z.list["g_readytorun"]
           prio == z.sched_priority
           np == [prio EXCEPT ![t] = pri]
           y == WithPriority(z, t, pri)
<1>z. z \in SchedStates /\ Consistent(z) /\ InOrder(z) /\ Shaped(z) /\ HeadRuns(z) /\ WellFormed(z)
  BY WellFormedIsShaped DEF Sound, Shaped
<1>1. /\ prio \in [Tasks -> Int] /\ pri \in Int /\ np \in [Tasks -> Int]
      /\ np[t] = pri /\ \A x \in Tasks \ {t} : np[x] = prio[x]
  <2>1. prio \in [Tasks -> Int] /\ pri \in Int
    BY <1>z, StateTypes DEF SCHED_PRIORITY_MIN, SCHED_PRIORITY_MAX
  <2> HIDE DEF prio
  <2> QED BY <2>1
<1>2. np = [z.sched_priority EXCEPT ![t] = pri]
  OBVIOUS
<1>3. /\ q \in Seq(Tasks) /\ Len(q) \in Nat \ {0} /\ DOMAIN q = 1 .. Len(q)
      /\ q[1] = t /\ q[Len(q)] = Idle
  BY <1>z, ReadyList
<1>4. Distinct(q) /\ Sorted(q, prio)
  BY <1>z, ListNames DEF Consistent, InOrder
<1>5. ~(pri <= prio[q[2]])
  OBVIOUS
<1> HIDE DEF q, np
<1>6. Sorted(q, np)
  <2>1. \A n \in DOMAIN q : q[n] \in Tasks /\ (n # 1 => np[q[n]] = prio[q[n]])
    <3> TAKE n \in DOMAIN q
    <3>1. q[n] \in Tasks
      BY <1>3, ElementOfSeq
    <3>2. n # 1 => q[n] # t
      BY <1>3, <1>4 DEF Distinct
    <3> QED BY <3>1, <3>2, <1>1
  <2>2. \A n \in DOMAIN q : n > 1 => prio[q[n]] < pri
    <3> TAKE n \in DOMAIN q
    <3> HAVE n > 1
    <3>1. 2 \in DOMAIN q /\ (n = 2 \/ 2 < n)
      BY <1>3
    <3>2. prio[q[2]] >= prio[q[n]] /\ prio[q[2]] \in Int /\ prio[q[n]] \in Int
      BY <3>1, <2>1, <1>1, <1>4 DEF Sorted
    <3> QED BY <3>2, <1>1, <1>5
  <2> SUFFICES ASSUME NEW i \in DOMAIN q, NEW j \in DOMAIN q, i < j
               PROVE  np[q[i]] >= np[q[j]]
    BY DEF Sorted
  <2>3. j > 1 /\ np[q[j]] = prio[q[j]] /\ prio[q[j]] \in Int /\ prio[q[i]] \in Int
    BY <2>1, <1>1, <1>3
  <2>4. CASE i = 1
    BY <2>2, <2>3, <2>4, <1>1, <1>3
  <2>5. CASE i # 1
    BY <2>1, <2>3, <2>5, <1>4 DEF Sorted
  <2> QED BY <2>4, <2>5
<1>7. ASSUME NEW l \in PrioritizedLists, l # "g_readytorun" PROVE Sorted(z.list[l], np)
  <2>1. z.list[l] \in Seq(Tasks) /\ Sorted(z.list[l], prio) /\ ~Linked(z.list[l], t)
    <3>1. tasklist(z.task_state[t]) = "g_readytorun"
      BY <1>z, TaskListTable DEF HeadRuns
    <3> QED BY <3>1, <1>z, <1>7, ListNames, StateTypes DEF Consistent, InOrder
  <2> DEFINE w == z.list[l]
  <2>2. \A n \in DOMAIN w : prio[w[n]] = np[w[n]]
    <3> TAKE n \in DOMAIN w
    <3>1. w[n] \in Tasks /\ w[n] # t
      BY <2>1, ElementOfSeq, LenProperties DEF Linked
    <3> QED BY <3>1, <1>1
  <2> HIDE DEF w, prio
  <2>3. Sorted(w, prio)
    BY <2>1 DEF w
  <2>4. Sorted(w, np)
    BY <2>2, <2>3 DEF Sorted
  <2> QED BY <2>4 DEF w
<1>8. \A l \in PrioritizedLists : Sorted(z.list[l], np)
  BY <1>6, <1>7 DEF q
<1>9. /\ Shaped(y) /\ Running(y) = Running(z) /\ (HeadRuns(z) => HeadRuns(y))
      /\ y.list = z.list /\ y.task_state = z.task_state
      /\ y.lockcount = z.lockcount /\ y.timeslice = z.timeslice
      /\ SameRest(y, z)
  BY <1>z, <1>2, <1>8, NewPriority
<1> HIDE DEF y
<1>10. Sound(y) /\ UnreadyStay(y, z)
  BY <1>z, <1>9, WellFormedIsShaped DEF Sound, PendingIsLocked, UnreadyStay
<1> QED BY <1>9, <1>10 DEF y

(* A waiting or pending task moves to its new place in the same list.      *)
LEMMA RelistWaiting ==
  ASSUME NEW z, Sound(z), NEW t \in Tasks \ {Idle},
         z.task_state[t] \notin {"INVALID", "READYTORUN", "RUNNING"},
         prioritized(z.task_state[t]),
         NEW pri \in SCHED_PRIORITY_MIN .. SCHED_PRIORITY_MAX
  PROVE  LET l == tasklist(z.task_state[t])
             y == AddPrioritized(WithPriority([z EXCEPT !.list[l] = dq_rem(@, t)], t, pri), l, t)
         IN  /\ Sound(y) /\ SameRest(y, z) /\ UnreadyStay(y, z)
             /\ y.lockcount = z.lockcount /\ y.timeslice = z.timeslice
             /\ y.list["g_readytorun"] = z.list["g_readytorun"]
<1> DEFINE l == tasklist(z.task_state[t])
           q1 == dq_rem(z.list[l], t)
           ts == [z.task_state EXCEPT ![t] = "INVALID"]
           z1 == Relist(z, l, q1, ts)
           z2 == WithPriority(z1, t, pri)
           np == [z.sched_priority EXCEPT ![t] = pri]
           r == sched_addprioritized(q1, np, t)
           z3 == Relist(z2, l, r, z.task_state)
           y0 == WithPriority([z EXCEPT !.list[l] = dq_rem(@, t)], t, pri)
           y == AddPrioritized(y0, l, t)
<1>z. z \in SchedStates /\ Shaped(z) /\ HeadRuns(z) /\ WellFormed(z) /\ PendingIsLocked(z)
  BY WellFormedIsShaped DEF Sound, Shaped
<1>0. z.task_state \in [Tasks -> TaskStates] /\ pri \in Int /\ pri >= SCHED_PRIORITY_MIN /\ pri > 0
  BY <1>z DEF SchedStates, SCHED_PRIORITY_MIN, SCHED_PRIORITY_MAX
<1>1. l \in Lists \ {"g_readytorun"} /\ l \in PrioritizedLists
  BY <1>0, TaskListTable, ListNames
<1>2. /\ ts \in [Tasks -> TaskStates] /\ ts[t] = "INVALID"
      /\ \A x \in Tasks \ {t} : ts[x] = z.task_state[x]
  BY <1>0 DEF TaskStates
<1>3. /\ Shaped(z1) /\ SameTcbs(z1, z) /\ z1.panic = z.panic /\ z1.timeslice = z.timeslice
      /\ \A m \in Lists \ {l} : z1.list[m] = z.list[m]
      /\ z1.task_state = ts
  <2>1. tasklist(z.task_state[t]) = l
    OBVIOUS
  <2> HIDE DEF l, ts
  <2> QED BY <1>z, <1>1, <1>2, <2>1, UnlinkShaped
<1>4. z1.list[l] = q1
  BY <1>z, <1>1 DEF Relist, SchedStates
<1> HIDE DEF z1, q1, ts, l
<1>5. /\ Shaped(z2) /\ Running(z2) = Running(z1)
      /\ z2.list = z1.list /\ z2.task_state = z1.task_state /\ z2.sched_priority[t] = pri
      /\ z2.lockcount = z1.lockcount /\ z2.timeslice = z1.timeslice
      /\ SameRest(z2, z1)
  <2>1. tasklist(z1.task_state[t]) \notin PrioritizedLists
    BY <1>2, <1>3, TaskListTable, ListNames
  <2> QED BY <2>1, <1>3, UnlistedPriority
<1>6. z2.sched_priority = np
  BY <1>3 DEF WithPriority, SameTcbs, Shaped, SchedStates
<1> HIDE DEF z2, np
<1>7. /\ r \in Seq(Tasks) /\ Distinct(r) /\ Sorted(r, np)
      /\ \A x \in Tasks : Linked(r, x) <=> Linked(z2.list[l], x) \/ x = t
  <2>1. z2 \in SchedStates /\ Consistent(z2) /\ InOrder(z2) /\ z2.task_state[t] = "INVALID"
    BY <1>2, <1>3, <1>5 DEF Shaped
  <2>2. z2.list[l] = q1
    BY <1>4, <1>5
  <2> QED BY <2>1, <2>2, <1>1, <1>6, AddToList
<1> HIDE DEF r
<1>8. /\ Shaped(z3) /\ SameTcbs(z3, z2) /\ z3.panic = z2.panic /\ z3.timeslice = z2.timeslice
      /\ z3.list[l] = r /\ \A m \in Lists \ {l} : z3.list[m] = z2.list[m]
      /\ z3.task_state = z.task_state
  <2>1. tasklist(z.task_state[t]) = l
    BY DEF l
  <2>2. z2.task_state[t] = "INVALID" /\ z2.sched_priority[t] > 0
        /\ \A x \in Tasks \ {t} : tasklist(z.task_state[x]) = tasklist(z2.task_state[x])
    BY <1>0, <1>2, <1>3, <1>5
  <2> QED BY <2>1, <2>2, <1>0, <1>1, <1>5, <1>6, <1>7, LinkShaped
<1>9. y = z3
  <2>1. y0.sched_priority = np /\ y0.list[l] = q1
    BY <1>z, <1>1 DEF WithPriority, np, q1, SchedStates
  <2>2. y0.sched_priority[t] >= SCHED_PRIORITY_MIN
    BY <2>1, <1>0, <1>5, <1>6
  <2>3. y = [y0 EXCEPT !.list[l] = r]
    BY <2>1, <2>2 DEF AddPrioritized, PanicUnless, r
  <2>4. y0 = [z EXCEPT !.list[l] = q1, !.sched_priority = np]
    BY <1>z DEF WithPriority, np, q1, SchedStates
  <2>5. z1 = [z EXCEPT !.list[l] = q1, !.task_state = ts]
    BY DEF z1, Relist
  <2>6. z2 = [z1 EXCEPT !.sched_priority = np]
    <3>1. z1.sched_priority = z.sched_priority /\ z1 \in SchedStates
      BY <1>3 DEF SameTcbs, Shaped
    <3> QED BY <3>1 DEF z2, WithPriority, np
  <2>7. z3 = [z2 EXCEPT !.list[l] = r, !.task_state = z.task_state]
    BY DEF Relist
  <2> HIDE DEF y, y0, z3
  <2> QED BY <1>z, <2>3, <2>4, <2>5, <2>6, <2>7 DEF SchedStates
<1> HIDE DEF y, z3
<1>10. y.list["g_readytorun"] = z.list["g_readytorun"] /\ Running(y) = Running(z)
  BY <1>1, <1>3, <1>5, <1>8, <1>9, ListNames DEF Running
<1>11. HeadRuns(y)
  BY <1>z, <1>8, <1>9, <1>10 DEF HeadRuns
<1>12. SameRest(y, z) /\ y.lockcount = z.lockcount /\ y.timeslice = z.timeslice
  BY <1>3, <1>5, <1>8, <1>9 DEF SameRest, SameTcbs
<1>13. PendingIsLocked(y)
  <2>1. CASE l = "g_pendingtasks"
    <3>1. z.list["g_pendingtasks"] # <<>>
      <4>1. Linked(z.list["g_pendingtasks"], t)
        BY <2>1, <1>1, <1>z DEF Shaped, Consistent, l
      <4> QED BY <4>1 DEF Linked
    <3> QED BY <3>1, <1>z, <1>10, <1>12 DEF PendingIsLocked
  <2>2. CASE l # "g_pendingtasks"
    <3>1. y.list["g_pendingtasks"] = z.list["g_pendingtasks"]
      BY <2>2, <1>3, <1>5, <1>8, <1>9, ListNames
    <3> QED BY <3>1, <1>z, <1>10, <1>12 DEF PendingIsLocked
  <2> QED BY <2>1, <2>2
<1>14. Sound(y) /\ UnreadyStay(y, z)
  BY <1>8, <1>9, <1>11, <1>13, WellFormedIsShaped DEF Sound, UnreadyStay
<1> QED BY <1>10, <1>12, <1>14 DEF y, l

(* A task that is given the priority it has does not pass one that was     *)
(* ahead of it at that priority.                                           *)
StaysBehind(y, z, t) ==
  y.sched_priority[t] = z.sched_priority[t] =>
    \A u \in Tasks \ {t} :
      /\ Ahead(z.list["g_readytorun"], u, t)
      /\ z.sched_priority[u] = z.sched_priority[t]
      => ~Ahead(y.list["g_readytorun"], t, u)

(* What follows from g_readytorun staying as it is.                        *)
LEMMA SameReadyList ==
  ASSUME NEW z, Sound(z), NEW y, y.list["g_readytorun"] = z.list["g_readytorun"],
         NEW t \in Tasks
  PROVE  Running(y) = Running(z) /\ OrderStays(y, z, Tasks) /\ StaysBehind(y, z, t)
<1>1. z.list["g_readytorun"] \in Seq(Tasks) /\ Distinct(z.list["g_readytorun"])
  <2>1. z \in SchedStates /\ Consistent(z)
    BY DEF Sound, WellFormed
  <2> QED BY <2>1, StateTypes, ListNames DEF Consistent
<1>2. StaysBehind(y, z, t)
  BY <1>1, AheadOneWay DEF StaysBehind
<1> QED BY <1>2 DEF Running, OrderStays, KeepsOrder

(* Nobody is ahead of the running task, and a task behind another in       *)
(* g_readytorun has no more priority than the running task.                *)
LEMMA BehindRunning ==
  ASSUME NEW z, Sound(z), NEW t \in Tasks, NEW u \in Tasks,
         Ahead(z.list["g_readytorun"], u, t)
  PROVE  /\ t # Running(z)
         /\ z.sched_priority[t] <= z.sched_priority[Running(z)]
         /\ z.task_state[t] = "READYTORUN"
<1> DEFINE q == z.list["g_readytorun"]
<1>z. z \in SchedStates /\ WellFormed(z) /\ Distinct(q) /\ Sorted(q, z.sched_priority)
      /\ HeadRuns(z) /\ (\A x \in Tasks : Linked(q, x) => tasklist(z.task_state[x]) = "g_readytorun")
  BY ListNames DEF Sound, WellFormed, Consistent, InOrder
<1>1. q \in Seq(Tasks) /\ q[1] = Running(z) /\ DOMAIN q = 1 .. Len(q) /\ Len(q) \in Nat
  BY <1>z, ReadyList
<1>2. Linked(q, t) /\ t # q[1]
  BY <1>z, <1>1, AheadOneWay
<1>3. PICK j \in DOMAIN q : q[j] = t
  BY <1>2 DEF Linked
<1>4. z.sched_priority[t] <= z.sched_priority[Running(z)]
  <2>1. z.sched_priority[t] \in Int /\ z.sched_priority[Running(z)] \in Int
    BY <1>z, ReadyList, StateTypes
  <2>2. 1 \in DOMAIN q /\ 1 < j
    BY <1>1, <1>2, <1>3
  <2>3. z.sched_priority[q[1]] >= z.sched_priority[q[j]]
    BY <2>2, <1>z DEF Sorted
  <2> QED BY <2>1, <2>3, <1>1, <1>3
<1>5. z.task_state[t] = "READYTORUN"
  <2>1. z.task_state[t] \in TaskStates /\ z.task_state[t] # "RUNNING"
    BY <1>z, <1>1, <1>2, StateTypes DEF HeadRuns
  <2> QED BY <2>1, <1>z, <1>2, TaskListTable
<1> QED BY <1>1, <1>2, <1>4, <1>5

(* sched_setpriority of any task but the idle task, to any number.         *)
LEMMA SetPrioritySound ==
  ASSUME NEW z, Sound(z), NEW t \in Tasks \ {Idle}, NEW pri \in Int
  PROVE  LET y == sched_setpriority(z, t, pri)
         IN  /\ Sound(y) /\ SameRest(y, z) /\ UnreadyStay(y, z)
             /\ y.lockcount = z.lockcount /\ y.timeslice = z.timeslice
             /\ Running(z) # t /\ z.lockcount[Running(z)] > 0 => Running(y) = Running(z)
             /\ OrderStays(y, z, Tasks \ {t}) /\ StaysBehind(y, z, t)
<1> DEFINE st == z.task_state[t]
           y == sched_setpriority(z, t, pri)
           l == tasklist(st)
           moved == AddPrioritized(WithPriority([z EXCEPT !.list[l] = dq_rem(@, t)], t, pri), l, t)
           z1 == sched_addreadytorun(WithPriority(sched_removereadytorun(z, t), t, pri), t)
           keeps(x) == /\ Sound(x) /\ SameRest(x, z) /\ UnreadyStay(x, z)
                       /\ x.lockcount = z.lockcount /\ x.timeslice = z.timeslice
           places(x) ==
             /\ Running(z) # t /\ z.lockcount[Running(z)] > 0 => Running(x) = Running(z)
             /\ OrderStays(x, z, Tasks \ {t}) /\ StaysBehind(x, z, t)
<1> SUFFICES keeps(y) /\ places(y)
  OBVIOUS
<1>z. /\ Shaped(z) /\ HeadRuns(z) /\ WellFormed(z) /\ PendingIsLocked(z) /\ z \in SchedStates
      /\ st \in TaskStates
  BY WellFormedIsShaped, StateTypes DEF Sound, Shaped
<1>same. ASSUME NEW x, x.list["g_readytorun"] = z.list["g_readytorun"] PROVE places(x)
  <2>1. Running(x) = Running(z) /\ OrderStays(x, z, Tasks) /\ StaysBehind(x, z, t)
    BY <1>same, SameReadyList
  <2> QED BY <2>1 DEF OrderStays, KeepsOrder
<1>rtr. ASSUME st \in {"READYTORUN", "RUNNING"},
               pri \in SCHED_PRIORITY_MIN .. SCHED_PRIORITY_MAX,
               y = up_reprioritize_rtr(z, t, pri)
        PROVE  /\ keeps(y) /\ y.sched_priority[t] = pri /\ OrderStays(y, z, Tasks \ {t})
               /\ Running(z) # t /\ z.lockcount[Running(z)] > 0 => Running(y) = Running(z)
  <2> DEFINE x == up_reprioritize_rtr(z, t, pri)
  <2>1. /\ Sound(x) /\ SameRest(x, z) /\ UnreadyStay(x, z)
        /\ x.lockcount = z.lockcount /\ x.timeslice = z.timeslice
        /\ Running(z) # t /\ z.lockcount[Running(z)] > 0 => Running(x) = Running(z)
        /\ x.sched_priority[t] = pri /\ OrderStays(x, z, Tasks \ {t})
    BY <1>rtr, ReprioritizeSound
  <2>2. y = x
    BY <1>rtr
  <2> HIDE DEF x, y
  <2> QED BY <2>1, <2>2
<1>1. CASE pri \notin SCHED_PRIORITY_MIN .. SCHED_PRIORITY_MAX
  <2>1. y = z
    BY <1>1 DEF sched_setpriority
  <2>2. keeps(z)
    BY DEF SameRest, UnreadyStay
  <2>3. places(z)
    <3> HIDE DEF places
    <3> QED BY <1>same
  <2> HIDE DEF y, keeps, places
  <2> QED BY <2>1, <2>2, <2>3
<1>2. CASE pri \in SCHED_PRIORITY_MIN .. SCHED_PRIORITY_MAX /\ st = "RUNNING"
  <2>1. Running(z) = t
    BY <1>z, <1>2 DEF HeadRuns
  <2>2. CASE pri <= z.sched_priority[z.list["g_readytorun"][2]]
    <3>1. y = up_reprioritize_rtr(z, t, pri)
      BY <1>2, <2>2, Zenon DEF sched_setpriority
    <3>2. keeps(y) /\ OrderStays(y, z, Tasks \ {t})
      <4> HIDE DEF keeps, y
      <4> QED BY <3>1, <1>2, <1>rtr
    <3>3. StaysBehind(y, z, t)
      <4> HIDE DEF y
      <4> QED BY <2>1, BehindRunning DEF StaysBehind
    <3> HIDE DEF keeps, y
    <3> QED BY <2>1, <3>2, <3>3
  <2>3. CASE ~(pri <= z.sched_priority[z.list["g_readytorun"][2]])
    <3>1. y = WithPriority(z, t, pri)
      BY <1>2, <2>3, Zenon DEF sched_setpriority, WithPriority
    <3>2. keeps(WithPriority(z, t, pri)) /\ WithPriority(z, t, pri).list = z.list
      BY <1>2, <2>1, <2>3, RaiseRunning
    <3> HIDE DEF keeps, places, y
    <3> QED BY <3>1, <3>2, <1>same
  <2> HIDE DEF keeps, places, y
  <2> QED BY <2>2, <2>3
<1>3. CASE pri \in SCHED_PRIORITY_MIN .. SCHED_PRIORITY_MAX /\ st = "READYTORUN"
  <2>0. st # "RUNNING" /\ Running(z) # t
    BY <1>3, <1>z DEF HeadRuns
  <2>p. z.sched_priority[Running(z)] \in Int /\ z.sched_priority[t] \in Int
    BY <1>z, ReadyList, StateTypes
  <2>1. CASE pri > z.sched_priority[Running(z)]
    <3>1. y = up_reprioritize_rtr(z, t, pri)
      BY <1>3, <2>0, <2>1, Zenon DEF sched_setpriority
    <3>2. /\ keeps(y) /\ y.sched_priority[t] = pri /\ OrderStays(y, z, Tasks \ {t})
          /\ Running(z) # t /\ z.lockcount[Running(z)] > 0 => Running(y) = Running(z)
      <4> HIDE DEF keeps, y
      <4> QED BY <3>1, <1>3, <1>rtr
    <3>3. StaysBehind(y, z, t)
      <4> HIDE DEF y
      <4> SUFFICES ASSUME y.sched_priority[t] = z.sched_priority[t], NEW u \in Tasks \ {t},
                          Ahead(z.list["g_readytorun"], u, t)
                   PROVE  FALSE
        BY DEF StaysBehind
      <4>1. z.sched_priority[t] <= z.sched_priority[Running(z)]
        BY BehindRunning
      <4> QED BY <4>1, <3>2, <2>p, <2>1
    <3> HIDE DEF keeps, y
    <3> QED BY <3>2, <3>3
  <2>2. CASE ~(pri > z.sched_priority[Running(z)])
    <3>1. y = PanicUnless(z1, Running(z1) # t, "LOCKED_SWITCH")
      BY <1>3, <2>0, <2>2, Zenon DEF sched_setpriority, WithPriority
    <3>st. z.task_state[t] \in {"READYTORUN", "RUNNING"}
           /\ pri \in SCHED_PRIORITY_MIN .. SCHED_PRIORITY_MAX
      BY <1>3
    <3> HIDE DEF y, keeps, places
    <3>2. /\ WellFormed(z1) /\ SameRest(z1, z) /\ UnreadyStay(z1, z)
          /\ z1.lockcount = z.lockcount /\ z1.timeslice = z.timeslice
          /\ (Running(z) = t) = (Running(z1) = t) => PendingIsLocked(z1)
          /\ Running(z) # t /\ pri <= z.sched_priority[Running(z)] => Running(z1) # t
          /\ Running(z) # t /\ z.lockcount[Running(z)] > 0 => Running(z1) = Running(z)
          /\ z1.sched_priority[t] = pri /\ OrderStays(z1, z, Tasks \ {t})
          /\ \A u \in Tasks \ {t} : Ahead(z1.list["g_readytorun"], t, u) =>
                                       z.sched_priority[u] < pri
      <4> HIDE DEF st
      <4> QED BY <3>st, AddWithPriority
    <3> HIDE DEF z1
    <3>3. pri <= z.sched_priority[Running(z)]
      BY <2>p, <2>2
    <3>4. y = z1
      BY <3>1, <3>2, <3>3, <2>0 DEF PanicUnless
    <3>5. keeps(z1)
      BY <3>2, <3>3, <2>0 DEF keeps, Sound
    <3>6. StaysBehind(z1, z, t)
      <4> SUFFICES ASSUME z1.sched_priority[t] = z.sched_priority[t], NEW u \in Tasks \ {t},
                          z.sched_priority[u] = z.sched_priority[t]
                   PROVE  ~Ahead(z1.list["g_readytorun"], t, u)
        BY DEF StaysBehind
      <4>1. z.sched_priority[u] = pri
        BY <3>2
      <4> QED BY <4>1, <3>2
    <3>7. places(z1)
      BY <3>2, <3>6 DEF places
    <3> QED BY <3>4, <3>5, <3>7
  <2> HIDE DEF keeps, places, y
  <2> QED BY <2>1, <2>2
<1>4. CASE pri \in SCHED_PRIORITY_MIN .. SCHED_PRIORITY_MAX
           /\ st \notin {"RUNNING", "READYTORUN"} /\ prioritized(st)
  <2>0. st # "RUNNING" /\ st # "READYTORUN" /\ st # "INVALID"
    BY <1>4 DEF prioritized
  <2>1. y = moved
    BY <1>4, <2>0, Zenon DEF sched_setpriority, WithPriority
  <2>2. keeps(moved) /\ moved.list["g_readytorun"] = z.list["g_readytorun"]
    BY <1>4, <2>0, RelistWaiting
  <2> HIDE DEF keeps, places, y, moved
  <2> QED BY <2>1, <2>2, <1>same
<1>5. CASE pri \in SCHED_PRIORITY_MIN .. SCHED_PRIORITY_MAX
           /\ st \notin {"RUNNING", "READYTORUN"} /\ ~prioritized(st)
  <2>0. st # "RUNNING" /\ st # "READYTORUN"
    BY <1>5
  <2>1. y = WithPriority(z, t, pri)
    BY <1>5, <2>0, Zenon DEF sched_setpriority, WithPriority
  <2>2. tasklist(st) \notin PrioritizedLists
    BY <1>z, <1>5, TaskListTable, ListNames
  <2> HIDE DEF y
  <2>3. /\ Shaped(y) /\ Running(y) = Running(z) /\ (HeadRuns(z) => HeadRuns(y))
        /\ y.list = z.list /\ y.task_state = z.task_state
        /\ y.lockcount = z.lockcount /\ y.timeslice = z.timeslice
        /\ SameRest(y, z)
    BY <1>z, <1>5, <2>1, <2>2, UnlistedPriority
  <2>4. Sound(y) /\ UnreadyStay(y, z)
    BY <1>z, <2>3, WellFormedIsShaped DEF Sound, PendingIsLocked, UnreadyStay
  <2>5. keeps(y)
    BY <2>3, <2>4
  <2> HIDE DEF keeps, places
  <2> QED BY <2>3, <2>5, <1>same
<1> HIDE DEF keeps, places, y
<1> QED BY <1>1, <1>2, <1>3, <1>4, <1>5

(* The running task has used up its time slice under round robin.          *)
SliceOver(z) ==
  LET t == Running(z)
  IN  z.round_robin[t] /\ z.timeslice[t] <= 1 /\ z.lockcount[t] = 0

(* sched_process_timeslice.                                                *)
LEMMA TimesliceSound ==
  ASSUME NEW z, Sound(z)
  PROVE  LET y == sched_process_timeslice(z)
         IN  /\ Sound(y) /\ SameRest(y, z) /\ UnreadyStay(y, z)
             /\ y.lockcount = z.lockcount
             /\ z.lockcount[Running(z)] > 0 => Running(y) = Running(z)
             /\ \/ y.list = z.list
                \/ SliceOver(z) /\ OrderStays(y, z, Tasks \ {Running(z)})
<1> DEFINE t == Running(z)
           q == z.list["g_readytorun"]
           z1 == [z EXCEPT !.timeslice[t] = TimeSlice]
           z2 == [z EXCEPT !.timeslice[t] = @ - 1]
           y == sched_process_timeslice(z)
<1>z. /\ Shaped(z) /\ HeadRuns(z) /\ WellFormed(z) /\ PendingIsLocked(z) /\ z \in SchedStates
      /\ t \in Tasks /\ z.task_state[t] = "RUNNING" /\ z.lockcount[t] \in Nat
      /\ z.timeslice[t] \in 0 .. TimeSlice
  <2>1. Shaped(z) /\ HeadRuns(z) /\ WellFormed(z) /\ PendingIsLocked(z) /\ z \in SchedStates
    BY WellFormedIsShaped DEF Sound, Shaped
  <2>2. t \in Tasks
    BY <2>1, ReadyList
  <2> QED BY <2>1, <2>2 DEF HeadRuns, SchedStates
<1>1. /\ Sound(z1) /\ SameRest(z1, z) /\ UnreadyStay(z1, z) /\ z1.lockcount = z.lockcount
      /\ Running(z1) = Running(z) /\ z1.task_state = z.task_state
      /\ z1.list = z.list /\ z1.sched_priority = z.sched_priority
  <2>1. z1 = [z EXCEPT !.timeslice[t] = TimeSlice] /\ TimeSlice \in 0 .. TimeSlice
    BY BoundsAssumption
  <2> HIDE DEF z1, t
  <2>2. /\ Shaped(z1) /\ Running(z1) = Running(z) /\ (HeadRuns(z) => HeadRuns(z1))
        /\ z1.list = z.list /\ z1.task_state = z.task_state
        /\ SameTcbs(z1, z) /\ SameRest(z1, z)
    BY <1>z, <2>1, NewSlice
  <2> QED BY <1>z, <2>2, WellFormedIsShaped DEF Sound, PendingIsLocked, UnreadyStay, SameTcbs
<1>2. CASE z.timeslice[t] > 1 /\ y = z2
  <2>1. z2 = [z EXCEPT !.timeslice[t] = z.timeslice[t] - 1]
        /\ z.timeslice[t] - 1 \in 0 .. TimeSlice
    BY <1>z, <1>2, BoundsAssumption
  <2> HIDE DEF z2, t, y
  <2>2. /\ Shaped(z2) /\ Running(z2) = Running(z) /\ (HeadRuns(z) => HeadRuns(z2))
        /\ z2.list = z.list /\ z2.task_state = z.task_state
        /\ SameTcbs(z2, z) /\ SameRest(z2, z)
    BY <1>z, <2>1, NewSlice
  <2>3. Sound(z2) /\ UnreadyStay(z2, z) /\ z2.lockcount = z.lockcount
    BY <1>z, <2>2, WellFormedIsShaped DEF Sound, PendingIsLocked, UnreadyStay, SameTcbs
  <2> QED BY <1>2, <2>2, <2>3 DEF y, t
<1>3. CASE y = z
  BY <1>3 DEF SameRest, UnreadyStay
<1>4. CASE y = z1
  BY <1>1, <1>4
<1>5. CASE /\ SliceOver(z) /\ Len(q) > 1 /\ z.sched_priority[q[2]] >= z.sched_priority[t]
           /\ y = up_reprioritize_rtr(z1, t, z.sched_priority[t])
  <2>1. t # Idle
    <3>1. q[1] = t /\ q[Len(q)] = Idle /\ DOMAIN q = 1 .. Len(q) /\ Len(q) \in Nat
      BY <1>z, ReadyList
    <3>2. Distinct(q)
      BY <1>z, ListNames DEF Shaped, Consistent
    <3> HIDE DEF q, t
    <3> QED BY <3>1, <3>2, <1>5 DEF Distinct
  <2>2. z.sched_priority[t] \in SCHED_PRIORITY_MIN .. SCHED_PRIORITY_MAX
    <3>1. z.sched_priority[t] > 0
      BY <2>1, <1>z DEF Shaped, IdleEnds
    <3>2. z.sched_priority[t] \in 0 .. SCHED_PRIORITY_MAX
      BY <1>z, StateTypes
    <3> QED BY <3>1, <3>2 DEF SCHED_PRIORITY_MIN, SCHED_PRIORITY_MAX
  <2>3. z1.task_state[t] \in {"READYTORUN", "RUNNING"} /\ t \in Tasks \ {Idle}
    BY <2>1, <1>1, <1>z
  <2>4. ~(z.lockcount[t] > 0)
    BY <1>5 DEF SliceOver
  <2> HIDE DEF z1, y, t
  <2>5. /\ Sound(y) /\ SameRest(y, z1) /\ UnreadyStay(y, z1) /\ y.lockcount = z1.lockcount
        /\ OrderStays(y, z1, Tasks \ {t})
    BY <2>2, <2>3, <1>1, <1>5, ReprioritizeSound
  <2>6. SameRest(y, z) /\ UnreadyStay(y, z) /\ OrderStays(y, z, Tasks \ {t})
    BY <2>5, <1>1 DEF SameRest, UnreadyStay, OrderStays
  <2> QED BY <2>4, <2>5, <2>6, <1>1, <1>5 DEF y, t
<1>6. \/ y = z \/ y = z1 \/ (z.timeslice[t] > 1 /\ y = z2)
      \/ /\ z.round_robin[t] /\ ~(z.timeslice[t] > 1)
         /\ ~(z.lockcount[t] > 0) /\ Len(q) > 1 /\ z.sched_priority[q[2]] >= z.sched_priority[t]
         /\ y = up_reprioritize_rtr(z1, t, z.sched_priority[t])
  <2>1. y = IF ~z.round_robin[t] THEN z
            ELSE IF z.timeslice[t] > 1 THEN z2
            ELSE IF z.lockcount[t] > 0 THEN z
            ELSE IF Len(q) > 1 /\ z.sched_priority[q[2]] >= z.sched_priority[t]
                 THEN up_reprioritize_rtr(z1, t, z.sched_priority[t])
                 ELSE z1
    BY Zenon DEF sched_process_timeslice
  <2> HIDE DEF y, z1, z2, q, t
  <2> QED BY <2>1, Zenon
<1>7. z.round_robin[t] /\ ~(z.timeslice[t] > 1) /\ ~(z.lockcount[t] > 0) => SliceOver(z)
  BY <1>z DEF SliceOver
<1> QED BY <1>2, <1>3, <1>4, <1>5, <1>6, <1>7
=============================================================================
