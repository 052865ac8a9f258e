-------------------------- MODULE SchedulerProofs ---------------------------
(***************************************************************************)
(* The scheduler keeps its promises for any number of tasks, any workload  *)
(* and any priorities.  The invariants the runs check are not inductive    *)
(* one by one: IInv joins them with what the calls in progress, those of   *)
(* task_create above all, know about the TCBs they work on.  The second    *)
(* half adds task_delete and task_restart (TaskControl).                   *)
(***************************************************************************)
EXTENDS TaskControl, SchedOpsProofs

(* A state that only differs in what an INVALID task's TCB holds.          *)
LEMMA FreshTcb ==
  ASSUME NEW z, Shaped(z), NEW x \in Tasks \ {Idle}, z.task_state[x] = "INVALID",
         NEW y \in SchedStates, y.list = z.list, y.task_state = z.task_state,
         \A u \in Tasks \ {x} : y.sched_priority[u] = z.sched_priority[u]
  PROVE  Shaped(y) /\ Running(y) = Running(z) /\ (HeadRuns(z) => HeadRuns(y))
<1>z. z \in SchedStates /\ Consistent(z) /\ InOrder(z) /\ IdleEnds(z)
  BY DEF Shaped
<1>1. Consistent(y)
  BY <1>z DEF Consistent
<1>2. InOrder(y)
  <2> SUFFICES ASSUME NEW l \in PrioritizedLists PROVE Sorted(y.list[l], y.sched_priority)
    BY DEF InOrder
  <2>1. z.list[l] \in Seq(Tasks) /\ Sorted(z.list[l], z.sched_priority) /\ ~Linked(z.list[l], x)
    <3>1. l \in Lists /\ tasklist(z.task_state[x]) # l
      BY ListNames, TaskListTable
    <3> QED BY <3>1, <1>z, StateTypes DEF Consistent, InOrder
  <2> DEFINE q == z.list[l]
             p == z.sched_priority
             np == y.sched_priority
  <2>2. \A n \in DOMAIN q : np[q[n]] = p[q[n]]
    <3> TAKE n \in DOMAIN q
    <3>1. q[n] \in Tasks /\ q[n] # x
      BY <2>1, ElementOfSeq, LenProperties DEF Linked
    <3> QED BY <3>1
  <2>3. Sorted(q, p)
    BY <2>1
  <2> HIDE DEF q, p, np
  <2>4. Sorted(q, np)
    BY <2>2, <2>3 DEF Sorted
  <2> QED BY <2>4 DEF q, np
<1>3. IdleEnds(y)
  BY <1>z, IdleAssumption DEF IdleEnds
<1> QED BY <1>1, <1>2, <1>3 DEF Shaped, Running, HeadRuns

(* Marking tasks RUNNING or READYTORUN within g_readytorun.                *)
LEMMA RemarkShaped ==
  ASSUME NEW z, Shaped(z), NEW r \in Tasks, z.task_state[r] \in {"READYTORUN", "RUNNING"},
         NEW st \in {"READYTORUN", "RUNNING"}, NEW y, y = [z EXCEPT !.task_state[r] = st]
  PROVE  /\ Shaped(y) /\ Running(y) = Running(z)
         /\ y.list = z.list
         /\ SameTcbs(y, z) /\ SameRest(y, z) /\ y.timeslice = z.timeslice
         /\ y.task_state[r] = st
         /\ \A x \in Tasks \ {r} : y.task_state[x] = z.task_state[x]
<1>z. z \in SchedStates /\ Consistent(z) /\ InOrder(z) /\ IdleEnds(z)
  BY DEF Shaped
<1>1. /\ y.list = z.list /\ y.task_state = [z.task_state EXCEPT ![r] = st]
      /\ y.sched_priority = z.sched_priority /\ y.init_priority = z.init_priority
      /\ y.lockcount = z.lockcount /\ y.timeslice = z.timeslice
      /\ y.round_robin = z.round_robin /\ y.g_pidhash = z.g_pidhash /\ y.panic = z.panic
  BY <1>z DEF SchedStates
<1>2. y \in SchedStates
  <2>1. st \in TaskStates
    BY DEF TaskStates
  <2> QED BY <1>z, <2>1 DEF SchedStates
<1>3. z.task_state \in [Tasks -> TaskStates]
  BY <1>z DEF SchedStates
<1>4. /\ y.task_state[r] = st
      /\ \A x \in Tasks \ {r} : y.task_state[x] = z.task_state[x]
  BY <1>1, <1>3
<1>5. \A x \in Tasks : tasklist(y.task_state[x]) = tasklist(z.task_state[x])
  BY <1>4, TaskListTable
<1>6. Consistent(y)
  BY <1>z, <1>1, <1>5 DEF Consistent
<1>7. InOrder(y) /\ IdleEnds(y) /\ Running(y) = Running(z)
  BY <1>z, <1>1, <1>4 DEF InOrder, IdleEnds, Running
<1> QED BY <1>1, <1>2, <1>4, <1>6, <1>7 DEF Shaped, SameTcbs, SameRest

(* task_delete, called on the exiting task d while its successor stands in *)
(* as the caller with pre-emption locked: only the lock count, g_pidhash   *)
(* and d's own state change.                                               *)
LEMMA DeleteOtherShaped ==
  ASSUME NEW z, Shaped(z), NEW d \in Tasks, z.task_state[d] = "INACTIVE", Running(z) # d,
         z.lockcount[Running(z)] > 0
  PROVE  LET y == DeleteOther(z, d)
         IN  /\ Shaped(y) /\ Running(y) = Running(z)
             /\ y.list["g_readytorun"] = z.list["g_readytorun"]
             /\ y.sched_priority = z.sched_priority /\ y.init_priority = z.init_priority
             /\ y.panic \subseteq z.panic \cup {"MAX_LOCK_COUNT"}
             /\ y.g_pidhash = z.g_pidhash \ {d}
             /\ y.task_state[d] = "INVALID"
             /\ \A x \in Tasks \ {d} : y.task_state[x] = z.task_state[x]
             /\ y.list["g_pendingtasks"] = z.list["g_pendingtasks"]
             /\ \A x \in Tasks : y.lockcount[x] = z.lockcount[x]
             /\ z.lockcount[Running(z)] < MAX_LOCK_COUNT => y.panic = z.panic
<1> DEFINE r == Running(z)
           z1 == sched_lock(z)
           z2 == RemoveFromList(z1, d)
           z3 == sched_unlock(z2)
           n == z2.lockcount[r] - 1
           y == DeleteOther(z, d)
<1>0. y = sched_releasetcb(z3, d)
  BY DEF DeleteOther
<1>1. /\ Shaped(z1) /\ Running(z1) = Running(z)
      /\ z1.list = z.list /\ z1.task_state = z.task_state
      /\ z1.sched_priority = z.sched_priority /\ z1.init_priority = z.init_priority
      /\ z1.g_pidhash = z.g_pidhash
      /\ z1.panic \subseteq z.panic \cup {"MAX_LOCK_COUNT"}
      /\ z1.lockcount[Running(z)] = z.lockcount[Running(z)] + 1
      /\ \A x \in Tasks \ {Running(z)} : z1.lockcount[x] = z.lockcount[x]
      /\ z.lockcount[Running(z)] < MAX_LOCK_COUNT => z1.panic = z.panic
  BY LockShaped
<1> HIDE DEF z1, y
<1>2. /\ Shaped(z2) /\ SameTcbs(z2, z1) /\ z2.panic = z1.panic
      /\ z2.list["g_readytorun"] = z1.list["g_readytorun"]
      /\ z2.list["g_pendingtasks"] = z1.list["g_pendingtasks"]
      /\ z2.task_state = [z1.task_state EXCEPT ![d] = "INVALID"]
  <2>1. z1.task_state[d] \in {"PENDING"} \cup BlockedStates /\ z1.task_state[d] # "PENDING"
    BY <1>1 DEF BlockedStates
  <2> QED BY <1>1, <2>1, RemoveUnready
<1> HIDE DEF z2
<1>3. Running(z2) = r /\ r \in Tasks
  <2>1. r \in Tasks
    BY ShapedReadyList
  <2> QED BY <2>1, <1>1, <1>2 DEF Running
<1>4. z.lockcount[r] \in Nat /\ z2.lockcount[r] = z.lockcount[r] + 1
  BY <1>1, <1>2, <1>3, StateTypes DEF SameTcbs, Shaped
<1>5. n \in Nat /\ z2.lockcount[r] > 0 /\ n # 0
  BY <1>4
<1>6. z3 = WithLock(z2, r, n)
  <2>1. WithLock(z2, r, n).lockcount[r] = n
    BY <1>2, <1>3 DEF WithLock, Shaped, SchedStates
  <2>2. [z2 EXCEPT !.lockcount[r] = IF @ > 0 THEN @ - 1 ELSE 0] = WithLock(z2, r, n)
    BY <1>5 DEF WithLock
  <2> HIDE DEF r, n
  <2> QED BY <2>1, <2>2, <1>3, <1>5, Zenon DEF sched_unlock
<1> HIDE DEF n, z3, r
<1>7. /\ Shaped(z3) /\ Running(z3) = Running(z2)
      /\ z3.list = z2.list /\ z3.task_state = z2.task_state
      /\ z3.sched_priority = z2.sched_priority
      /\ z3.lockcount[r] = n /\ \A x \in Tasks \ {r} : z3.lockcount[x] = z2.lockcount[x]
      /\ SameRest(z3, z2)
  <2>1. Shaped(z2) /\ r \in Tasks /\ n \in Nat
    BY <1>2, <1>3, <1>5
  <2> DEFINE y3 == WithLock(z2, r, n)
  <2>2. /\ Shaped(y3) /\ Running(y3) = Running(z2) /\ (HeadRuns(z2) => HeadRuns(y3))
        /\ y3.list = z2.list /\ y3.task_state = z2.task_state
        /\ y3.sched_priority = z2.sched_priority /\ y3.timeslice = z2.timeslice
        /\ y3.lockcount[r] = n /\ \A x \in Tasks \ {r} : y3.lockcount[x] = z2.lockcount[x]
        /\ SameRest(y3, z2)
    BY <2>1, NewLock, ZenonT(30)
  <2>3. z3 = y3
    BY <1>6
  <2> HIDE DEF y3
  <2> QED BY <2>2, <2>3
<1>8. /\ y.list = z3.list /\ y.task_state = z3.task_state
      /\ y.sched_priority = z3.sched_priority /\ y.init_priority = z3.init_priority
      /\ y.panic = z3.panic /\ y.g_pidhash = z3.g_pidhash \ {d} /\ y.lockcount = z3.lockcount
      /\ y \in SchedStates
  BY <1>0, <1>7 DEF sched_releasetcb, Shaped, SchedStates
<1>9. Shaped(y) /\ Running(y) = Running(z3)
  BY <1>7, <1>8, SameListsWellFormed
<1>10. z.task_state \in [Tasks -> TaskStates]
  BY DEF Shaped, SchedStates
<1>11. y.task_state[d] = "INVALID" /\ \A x \in Tasks \ {d} : y.task_state[x] = z.task_state[x]
  BY <1>1, <1>2, <1>7, <1>8, <1>10
<1>12. /\ Running(y) = Running(z) /\ y.list["g_readytorun"] = z.list["g_readytorun"]
  BY <1>1, <1>2, <1>3, <1>7, <1>8, <1>9 DEF r
<1>13. \A x \in Tasks : y.lockcount[x] = z.lockcount[x]
  BY <1>1, <1>2, <1>4, <1>7, <1>8 DEF SameTcbs, n, r
<1> QED BY <1>1, <1>2, <1>7, <1>8, <1>9, <1>11, <1>12, <1>13 DEF y, SameTcbs, SameRest

(* exit.                                                                   *)
LEMMA DeleteCurrentSound ==
  ASSUME NEW z, Sound(z), Running(z) # Idle
  PROVE  LET y == task_deletecurrent(z)
             d == Running(z)
         IN  /\ Sound(y) /\ y.init_priority = z.init_priority
             /\ y.panic \subseteq z.panic \cup {"MAX_LOCK_COUNT"}
             /\ y.g_pidhash = z.g_pidhash \ {d}
             /\ y.task_state[d] = "INVALID" /\ OthersStay(y, z, d)
             /\ OrderStays(y, z, Tasks \ {d})
             /\ z.list["g_pendingtasks"] = <<>> => \A x \in Tasks : y.lockcount[x] = z.lockcount[x]
             /\ (\A x \in Tasks : z.lockcount[x] + 1 < MAX_LOCK_COUNT) => y.panic = z.panic
<1> DEFINE d == Running(z)
           z1 == sched_removereadytorun(z, d)
           r == Running(z1)
           zl == sched_lock(z1)
           z2 == [zl EXCEPT !.task_state[r] = "READYTORUN"]
           zb == sched_addblocked(z2, d, "INACTIVE")
           z3 == DeleteOther(zb, d)
           z4 == [z3 EXCEPT !.task_state[r] = "RUNNING"]
           z5 == MergeIfPending(z4)
           y == task_deletecurrent(z)
<1>0. y = sched_unlock(z5)
  BY DEF task_deletecurrent
<1>z. WellFormed(z) /\ d \in Tasks \ {Idle} /\ z.task_state[d] = "RUNNING" /\ z.sched_priority[d] > 0
  <2>1. WellFormed(z) /\ d \in Tasks \ {Idle}
    BY ReadyList DEF Sound
  <2>2. z.task_state[d] = "RUNNING"
    BY <2>1 DEF WellFormed, HeadRuns
  <2> QED BY <2>1, <2>2 DEF WellFormed, IdleEnds
<1>1. /\ WellFormed(z1)
      /\ SameTcbs(z1, z) /\ z1.panic = z.panic
      /\ z1.task_state[d] = "INVALID" /\ OthersStay(z1, z, d)
      /\ OrderStays(z1, z, Tasks \ {d})
      /\ z1.list["g_pendingtasks"] = z.list["g_pendingtasks"]
  BY <1>z, RemoveReady DEF OrderStays
<1> HIDE DEF z1, y
<1>2. /\ Shaped(z1) /\ HeadRuns(z1) /\ r \in Tasks /\ r # d /\ z1.task_state[r] = "RUNNING"
      /\ z1.lockcount[r] \in Nat
  <2>1. Shaped(z1) /\ HeadRuns(z1) /\ r \in Tasks
    BY <1>1, WellFormedIsShaped, ReadyList
  <2>2. z1.lockcount[r] \in Nat
    BY <2>1, StateTypes DEF Shaped
  <2> QED BY <2>1, <2>2, <1>1 DEF HeadRuns
<1>3. /\ Shaped(zl) /\ Running(zl) = Running(z1)
      /\ zl.list = z1.list /\ zl.task_state = z1.task_state
      /\ zl.sched_priority = z1.sched_priority /\ zl.init_priority = z1.init_priority
      /\ zl.g_pidhash = z1.g_pidhash
      /\ zl.panic \subseteq z1.panic \cup {"MAX_LOCK_COUNT"}
      /\ zl.lockcount[Running(z1)] = z1.lockcount[Running(z1)] + 1
      /\ \A x \in Tasks \ {Running(z1)} : zl.lockcount[x] = z1.lockcount[x]
      /\ z1.lockcount[Running(z1)] < MAX_LOCK_COUNT => zl.panic = z1.panic
  BY <1>2, LockShaped
<1> HIDE DEF zl
<1>4. z2 = [zl EXCEPT !.task_state[r] = "READYTORUN"] /\ z4 = [z3 EXCEPT !.task_state[r] = "RUNNING"]
  OBVIOUS
<1> HIDE DEF z2, z4
<1>5. /\ Shaped(z2) /\ Running(z2) = Running(zl)
      /\ z2.list = zl.list
      /\ SameTcbs(z2, zl) /\ SameRest(z2, zl)
      /\ z2.task_state[r] = "READYTORUN"
      /\ \A x \in Tasks \ {r} : z2.task_state[x] = zl.task_state[x]
  <2>1. zl.task_state[r] \in {"READYTORUN", "RUNNING"}
    BY <1>2, <1>3
  <2> HIDE DEF r
  <2> QED BY <2>1, <1>2, <1>3, <1>4, RemarkShaped
<1>6. /\ z2.task_state[d] = "INVALID" /\ z2.sched_priority[d] > 0 /\ Running(z2) = r
      /\ z2.lockcount[r] > 0
  BY <1>z, <1>1, <1>2, <1>3, <1>5 DEF SameTcbs
<1>7. /\ Shaped(zb) /\ SameTcbs(zb, z2) /\ zb.panic = z2.panic
      /\ zb.list["g_readytorun"] = z2.list["g_readytorun"]
      /\ zb.list["g_pendingtasks"] = z2.list["g_pendingtasks"]
      /\ zb.task_state = [z2.task_state EXCEPT ![d] = "INACTIVE"]
  <2>1. "INACTIVE" \in BlockedStates
    BY DEF BlockedStates
  <2> HIDE DEF d
  <2> QED BY <2>1, <1>z, <1>5, <1>6, AddBlocked
<1> HIDE DEF zb
<1>8. /\ zb.task_state[d] = "INACTIVE"
      /\ \A x \in Tasks \ {d} : zb.task_state[x] = z2.task_state[x]
      /\ Running(zb) = r /\ zb.lockcount[Running(zb)] > 0
  <2>1. z2.task_state \in [Tasks -> TaskStates]
    BY <1>5 DEF Shaped, SchedStates
  <2>2. Running(zb) = Running(z2)
    BY <1>7 DEF Running
  <2>3. zb.lockcount = z2.lockcount
    BY <1>7 DEF SameTcbs
  <2> QED BY <2>1, <2>2, <2>3, <1>z, <1>6, <1>7
<1>9. /\ Shaped(z3) /\ Running(z3) = Running(zb)
      /\ z3.list["g_readytorun"] = zb.list["g_readytorun"]
      /\ z3.sched_priority = zb.sched_priority /\ z3.init_priority = zb.init_priority
      /\ z3.panic \subseteq zb.panic \cup {"MAX_LOCK_COUNT"}
      /\ z3.g_pidhash = zb.g_pidhash \ {d}
      /\ z3.task_state[d] = "INVALID"
      /\ \A x \in Tasks \ {d} : z3.task_state[x] = zb.task_state[x]
      /\ z3.list["g_pendingtasks"] = zb.list["g_pendingtasks"]
      /\ \A x \in Tasks : z3.lockcount[x] = zb.lockcount[x]
      /\ zb.lockcount[Running(zb)] < MAX_LOCK_COUNT => z3.panic = zb.panic
  <2>1. Running(zb) # d
    BY <1>2, <1>8
  <2> HIDE DEF d
  <2> QED BY <2>1, <1>z, <1>7, <1>8, DeleteOtherShaped
<1> HIDE DEF z3
<1>10. /\ Shaped(z4) /\ Running(z4) = Running(z3) /\ z4.list = z3.list
       /\ SameTcbs(z4, z3) /\ SameRest(z4, z3)
       /\ z4.task_state[r] = "RUNNING"
       /\ \A x \in Tasks \ {r} : z4.task_state[x] = z3.task_state[x]
  <2>1. z3.task_state[r] \in {"READYTORUN", "RUNNING"}
    BY <1>2, <1>5, <1>8, <1>9
  <2> HIDE DEF r
  <2> QED BY <2>1, <1>2, <1>4, <1>9, RemarkShaped
<1>11. \A x \in Tasks : z4.task_state[x] = z1.task_state[x]
  <2> TAKE x \in Tasks
  <2>1. CASE x = r
    BY <2>1, <1>2, <1>10
  <2>2. CASE x = d
    BY <2>2, <1>1, <1>2, <1>9, <1>10
  <2>3. CASE x # r /\ x # d
    BY <2>3, <1>3, <1>5, <1>8, <1>9, <1>10
  <2> QED BY <2>1, <2>2, <2>3
<1>12. Running(z4) = r
  BY <1>8, <1>9, <1>10
<1>13. WellFormed(z4)
  <2>1. HeadRuns(z4)
    BY <1>2, <1>11, <1>12 DEF HeadRuns
  <2> QED BY <2>1, <1>10, WellFormedIsShaped
<1>14. /\ WellFormed(z5)
       /\ SameTcbs(z5, z4) /\ z5.panic = z4.panic
       /\ z5.list["g_pendingtasks"] = <<>>
       /\ UnreadyStay(z5, z4)
       /\ OrderStays(z5, z4, Tasks)
       /\ z4.list["g_pendingtasks"] = <<>> => z5 = z4
  BY <1>13, MergedIfPending DEF OrderStays, MergeIfPending
<1> HIDE DEF z5
<1>15. Sound(z5)
  BY <1>14 DEF Sound, PendingIsLocked
<1>16. /\ Sound(y) /\ SameRest(y, z5) /\ UnreadyStay(y, z5) /\ OrderStays(y, z5, Tasks)
       /\ y.lockcount[Running(z5)] =
            IF z5.lockcount[Running(z5)] > 0 THEN z5.lockcount[Running(z5)] - 1 ELSE 0
       /\ \A x \in Tasks \ {Running(z5)} : y.lockcount[x] = z5.lockcount[x]
  BY <1>0, <1>15, UnlockSound
<1>17. /\ y.init_priority = z.init_priority
       /\ y.panic \subseteq z.panic \cup {"MAX_LOCK_COUNT"}
       /\ y.g_pidhash = z.g_pidhash \ {d}
  <2> HIDE DEF d, r
  <2> QED BY <1>1, <1>3, <1>5, <1>7, <1>9, <1>10, <1>14, <1>16 DEF SameTcbs, SameRest
<1>18. y.task_state[d] = "INVALID"
  BY <1>z, <1>1, <1>11, <1>14, <1>16, UnreadyStates DEF UnreadyStay
<1>19. OthersStay(y, z, d)
  BY <1>1, <1>11, <1>14, <1>16 DEF UnreadyStay, OthersStay
<1>20. OrderStays(y, z, Tasks \ {d})
  <2>1. z4.list["g_readytorun"] = z1.list["g_readytorun"]
    BY <1>3, <1>5, <1>7, <1>9, <1>10
  <2> HIDE DEF d
  <2> QED BY <2>1, <1>1, <1>14, <1>16 DEF OrderStays, KeepsOrder
<1>21. /\ z4.lockcount[r] = z.lockcount[r] + 1 /\ z.lockcount[r] \in Nat
       /\ \A x \in Tasks \ {r} : z4.lockcount[x] = z.lockcount[x]
       /\ z4.list["g_pendingtasks"] = z.list["g_pendingtasks"]
       /\ zb.lockcount[Running(zb)] = z.lockcount[r] + 1
  <2> HIDE DEF d, r
  <2>1. r = Running(z1)
    BY DEF r
  <2> QED BY <2>1, <1>1, <1>2, <1>3, <1>5, <1>7, <1>8, <1>9, <1>10 DEF SameTcbs
<1> HIDE DEF d, r
<1>22. z.list["g_pendingtasks"] = <<>> => \A x \in Tasks : y.lockcount[x] = z.lockcount[x]
  <2> SUFFICES ASSUME z.list["g_pendingtasks"] = <<>>
               PROVE  \A x \in Tasks : y.lockcount[x] = z.lockcount[x]
    OBVIOUS
  <2>1. z5 = z4 /\ Running(z5) = r
    BY <1>12, <1>14, <1>21
  <2>2. z5.lockcount[r] = z.lockcount[r] + 1 /\ z5.lockcount[r] > 0
    BY <2>1, <1>21
  <2>3. y.lockcount[r] = z.lockcount[r]
    BY <2>1, <2>2, <1>16, <1>21
  <2>4. \A x \in Tasks \ {r} : y.lockcount[x] = z.lockcount[x]
    BY <2>1, <1>16, <1>21
  <2> QED BY <2>3, <2>4
<1>23. (\A x \in Tasks : z.lockcount[x] + 1 < MAX_LOCK_COUNT) => y.panic = z.panic
  <2>1. SUFFICES ASSUME \A x \in Tasks : z.lockcount[x] + 1 < MAX_LOCK_COUNT
                 PROVE  y.panic = z.panic
    OBVIOUS
  <2>2. z1.lockcount[r] < MAX_LOCK_COUNT /\ zb.lockcount[Running(zb)] < MAX_LOCK_COUNT
    BY <2>1, <1>1, <1>2, <1>21, BoundsAssumption DEF SameTcbs
  <2>3. zl.panic = z1.panic /\ z3.panic = zb.panic
    BY <2>2, <1>3, <1>9 DEF r
  <2> QED BY <2>3, <1>1, <1>5, <1>7, <1>10, <1>14, <1>16 DEF SameRest
<1> QED BY <1>16, <1>17, <1>18, <1>19, <1>20, <1>22, <1>23 DEF y, d

-----------------------------------------------------------------------------
(* The scheduler's half of the inductive invariant: the lists are sound,   *)
(* the only PANIC that can be met is the overflow of a lock count, and a   *)
(* task without a pid is in no list.                                       *)
SchedInv(z) ==
  /\ Sound(z)
  /\ z.panic \subseteq {"MAX_LOCK_COUNT"}
  /\ Idle \in z.g_pidhash
  /\ \A x \in Tasks : x \notin z.g_pidhash => z.task_state[x] = "INVALID"

(* The calls: the idle task only creates tasks, and no call is about it.   *)
CallInv(p) ==
  /\ p \in [Tasks -> Calls]
  /\ p[Idle].at \in {"user"} \cup CreateLabels
  /\ \A t \in Tasks : p[t].at # "user" => p[t].tcb # Idle

(* The TCB that task_create works on has a pid and nobody else works on    *)
(* it; it is in no list before task_schedsetup and inactive after it.      *)
CreateInv(p, z) ==
  \A t \in Tasks : p[t].at \in CreateLabels =>
    /\ p[t].tcb \in z.g_pidhash
    /\ p[t].at \in {"assignpid_unlock", "schedsetup_lock"} =>
         /\ z.task_state[p[t].tcb] = "INVALID"
         /\ p[t].pri \in SCHED_PRIORITY_MIN .. SCHED_PRIORITY_MAX
    /\ p[t].at \in {"schedsetup_unlock", "activate"} => z.task_state[p[t].tcb] = "INACTIVE"
    /\ \A u \in Tasks \ {t} : p[u].at \in CreateLabels => p[u].tcb # p[t].tcb

(* The inductive invariant.                                                *)
IInv == SchedInv(s) /\ CallInv(pc) /\ CreateInv(pc, s)

(* The types of the locals of a call in progress. *)
LEMMA CallTypes ==
  ASSUME NEW p \in [Tasks -> Calls], NEW t \in Tasks
  PROVE  p[t].at \in Labels /\ p[t].tcb \in Tasks /\ p[t].pri \in Int /\ p[t].rr \in BOOLEAN
BY DEF Calls

(* The initial state.                                                      *)
LEMMA InitIInv == Init => IInv
<1> SUFFICES ASSUME Init PROVE IInv
  OBVIOUS
<1> USE IdleAssumption
<1>1. /\ s.list = [l \in Lists |-> IF l = "g_readytorun" THEN <<Idle>> ELSE <<>>]
      /\ s.task_state = [t \in Tasks |-> IF t = Idle THEN "RUNNING" ELSE "INVALID"]
      /\ s.sched_priority = [t \in Tasks |-> 0]
      /\ s.g_pidhash = {Idle} /\ s.panic = {}
  BY DEF Init, InitSched
<1>2. s \in SchedStates
  <2>1. <<Idle>> \in Seq(Tasks) /\ <<>> \in Seq(Tasks)
    OBVIOUS
  <2>2. "RUNNING" \in TaskStates /\ "INVALID" \in TaskStates
    BY DEF TaskStates
  <2>3. 0 \in 0 .. SCHED_PRIORITY_MAX /\ 0 \in 0 .. TimeSlice
    BY BoundsAssumption DEF SCHED_PRIORITY_MAX
  <2> QED BY <2>1, <2>2, <2>3 DEF Init, InitSched, SchedStates
<1>3. /\ s.list["g_readytorun"] = <<Idle>>
      /\ \A l \in Lists \ {"g_readytorun"} : s.list[l] = <<>>
      /\ s.task_state[Idle] = "RUNNING"
      /\ \A t \in Tasks \ {Idle} : s.task_state[t] = "INVALID"
  BY <1>1, ListNames
<1>4. Running(s) = Idle
  BY <1>3 DEF Running
<1>5. Consistent(s)
  <2> SUFFICES ASSUME NEW l \in Lists
               PROVE  /\ Distinct(s.list[l])
                      /\ \A t \in Tasks : Linked(s.list[l], t) <=> tasklist(s.task_state[t]) = l
    BY DEF Consistent
  <2>1. /\ Distinct(<<Idle>>) /\ Distinct(<<>>)
        /\ \A t \in Tasks : (Linked(<<Idle>>, t) <=> t = Idle) /\ ~Linked(<<>>, t)
    BY DEF Distinct, Linked
  <2>2. \A t \in Tasks : tasklist(s.task_state[t]) = l <=> (t = Idle /\ l = "g_readytorun")
    BY <1>3, TaskListTable
  <2>3. CASE l = "g_readytorun"
    BY <2>1, <2>2, <2>3, <1>3
  <2>4. CASE l # "g_readytorun"
    BY <2>1, <2>2, <2>4, <1>3
  <2> QED BY <2>3, <2>4
<1>6. InOrder(s)
  <2>1. Sorted(<<>>, s.sched_priority) /\ Sorted(<<Idle>>, s.sched_priority)
    BY DEF Sorted
  <2> QED BY <2>1, <1>3, ListNames DEF InOrder
<1>7. IdleEnds(s)
  <2>1. <<Idle>> # <<>> /\ Last(<<Idle>>) = Idle
    BY DEF Last
  <2>2. s.sched_priority[Idle] = 0
    BY <1>1
  <2> QED BY <2>1, <2>2, <1>3 DEF IdleEnds
<1>8. HeadRuns(s) /\ PendingIsLocked(s)
  BY <1>3, <1>4, ListNames DEF HeadRuns, PendingIsLocked
<1>9. SchedInv(s)
  BY <1>1, <1>2, <1>3, <1>5, <1>6, <1>7, <1>8 DEF SchedInv, Sound, WellFormed
<1>10. User \in Calls /\ User.at = "user"
  BY DEF User, Calls, Labels
<1>11. CallInv(pc) /\ CreateInv(pc, s)
  BY <1>10 DEF Init, CallInv, CreateInv, CreateLabels
<1> QED BY <1>9, <1>11 DEF IInv

(* The calls of task_create in progress, after a step that advances none   *)
(* of them except from one label to the next that means the same.          *)
SameStage(a, b) ==
  \/ a = b
  \/ a = "assignpid_unlock" /\ b = "schedsetup_lock"
  \/ a = "schedsetup_unlock" /\ b = "activate"

(* A step that leaves a task_create's TCB and locals as they were keeps what
   the later steps of that task_create rely on. *)
LEMMA CreateKept ==
  ASSUME NEW p, NEW z, CreateInv(p, z), NEW np, NEW y,
         \A t \in Tasks : np[t].at \in CreateLabels =>
           /\ p[t].at \in CreateLabels /\ SameStage(p[t].at, np[t].at)
           /\ np[t].tcb = p[t].tcb /\ np[t].pri = p[t].pri
           /\ p[t].tcb \in y.g_pidhash
           /\ y.task_state[p[t].tcb] = z.task_state[p[t].tcb]
  PROVE  CreateInv(np, y)
<1> SUFFICES ASSUME NEW t \in Tasks, np[t].at \in CreateLabels
             PROVE  /\ np[t].tcb \in y.g_pidhash
                    /\ np[t].at \in {"assignpid_unlock", "schedsetup_lock"} =>
                         /\ y.task_state[np[t].tcb] = "INVALID"
                         /\ np[t].pri \in SCHED_PRIORITY_MIN .. SCHED_PRIORITY_MAX
                    /\ np[t].at \in {"schedsetup_unlock", "activate"} =>
                         y.task_state[np[t].tcb] = "INACTIVE"
                    /\ \A u \in Tasks \ {t} : np[u].at \in CreateLabels => np[u].tcb # np[t].tcb
  BY DEF CreateInv
<1>1. /\ p[t].at \in CreateLabels /\ SameStage(p[t].at, np[t].at)
      /\ np[t].tcb = p[t].tcb /\ np[t].pri = p[t].pri
      /\ p[t].tcb \in y.g_pidhash
      /\ y.task_state[p[t].tcb] = z.task_state[p[t].tcb]
  OBVIOUS
<1>2. /\ p[t].at \in {"assignpid_unlock", "schedsetup_lock"} =>
           /\ z.task_state[p[t].tcb] = "INVALID"
           /\ p[t].pri \in SCHED_PRIORITY_MIN .. SCHED_PRIORITY_MAX
      /\ p[t].at \in {"schedsetup_unlock", "activate"} => z.task_state[p[t].tcb] = "INACTIVE"
      /\ \A u \in Tasks \ {t} : p[u].at \in CreateLabels => p[u].tcb # p[t].tcb
  BY <1>1 DEF CreateInv
<1>3. np[t].at \in {"assignpid_unlock", "schedsetup_lock"} =>
        p[t].at \in {"assignpid_unlock", "schedsetup_lock"}
  BY <1>1 DEF SameStage
<1>4. np[t].at \in {"schedsetup_unlock", "activate"} => p[t].at \in {"schedsetup_unlock", "activate"}
  BY <1>1 DEF SameStage
<1>5. \A u \in Tasks \ {t} : np[u].at \in CreateLabels => np[u].tcb # np[t].tcb
  BY <1>1, <1>2
<1> QED BY <1>1, <1>2, <1>3, <1>4, <1>5

(* Only the call of task t changes.                                        *)
LEMMA CallMove ==
  ASSUME NEW p, CallInv(p), NEW t \in Tasks, NEW np \in [Tasks -> Calls],
         np[t].at # "user" => np[t].tcb # Idle,
         t = Idle => np[t].at \in {"user"} \cup CreateLabels,
         \A u \in Tasks \ {t} : np[u] = p[u]
  PROVE  CallInv(np)
BY IdleAssumption DEF CallInv

(* A task's call in progress moved to label l, and a new call or a return. *)
WithLabel(p, t, l) == [p EXCEPT ![t].at = l]
WithCall(p, t, c) == [p EXCEPT ![t] = c]

(* A call in progress goes on about the same TCB.                          *)
LEMMA CallGoto ==
  ASSUME NEW p, CallInv(p), NEW t \in Tasks, NEW l \in Labels,
         p[t].at # "user", t = Idle => l \in {"user"} \cup CreateLabels
  PROVE  LET np == WithLabel(p, t, l)
         IN  /\ CallInv(np) /\ np[t].at = l /\ np[t].tcb = p[t].tcb /\ np[t].pri = p[t].pri
             /\ \A u \in Tasks \ {t} : np[u] = p[u]
<1> DEFINE c == [p[t] EXCEPT !.at = l]
           np == WithLabel(p, t, l)
<1>1. p[t] \in Calls /\ p \in [Tasks -> Calls]
  BY DEF CallInv
<1>2. c \in Calls /\ c.at = l /\ c.tcb = p[t].tcb /\ c.pri = p[t].pri
  BY <1>1 DEF Calls
<1>3. /\ np \in [Tasks -> Calls] /\ np[t] = c
      /\ \A u \in Tasks \ {t} : np[u] = p[u]
  BY <1>1, <1>2 DEF WithLabel
<1>4. c.tcb # Idle
  BY <1>2 DEF CallInv
<1> HIDE DEF c, np
<1>5. np[t].tcb # Idle /\ (t = Idle => np[t].at \in {"user"} \cup CreateLabels)
  BY <1>2, <1>3, <1>4
<1>6. CallInv(np)
  BY <1>3, <1>5, CallMove
<1> QED BY <1>2, <1>3, <1>6 DEF np

(* A task begins a call, or returns from one to its program.               *)
LEMMA CallSet ==
  ASSUME NEW p, CallInv(p), NEW t \in Tasks, NEW c \in Calls,
         c.at # "user" => c.tcb # Idle,
         t = Idle => c.at \in {"user"} \cup CreateLabels
  PROVE  LET np == WithCall(p, t, c)
         IN  CallInv(np) /\ np[t] = c /\ \A u \in Tasks \ {t} : np[u] = p[u]
<1> DEFINE np == WithCall(p, t, c)
<1>1. /\ np \in [Tasks -> Calls] /\ np[t] = c
      /\ \A u \in Tasks \ {t} : np[u] = p[u]
  BY DEF CallInv, WithCall
<1> HIDE DEF np
<1>2. CallInv(np)
  BY <1>1, CallMove
<1> QED BY <1>1, <1>2 DEF np

(* What a task out of any call is at.                                      *)
LEMMA UserCall == User \in Calls /\ User.at = "user"
BY IdleAssumption DEF User, Calls, Labels

(* A step that leaves the pids and the unready tasks alone.                *)
LEMMA PlainStep ==
  ASSUME NEW z, SchedInv(z), NEW p, CreateInv(p, z), NEW y, NEW np,
         Sound(y), y.panic \subseteq {"MAX_LOCK_COUNT"}, y.g_pidhash = z.g_pidhash,
         UnreadyStay(y, z), CallInv(p), CallInv(np),
         \A t \in Tasks : np[t].at \in CreateLabels =>
           /\ p[t].at \in CreateLabels /\ SameStage(p[t].at, np[t].at)
           /\ np[t].tcb = p[t].tcb /\ np[t].pri = p[t].pri
  PROVE  SchedInv(y) /\ CallInv(np) /\ CreateInv(np, y)
<1>1. SchedInv(y)
  BY UnreadyStates DEF SchedInv, UnreadyStay
<1>2. ASSUME NEW t \in Tasks, np[t].at \in CreateLabels
      PROVE  /\ p[t].tcb \in y.g_pidhash
             /\ y.task_state[p[t].tcb] = z.task_state[p[t].tcb]
  <2>1. p[t].at \in CreateLabels /\ p[t].tcb \in Tasks
    BY <1>2, CallTypes DEF CallInv
  <2>2. p[t].tcb \in z.g_pidhash /\ z.task_state[p[t].tcb] \in {"INVALID", "INACTIVE"}
    BY <2>1 DEF CreateInv, CreateLabels
  <2> QED BY <2>1, <2>2, UnreadyStates DEF UnreadyStay, BlockedStates
<1>3. CreateInv(np, y)
  BY <1>2, CreateKept
<1> QED BY <1>1, <1>3

-----------------------------------------------------------------------------
(* Every action keeps the invariant.                                       *)

(* The parts of the invariant the steps use.                               *)
LEMMA IInvParts ==
  ASSUME IInv
  PROVE  /\ SchedInv(s) /\ CallInv(pc) /\ CreateInv(pc, s) /\ Sound(s)
         /\ pc \in [Tasks -> Calls] /\ s \in SchedStates
BY DEF IInv, SchedInv, CallInv, Sound, WellFormed

(* The idle task makes no call but task_create, sched_lock, sched_unlock.  *)
LEMMA IdleCalls ==
  ASSUME NEW t \in Tasks, NEW c, Makes(t, c), c \notin {"create", "lock"}
  PROVE  t # Idle
BY WorkloadAssumption DEF Makes

(* The idle task makes no call but task_create. *)
LEMMA IdleLabels ==
  ASSUME IInv, NEW t \in Tasks, NEW l, At(t, l), l \notin {"user"} \cup CreateLabels
  PROVE  t # Idle
BY DEF At, IInv, CallInv

(* A step of which the calls of task_create in progress see nothing.       *)
LEMMA UnseenStep ==
  ASSUME IInv, NEW t \in Tasks,
         Sound(s'), s'.panic \subseteq {"MAX_LOCK_COUNT"}, s'.g_pidhash = s.g_pidhash,
         UnreadyStay(s', s), CallInv(pc'),
         pc'[t].at \notin CreateLabels,
         \A u \in Tasks \ {t} : pc'[u] = pc[u]
  PROVE  IInv'
<1>1. \A u \in Tasks : pc'[u].at \in CreateLabels =>
        /\ pc[u].at \in CreateLabels /\ SameStage(pc[u].at, pc'[u].at)
        /\ pc'[u].tcb = pc[u].tcb /\ pc'[u].pri = pc[u].pri
  BY DEF SameStage
<1>2. SchedInv(s) /\ CallInv(pc) /\ CreateInv(pc, s)
  BY IInvParts
<1>3. SchedInv(s') /\ CallInv(pc') /\ CreateInv(pc', s')
  BY <1>1, <1>2, PlainStep
<1> QED BY <1>3 DEF IInv

(* A step that leaves the calls alone.                                     *)
LEMMA ProgramStep ==
  ASSUME IInv, Sound(s'), s'.panic \subseteq {"MAX_LOCK_COUNT"}, s'.g_pidhash = s.g_pidhash,
         UnreadyStay(s', s), pc' = pc
  PROVE  IInv'
<1>1. \A u \in Tasks : pc'[u].at \in CreateLabels =>
        /\ pc[u].at \in CreateLabels /\ SameStage(pc[u].at, pc'[u].at)
        /\ pc'[u].tcb = pc[u].tcb /\ pc'[u].pri = pc[u].pri
  BY DEF SameStage
<1>2. SchedInv(s) /\ CallInv(pc) /\ CreateInv(pc, s) /\ CallInv(pc')
  BY IInvParts
<1>3. SchedInv(s') /\ CallInv(pc') /\ CreateInv(pc', s')
  BY <1>1, <1>2, PlainStep
<1> QED BY <1>3 DEF IInv

(* sched_lock called by a task. *)
LEMMA LockStep ==
  ASSUME IInv, NEW t \in Tasks, Lock(t)
  PROVE  IInv'
<1>1. s' = sched_lock(s) /\ pc' = pc /\ s.panic = {} /\ Sound(s)
  BY IInvParts DEF Lock, Makes, At
<1>2. /\ Sound(s') /\ s'.panic \subseteq s.panic \cup {"MAX_LOCK_COUNT"}
      /\ s'.g_pidhash = s.g_pidhash /\ UnreadyStay(s', s)
  BY <1>1, LockSound
<1>3. s'.panic \subseteq {"MAX_LOCK_COUNT"}
  BY <1>1, <1>2
<1> QED BY <1>1, <1>2, <1>3, ProgramStep

(* sched_unlock called by a task. *)
LEMMA UnlockStep ==
  ASSUME IInv, NEW t \in Tasks, Unlock(t)
  PROVE  IInv'
<1>1. s' = sched_unlock(s) /\ pc' = pc /\ s.panic = {} /\ Sound(s)
  BY IInvParts DEF Unlock, Makes, At
<1>2. Sound(s') /\ SameRest(s', s) /\ UnreadyStay(s', s)
  BY <1>1, UnlockSound
<1>3. s'.panic \subseteq {"MAX_LOCK_COUNT"} /\ s'.g_pidhash = s.g_pidhash
  BY <1>1, <1>2 DEF SameRest
<1> QED BY <1>1, <1>2, <1>3, ProgramStep

(* The timer interrupt's sched_process_timeslice. *)
LEMMA TickStep ==
  ASSUME IInv, Tick
  PROVE  IInv'
<1>1. s' = sched_process_timeslice(s) /\ pc' = pc /\ s.panic = {} /\ Sound(s)
  BY IInvParts DEF Tick
<1>2. Sound(s') /\ SameRest(s', s) /\ UnreadyStay(s', s)
  BY <1>1, TimesliceSound
<1>3. s'.panic \subseteq {"MAX_LOCK_COUNT"} /\ s'.g_pidhash = s.g_pidhash
  BY <1>1, <1>2 DEF SameRest
<1> QED BY <1>1, <1>2, <1>3, ProgramStep

(* A step of a call that only reads the scheduler's state. *)
LEMMA SameState ==
  ASSUME IInv, s' = s
  PROVE  Sound(s') /\ s'.panic \subseteq {"MAX_LOCK_COUNT"} /\ s'.g_pidhash = s.g_pidhash
         /\ UnreadyStay(s', s)
BY IInvParts DEF SchedInv, UnreadyStay

(* sched_yield reads the caller's priority. *)
LEMMA YieldReadStep ==
  ASSUME IInv, NEW t \in Tasks, YieldRead(t)
  PROVE  IInv'
<1> DEFINE c == [User EXCEPT !.at = "yield", !.tcb = t, !.pri = s.sched_priority[t]]
<1>1. s' = s /\ pc' = WithCall(pc, t, c) /\ t # Idle
  BY IdleCalls DEF YieldRead, WithCall
<1>2. s.sched_priority[t] \in Int
  BY IInvParts, StateTypes
<1>3. c \in Calls /\ c.at = "yield" /\ c.tcb = t
  BY <1>2 DEF User, Calls, Labels
<1> HIDE DEF c
<1>4. CallInv(pc') /\ pc'[t] = c /\ \A u \in Tasks \ {t} : pc'[u] = pc[u]
  BY <1>1, <1>3, IInvParts, CallSet
<1>5. pc'[t].at \notin CreateLabels
  BY <1>3, <1>4 DEF CreateLabels
<1> QED BY <1>1, <1>4, <1>5, SameState, UnseenStep

(* sched_yield sets the caller's priority to the one it read. *)
LEMMA YieldSetStep ==
  ASSUME IInv, NEW t \in Tasks, YieldSet(t)
  PROVE  IInv'
<1>1. s' = sched_setpriority(s, t, pc[t].pri) /\ pc' = WithCall(pc, t, User) /\ s.panic = {}
  BY DEF YieldSet, At, Return, WithCall
<1>2. t \in Tasks \ {Idle} /\ pc[t].pri \in Int
  BY IdleLabels, IInvParts, CallTypes DEF YieldSet, CreateLabels
<1>3. Sound(s') /\ SameRest(s', s) /\ UnreadyStay(s', s)
  BY <1>1, <1>2, IInvParts, SetPrioritySound
<1>4. CallInv(pc') /\ pc'[t].at = "user" /\ \A u \in Tasks \ {t} : pc'[u] = pc[u]
  BY <1>1, IInvParts, UserCall, CallSet
<1>5. s'.panic \subseteq {"MAX_LOCK_COUNT"} /\ s'.g_pidhash = s.g_pidhash /\ pc'[t].at \notin CreateLabels
  BY <1>1, <1>3, <1>4 DEF SameRest, CreateLabels
<1> QED BY <1>3, <1>4, <1>5, UnseenStep

(* sched_setparam finds the TCB and locks the scheduler. *)
LEMMA SetParamStep ==
  ASSUME IInv, NEW t \in Tasks, NEW x \in Tasks, NEW pri \in SetPriorities, SetParam(t, x, pri)
  PROVE  IInv'
<1> DEFINE c == [User EXCEPT !.at = "setparam", !.tcb = x, !.pri = pri]
<1>1. s' = sched_lock(s) /\ pc' = WithCall(pc, t, c) /\ t # Idle /\ x # Idle /\ s.panic = {}
  BY IdleCalls DEF SetParam, Makes, At, WithCall
<1>2. c \in Calls /\ c.at = "setparam" /\ c.tcb = x
  BY InputsAssumption DEF User, Calls, Labels
<1> HIDE DEF c
<1>3. CallInv(pc') /\ pc'[t] = c /\ \A u \in Tasks \ {t} : pc'[u] = pc[u]
  BY <1>1, <1>2, IInvParts, CallSet
<1>4. pc'[t].at \notin CreateLabels
  BY <1>2, <1>3 DEF CreateLabels
<1>5. /\ Sound(s') /\ s'.panic \subseteq s.panic \cup {"MAX_LOCK_COUNT"}
      /\ s'.g_pidhash = s.g_pidhash /\ UnreadyStay(s', s)
  BY <1>1, IInvParts, LockSound
<1>6. s'.panic \subseteq {"MAX_LOCK_COUNT"}
  BY <1>1, <1>5
<1> QED BY <1>3, <1>4, <1>5, <1>6, UnseenStep

(* A step of a call that has been given a TCB to work on.                  *)
LEMMA GotoStep ==
  ASSUME IInv, NEW t \in Tasks, NEW l \in Labels \ CreateLabels, NEW from,
         At(t, from), from \notin {"user"} \cup CreateLabels,
         pc' = WithLabel(pc, t, l),
         Sound(s'), s'.panic \subseteq {"MAX_LOCK_COUNT"}, s'.g_pidhash = s.g_pidhash,
         UnreadyStay(s', s)
  PROVE  IInv'
<1>1. t # Idle /\ pc[t].at # "user" /\ l \in Labels /\ l \notin CreateLabels
  BY IdleLabels DEF At
<1>2. /\ CallInv(pc') /\ pc'[t].at = l
      /\ \A u \in Tasks \ {t} : pc'[u] = pc[u]
  BY <1>1, IInvParts, CallGoto
<1> QED BY <1>1, <1>2, UnseenStep

(* sched_setparam sets the priority. *)
LEMMA SetParamPriorityStep ==
  ASSUME IInv, NEW t \in Tasks, SetParamPriority(t)
  PROVE  IInv'
<1>1. /\ At(t, "setparam") /\ pc' = WithLabel(pc, t, "unlock") /\ s.panic = {}
      /\ s' = s \/ s' = sched_setpriority(s, pc[t].tcb, pc[t].pri)
  BY DEF SetParamPriority, At, Goto, WithLabel
<1>2. pc[t].tcb \in Tasks \ {Idle} /\ pc[t].pri \in Int
  BY <1>1, IInvParts, CallTypes DEF CallInv, At
<1>3. Sound(s') /\ SameRest(s', s) /\ UnreadyStay(s', s)
  <2>1. CASE s' = s
    BY <2>1, SameState DEF SameRest
  <2>2. CASE s' = sched_setpriority(s, pc[t].tcb, pc[t].pri)
    BY <2>2, <1>2, IInvParts, SetPrioritySound
  <2> QED BY <1>1, <2>1, <2>2
<1>4. s'.panic \subseteq {"MAX_LOCK_COUNT"} /\ s'.g_pidhash = s.g_pidhash
  BY <1>1, <1>3 DEF SameRest
<1>5. "unlock" \in Labels \ CreateLabels /\ "setparam" \notin {"user"} \cup CreateLabels
  BY DEF Labels, CreateLabels
<1> QED BY <1>1, <1>3, <1>4, <1>5, GotoStep

(* sched_setparam and sched_setscheduler unlock the scheduler and return. *)
LEMMA CallUnlockStep ==
  ASSUME IInv, NEW t \in Tasks, CallUnlock(t)
  PROVE  IInv'
<1>1. s' = sched_unlock(s) /\ pc' = WithCall(pc, t, User) /\ s.panic = {}
  BY DEF CallUnlock, At, Return, WithCall
<1>2. Sound(s') /\ SameRest(s', s) /\ UnreadyStay(s', s)
  BY <1>1, IInvParts, UnlockSound
<1>3. CallInv(pc') /\ pc'[t].at = "user" /\ \A u \in Tasks \ {t} : pc'[u] = pc[u]
  BY <1>1, IInvParts, UserCall, CallSet
<1>4. s'.panic \subseteq {"MAX_LOCK_COUNT"} /\ s'.g_pidhash = s.g_pidhash /\ pc'[t].at \notin CreateLabels
  BY <1>1, <1>2, <1>3 DEF SameRest, CreateLabels
<1> QED BY <1>2, <1>3, <1>4, UnseenStep

(* sched_setscheduler finds its TCB.                                       *)
LEMMA SetSchedulerStep ==
  ASSUME IInv, NEW t \in Tasks, NEW x \in Tasks, NEW pri \in SetPriorities, NEW rr \in BOOLEAN,
         SetScheduler(t, x, pri, rr)
  PROVE  IInv'
<1> DEFINE c == [at |-> "setscheduler_lock", tcb |-> x, pri |-> pri, rr |-> rr]
<1>1. s' = s /\ pc' = WithCall(pc, t, c) /\ t # Idle /\ x # Idle
  BY IdleCalls DEF SetScheduler, WithCall
<1>2. c \in Calls /\ c.at = "setscheduler_lock" /\ c.tcb = x
  BY InputsAssumption DEF Calls, Labels
<1> HIDE DEF c
<1>3. CallInv(pc') /\ pc'[t] = c /\ \A u \in Tasks \ {t} : pc'[u] = pc[u]
  BY <1>1, <1>2, IInvParts, CallSet
<1>4. pc'[t].at \notin CreateLabels
  BY <1>2, <1>3 DEF CreateLabels
<1> QED BY <1>1, <1>3, <1>4, SameState, UnseenStep

(* sched_setscheduler locks pre-emption.                                   *)
LEMMA SetSchedulerLockStep ==
  ASSUME IInv, NEW t \in Tasks, SetSchedulerLock(t)
  PROVE  IInv'
<1>1. /\ At(t, "setscheduler_lock") /\ pc' = WithLabel(pc, t, "policy") /\ s.panic = {}
      /\ s' = sched_lock(s)
  BY DEF SetSchedulerLock, At, Goto, WithLabel
<1>2. /\ Sound(s') /\ s'.panic \subseteq s.panic \cup {"MAX_LOCK_COUNT"}
      /\ s'.g_pidhash = s.g_pidhash /\ UnreadyStay(s', s)
  BY <1>1, IInvParts, LockSound
<1>3. s'.panic \subseteq {"MAX_LOCK_COUNT"}
  BY <1>1, <1>2
<1>4. "policy" \in Labels \ CreateLabels /\ "setscheduler_lock" \notin {"user"} \cup CreateLabels
  BY DEF Labels, CreateLabels
<1> QED BY <1>1, <1>2, <1>3, <1>4, GotoStep

(* sched_setscheduler sets the policy.                                     *)
LEMMA SetPolicyStep ==
  ASSUME IInv, NEW t \in Tasks, SetPolicy(t)
  PROVE  IInv'
<1> DEFINE x == pc[t].tcb
           n == IF pc[t].rr THEN TimeSlice ELSE 0
<1>1. /\ At(t, "policy") /\ pc' = WithLabel(pc, t, "setpriority") /\ s.panic = {}
      /\ s' = [s EXCEPT !.round_robin[x] = pc[t].rr, !.timeslice[x] = n]
  BY DEF SetPolicy, At, Goto, WithLabel
<1>2. x \in Tasks /\ pc[t].rr \in BOOLEAN /\ n \in 0 .. TimeSlice
  <2>1. x \in Tasks /\ pc[t].rr \in BOOLEAN
    BY IInvParts, CallTypes
  <2> QED BY <2>1, BoundsAssumption
<1> HIDE DEF x, n
<1>3. /\ s'.list = s.list /\ s'.task_state = s.task_state
      /\ s'.sched_priority = s.sched_priority /\ s'.lockcount = s.lockcount
      /\ s'.g_pidhash = s.g_pidhash /\ s'.panic = s.panic
  BY <1>1, IInvParts DEF SchedStates
<1>4. s' \in SchedStates
  <2> DEFINE nr == [s.round_robin EXCEPT ![x] = pc[t].rr]
             nt == [s.timeslice EXCEPT ![x] = n]
  <2>1. nr \in [Tasks -> BOOLEAN]
    <3>1. s.round_robin \in [Tasks -> BOOLEAN]
      BY IInvParts DEF SchedStates
    <3> QED BY <3>1, <1>2, Zenon
  <2>2. nt \in [Tasks -> 0 .. TimeSlice]
    <3>1. s.timeslice \in [Tasks -> 0 .. TimeSlice]
      BY IInvParts DEF SchedStates
    <3> QED BY <3>1, <1>2
  <2>3. s' = [s EXCEPT !.round_robin = nr, !.timeslice = nt]
    BY <1>1, IInvParts DEF SchedStates
  <2> HIDE DEF nr, nt
  <2> QED BY <2>1, <2>2, <2>3, IInvParts DEF SchedStates
<1>5. Sound(s') /\ UnreadyStay(s', s)
  <2>1. Shaped(s) /\ HeadRuns(s) /\ PendingIsLocked(s)
    BY IInvParts, WellFormedIsShaped DEF Sound
  <2>2. Shaped(s') /\ Running(s') = Running(s) /\ HeadRuns(s')
    BY <2>1, <1>3, <1>4, SameListsWellFormed
  <2> QED BY <2>1, <2>2, <1>3, WellFormedIsShaped DEF Sound, PendingIsLocked, UnreadyStay
<1>6. "setpriority" \in Labels \ CreateLabels /\ "policy" \notin {"user"} \cup CreateLabels
  BY DEF Labels, CreateLabels
<1>7. s'.panic \subseteq {"MAX_LOCK_COUNT"}
  BY <1>1, <1>3
<1> QED BY <1>1, <1>3, <1>5, <1>6, <1>7, GotoStep

(* sched_setscheduler sets the priority.                                   *)
LEMMA SetPriorityStep ==
  ASSUME IInv, NEW t \in Tasks, SetPriority(t)
  PROVE  IInv'
<1>1. /\ At(t, "setpriority") /\ pc' = WithLabel(pc, t, "unlock") /\ s.panic = {}
      /\ s' = sched_setpriority(s, pc[t].tcb, pc[t].pri)
  BY DEF SetPriority, At, Goto, WithLabel
<1>2. pc[t].tcb \in Tasks \ {Idle} /\ pc[t].pri \in Int
  BY <1>1, IInvParts, CallTypes DEF CallInv, At
<1>3. Sound(s') /\ SameRest(s', s) /\ UnreadyStay(s', s)
  BY <1>1, <1>2, IInvParts, SetPrioritySound
<1>4. s'.panic \subseteq {"MAX_LOCK_COUNT"} /\ s'.g_pidhash = s.g_pidhash
  BY <1>1, <1>3 DEF SameRest
<1>5. "unlock" \in Labels \ CreateLabels /\ "setpriority" \notin {"user"} \cup CreateLabels
  BY DEF Labels, CreateLabels
<1> QED BY <1>1, <1>3, <1>4, <1>5, GotoStep

(* An unlock inside task_create, after which the TCB is as it was.         *)
LEMMA CreateUnlock ==
  ASSUME IInv, NEW t \in Tasks, NEW from \in CreateLabels, NEW to \in CreateLabels,
         At(t, from), SameStage(from, to), s' = sched_unlock(s), pc' = WithLabel(pc, t, to)
  PROVE  IInv'
<1>1. s.panic = {} /\ pc[t].at = from /\ from # "user" /\ to \in Labels
  BY DEF At, CreateLabels, Labels
<1>2. Sound(s') /\ SameRest(s', s) /\ UnreadyStay(s', s)
  BY IInvParts, UnlockSound
<1>3. s'.panic \subseteq {"MAX_LOCK_COUNT"} /\ s'.g_pidhash = s.g_pidhash
  BY <1>1, <1>2 DEF SameRest
<1>4. /\ CallInv(pc') /\ pc'[t].at = to /\ pc'[t].tcb = pc[t].tcb /\ pc'[t].pri = pc[t].pri
      /\ \A u \in Tasks \ {t} : pc'[u] = pc[u]
  BY <1>1, IInvParts, CallGoto
<1>5. \A u \in Tasks : pc'[u].at \in CreateLabels =>
        /\ pc[u].at \in CreateLabels /\ SameStage(pc[u].at, pc'[u].at)
        /\ pc'[u].tcb = pc[u].tcb /\ pc'[u].pri = pc[u].pri
  <2> TAKE u \in Tasks
  <2>1. CASE u = t
    BY <2>1, <1>1, <1>4
  <2>2. CASE u # t
    BY <2>2, <1>4 DEF SameStage
  <2> QED BY <2>1, <2>2
<1>6. SchedInv(s') /\ CallInv(pc') /\ CreateInv(pc', s')
  BY <1>2, <1>3, <1>4, <1>5, IInvParts, PlainStep
<1> QED BY <1>6 DEF IInv

(* task_assignpid unlocks pre-emption.                                     *)
LEMMA AssignPidUnlockStep ==
  ASSUME IInv, NEW t \in Tasks, AssignPidUnlock(t)
  PROVE  IInv'
<1>1. /\ At(t, "assignpid_unlock") /\ s' = sched_unlock(s)
      /\ pc' = WithLabel(pc, t, "schedsetup_lock")
  BY DEF AssignPidUnlock, Goto, WithLabel
<1>2. /\ "assignpid_unlock" \in CreateLabels /\ "schedsetup_lock" \in CreateLabels
      /\ SameStage("assignpid_unlock", "schedsetup_lock")
  BY DEF CreateLabels, SameStage
<1> QED BY <1>1, <1>2, CreateUnlock

(* task_schedsetup unlocks pre-emption.                                    *)
LEMMA SchedSetupUnlockStep ==
  ASSUME IInv, NEW t \in Tasks, SchedSetupUnlock(t)
  PROVE  IInv'
<1>1. /\ At(t, "schedsetup_unlock") /\ s' = sched_unlock(s)
      /\ pc' = WithLabel(pc, t, "activate")
  BY DEF SchedSetupUnlock, Goto, WithLabel
<1>2. /\ "schedsetup_unlock" \in CreateLabels /\ "activate" \in CreateLabels
      /\ SameStage("schedsetup_unlock", "activate")
  BY DEF CreateLabels, SameStage
<1> QED BY <1>1, <1>2, CreateUnlock

(* A step that moves one task d, which no call of task_create in progress  *)
(* works on after the step; d may give up its pid.                         *)
LEMMA OneTaskStep ==
  ASSUME IInv, NEW d \in Tasks \ {Idle}, d \in s.g_pidhash,
         Sound(s'), s'.panic \subseteq {"MAX_LOCK_COUNT"}, OthersStay(s', s, d),
         \/ s'.g_pidhash = s.g_pidhash
         \/ s'.g_pidhash = s.g_pidhash \ {d} /\ s'.task_state[d] = "INVALID",
         CallInv(pc'),
         \A t \in Tasks : pc'[t].at \in CreateLabels => pc'[t] = pc[t] /\ pc[t].tcb # d
  PROVE  IInv'
<1>1. SchedInv(s')
  BY IInvParts, IdleAssumption, UnreadyStates DEF SchedInv, OthersStay
<1>2. ASSUME NEW t \in Tasks, pc'[t].at \in CreateLabels
      PROVE  /\ pc[t].at \in CreateLabels /\ SameStage(pc[t].at, pc'[t].at)
             /\ pc'[t].tcb = pc[t].tcb /\ pc'[t].pri = pc[t].pri
             /\ pc[t].tcb \in s'.g_pidhash
             /\ s'.task_state[pc[t].tcb] = s.task_state[pc[t].tcb]
  <2>1. pc[t].at \in CreateLabels /\ pc[t].tcb \in Tasks /\ pc'[t] = pc[t] /\ pc[t].tcb # d
    BY <1>2, IInvParts, CallTypes
  <2>2. pc[t].tcb \in s.g_pidhash /\ s.task_state[pc[t].tcb] \in {"INVALID", "INACTIVE"}
    BY <2>1, IInvParts DEF CreateInv, CreateLabels
  <2>3. s'.task_state[pc[t].tcb] = s.task_state[pc[t].tcb] /\ pc[t].tcb \in s'.g_pidhash
    BY <2>1, <2>2, UnreadyStates DEF OthersStay, BlockedStates
  <2> QED BY <2>1, <2>3 DEF SameStage
<1>3. CreateInv(pc', s')
  BY <1>2, IInvParts, CreateKept
<1> QED BY <1>1, <1>3 DEF IInv

(* The states of the TCBs that calls of task_create work on.               *)
LEMMA CreatedTasks ==
  ASSUME IInv, NEW t \in Tasks, pc[t].at \in CreateLabels
  PROVE  s.task_state[pc[t].tcb] \in {"INVALID", "INACTIVE"}
BY IInvParts DEF CreateInv, CreateLabels

(* A task in a list has a pid.                                             *)
LEMMA ListedHasPid ==
  ASSUME IInv, NEW x \in Tasks, s.task_state[x] # "INVALID"
  PROVE  x \in s.g_pidhash
BY IInvParts DEF SchedInv

(* The task that has the CPU is marked so.                                 *)
LEMMA RunningState ==
  ASSUME IInv
  PROVE  Running(s) \in Tasks /\ s.task_state[Running(s)] = "RUNNING"
<1>1. WellFormed(s)
  BY IInvParts DEF Sound
<1>2. Running(s) \in Tasks
  BY <1>1, ReadyList
<1> QED BY <1>1, <1>2 DEF WellFormed, HeadRuns

(* A task blocks.                                                          *)
LEMMA BlockStep ==
  ASSUME IInv, NEW t \in Tasks, NEW st \in UsedWaits, Block(t, st)
  PROVE  IInv'
<1>1. /\ s' = up_block_task(s, t, st) /\ pc' = pc /\ s.panic = {} /\ Running(s) = t
      /\ t \in Tasks \ {Idle}
  BY IdleCalls DEF Block, Makes, At
<1>2. st \in BlockedStates
  BY InputsAssumption DEF BlockedStates
<1>3. Sound(s') /\ SameRest(s', s) /\ OthersStay(s', s, t)
  BY <1>1, <1>2, IInvParts, BlockSound
<1>4. s.task_state[t] = "RUNNING" /\ t \in s.g_pidhash
  BY <1>1, RunningState, ListedHasPid
<1>5. \A u \in Tasks : pc'[u].at \in CreateLabels => pc'[u] = pc[u] /\ pc[u].tcb # t
  BY <1>1, <1>4, CreatedTasks
<1>6. s'.panic \subseteq {"MAX_LOCK_COUNT"} /\ s'.g_pidhash = s.g_pidhash /\ CallInv(pc')
  BY <1>1, <1>3, IInvParts DEF SameRest
<1> QED BY <1>1, <1>3, <1>4, <1>5, <1>6, OneTaskStep

(* The idle task never waits.                                              *)
LEMMA WaitingIsNotIdle ==
  ASSUME IInv, NEW x \in Tasks, s.task_state[x] \in WaitStates
  PROVE  x # Idle
<1>1. tasklist(s.task_state[x]) # "g_readytorun"
  BY IInvParts, StateTypes, TaskListTable DEF WaitStates
<1>2. Shaped(s)
  BY IInvParts, WellFormedIsShaped DEF Sound
<1>3. s \in SchedStates /\ Consistent(s) /\ IdleEnds(s)
  BY <1>2 DEF Shaped
<1>4. s.list["g_readytorun"] \in Seq(Tasks) /\ "g_readytorun" \in Lists
  BY <1>3, StateTypes DEF Lists
<1>5. s.list["g_readytorun"] # <<>> /\ s.list["g_readytorun"][Len(s.list["g_readytorun"])] = Idle
  BY <1>3 DEF IdleEnds, Last
<1>6. Linked(s.list["g_readytorun"], Idle)
  BY <1>4, <1>5, LenProperties, EmptySeq DEF Linked
<1>7. tasklist(s.task_state[Idle]) = "g_readytorun"
  BY <1>3, <1>4, <1>6, IdleAssumption DEF Consistent
<1> QED BY <1>1, <1>7

(* A blocked task is woken.                                                *)
LEMMA UnblockStep ==
  ASSUME IInv, NEW x \in Tasks, Unblock(x)
  PROVE  IInv'
<1>1. s' = up_unblock_task(s, x) /\ pc' = pc /\ s.panic = {} /\ s.task_state[x] \in WaitStates
  BY DEF Unblock
<1>2. /\ s.task_state[x] \in BlockedStates /\ s.task_state[x] \notin {"INVALID", "INACTIVE"}
      /\ tasklist(s.task_state[x]) # "g_readytorun"
  BY <1>1, TaskListTable DEF BlockedStates, WaitStates
<1>3. x # Idle
  BY <1>1, WaitingIsNotIdle
<1>4. Sound(s') /\ SameRest(s', s) /\ OthersStay(s', s, x)
  BY <1>1, <1>2, <1>3, IInvParts, UnblockSound
<1>5. x \in s.g_pidhash
  BY <1>2, ListedHasPid
<1>6. \A u \in Tasks : pc'[u].at \in CreateLabels => pc'[u] = pc[u] /\ pc[u].tcb # x
  BY <1>1, <1>2, CreatedTasks
<1>7. s'.panic \subseteq {"MAX_LOCK_COUNT"} /\ s'.g_pidhash = s.g_pidhash /\ CallInv(pc')
  BY <1>1, <1>4, IInvParts DEF SameRest
<1> QED BY <1>3, <1>4, <1>5, <1>6, <1>7, OneTaskStep

(* task_create makes the new task ready.                                   *)
LEMMA ActivateStep ==
  ASSUME IInv, NEW t \in Tasks, Activate(t)
  PROVE  IInv'
<1> DEFINE d == pc[t].tcb
<1>1. /\ s' = up_unblock_task(s, d) /\ pc' = WithCall(pc, t, User) /\ s.panic = {}
      /\ pc[t].at = "activate"
  BY DEF Activate, At, Return, WithCall
<1>2. pc[t].at \in CreateLabels /\ pc[t].at # "user"
  BY <1>1 DEF CreateLabels
<1>3. d \in Tasks \ {Idle}
  BY <1>2, IInvParts, CallTypes DEF CallInv
<1>4. /\ s.task_state[d] = "INACTIVE" /\ s.task_state[d] \in BlockedStates /\ d \in s.g_pidhash
      /\ \A u \in Tasks \ {t} : pc[u].at \in CreateLabels => pc[u].tcb # d
  <2>1. /\ s.task_state[d] = "INACTIVE" /\ d \in s.g_pidhash
        /\ \A u \in Tasks \ {t} : pc[u].at \in CreateLabels => pc[u].tcb # d
    BY <1>1, <1>2, IInvParts DEF CreateInv
  <2> QED BY <2>1 DEF BlockedStates
<1> HIDE DEF d
<1>5. Sound(s') /\ SameRest(s', s) /\ OthersStay(s', s, d)
  BY <1>1, <1>3, <1>4, IInvParts, UnblockSound
<1>6. CallInv(pc') /\ pc'[t].at = "user" /\ \A u \in Tasks \ {t} : pc'[u] = pc[u]
  BY <1>1, IInvParts, UserCall, CallSet
<1>7. \A u \in Tasks : pc'[u].at \in CreateLabels => pc'[u] = pc[u] /\ pc[u].tcb # d
  BY <1>4, <1>6 DEF CreateLabels
<1>8. s'.panic \subseteq {"MAX_LOCK_COUNT"} /\ s'.g_pidhash = s.g_pidhash
  BY <1>1, <1>5 DEF SameRest
<1> QED BY <1>3, <1>4, <1>5, <1>6, <1>7, <1>8, OneTaskStep

(* A task exits.                                                           *)
LEMMA ExitStep ==
  ASSUME IInv, NEW t \in Tasks, Exit(t)
  PROVE  IInv'
<1>1. /\ s' = task_deletecurrent(s) /\ pc' = WithCall(pc, t, User) /\ s.panic = {}
      /\ Running(s) = t
  BY DEF Exit, Makes, At, Return, WithCall
<1>2. t \in Tasks \ {Idle}
  BY WorkloadAssumption DEF Exit, Makes
<1>3. /\ Sound(s') /\ s'.panic \subseteq s.panic \cup {"MAX_LOCK_COUNT"}
      /\ s'.g_pidhash = s.g_pidhash \ {t}
      /\ s'.task_state[t] = "INVALID" /\ OthersStay(s', s, t)
  BY <1>1, <1>2, IInvParts, DeleteCurrentSound
<1>4. s.task_state[t] = "RUNNING" /\ t \in s.g_pidhash
  BY <1>1, RunningState, ListedHasPid
<1>5. CallInv(pc') /\ pc'[t].at = "user" /\ \A u \in Tasks \ {t} : pc'[u] = pc[u]
  BY <1>1, IInvParts, UserCall, CallSet
<1>6. \A u \in Tasks : pc'[u].at \in CreateLabels => pc'[u] = pc[u] /\ pc[u].tcb # t
  BY <1>4, <1>5, CreatedTasks DEF CreateLabels
<1>7. s'.panic \subseteq {"MAX_LOCK_COUNT"}
  BY <1>1, <1>3
<1> QED BY <1>2, <1>3, <1>4, <1>5, <1>6, <1>7, OneTaskStep

(* task_assignpid gives a free pid to a new TCB.                           *)
LEMMA AssignPidStep ==
  ASSUME IInv, NEW t \in Tasks, NEW x \in Tasks, NEW pri \in CreatePriorities,
         AssignPid(t, x, pri)
  PROVE  IInv'
<1> DEFINE c == [User EXCEPT !.at = "assignpid_unlock", !.tcb = x, !.pri = pri]
           zl == sched_lock(s)
<1>1. /\ s' = [zl EXCEPT !.g_pidhash = @ \cup {x},
                         !.sched_priority[x] = 0, !.init_priority[x] = 0,
                         !.lockcount[x] = 0, !.timeslice[x] = 0,
                         !.round_robin[x] = FALSE]
      /\ pc' = [pc EXCEPT ![t] = c, ![x] = User]
      /\ s.panic = {} /\ Running(s) = t /\ x \notin s.g_pidhash
  BY DEF AssignPid, Makes, At
<1>2. s.task_state[x] = "INVALID" /\ x # Idle /\ x # t
  <2>1. s.task_state[x] = "INVALID" /\ x # Idle
    BY <1>1, IInvParts DEF SchedInv
  <2> QED BY <2>1, <1>1, RunningState
<1>3. /\ Sound(zl) /\ zl.panic \subseteq s.panic \cup {"MAX_LOCK_COUNT"}
      /\ zl.g_pidhash = s.g_pidhash /\ zl.list = s.list /\ zl.task_state = s.task_state
      /\ zl.sched_priority = s.sched_priority
      /\ Running(zl) = Running(s) /\ zl.lockcount[Running(s)] > 0
  BY IInvParts, LockSound
<1> HIDE DEF zl
<1>4. Shaped(zl) /\ HeadRuns(zl) /\ zl \in SchedStates
  BY <1>3, WellFormedIsShaped DEF Sound, Shaped
<1>5. /\ s'.list = zl.list /\ s'.task_state = zl.task_state /\ s'.panic = zl.panic
      /\ s'.g_pidhash = zl.g_pidhash \cup {x}
      /\ s'.sched_priority = [zl.sched_priority EXCEPT ![x] = 0]
      /\ s'.init_priority = [zl.init_priority EXCEPT ![x] = 0]
      /\ s'.lockcount = [zl.lockcount EXCEPT ![x] = 0]
      /\ s'.timeslice = [zl.timeslice EXCEPT ![x] = 0]
      /\ s'.round_robin = [zl.round_robin EXCEPT ![x] = FALSE]
  BY <1>1, <1>4 DEF SchedStates
<1>6. /\ \A u \in Tasks \ {x} : s'.sched_priority[u] = zl.sched_priority[u]
      /\ \A u \in Tasks \ {x} : s'.lockcount[u] = zl.lockcount[u]
  BY <1>4, <1>5 DEF SchedStates
<1>7. s' \in SchedStates
  <2>1. /\ zl.sched_priority \in [Tasks -> 0 .. SCHED_PRIORITY_MAX]
        /\ zl.init_priority \in [Tasks -> 0 .. SCHED_PRIORITY_MAX]
        /\ zl.lockcount \in [Tasks -> Nat] /\ zl.timeslice \in [Tasks -> 0 .. TimeSlice]
    BY <1>4 DEF SchedStates
  <2>2. /\ s'.sched_priority \in [Tasks -> 0 .. SCHED_PRIORITY_MAX]
        /\ s'.init_priority \in [Tasks -> 0 .. SCHED_PRIORITY_MAX]
    BY <2>1, <1>5 DEF SCHED_PRIORITY_MAX
  <2>3. s'.lockcount \in [Tasks -> Nat] /\ s'.timeslice \in [Tasks -> 0 .. TimeSlice]
    BY <2>1, <1>5, BoundsAssumption
  <2>4. s'.round_robin \in [Tasks -> BOOLEAN]
    <3>1. zl.round_robin \in [Tasks -> BOOLEAN]
      BY <1>4 DEF SchedStates
    <3> QED BY <3>1, <1>5, Zenon
  <2>5. /\ zl.list \in [Lists -> Seq(Tasks)] /\ zl.task_state \in [Tasks -> TaskStates]
        /\ zl.g_pidhash \subseteq Tasks /\ zl.panic \subseteq Panics
    BY <1>4 DEF SchedStates
  <2>6. s' = [list |-> zl.list, task_state |-> zl.task_state, sched_priority |-> s'.sched_priority,
              init_priority |-> s'.init_priority, lockcount |-> s'.lockcount,
              timeslice |-> s'.timeslice, round_robin |-> s'.round_robin,
              g_pidhash |-> zl.g_pidhash \cup {x}, panic |-> zl.panic]
    BY <1>1, <1>4 DEF SchedStates
  <2> QED BY <2>2, <2>3, <2>4, <2>5, <2>6, SMTT(30) DEF SchedStates
<1>8. Sound(s')
  <2>1. Shaped(s') /\ Running(s') = Running(zl) /\ HeadRuns(s')
    <3>1. x \in Tasks \ {Idle} /\ zl.task_state[x] = "INVALID"
      BY <1>2, <1>3
    <3>2. s'.list = zl.list /\ s'.task_state = zl.task_state
      BY <1>5
    <3> QED BY <3>1, <3>2, <1>4, <1>6, <1>7, FreshTcb
  <2>2. s'.lockcount[Running(s')] > 0
    BY <2>1, <1>1, <1>2, <1>3, <1>6
  <2> QED BY <2>1, <2>2, WellFormedIsShaped DEF Sound, PendingIsLocked
<1>9. SchedInv(s')
  BY <1>1, <1>3, <1>5, <1>8, IInvParts DEF SchedInv
<1>10. c \in Calls /\ c.at = "assignpid_unlock" /\ c.tcb = x /\ c.pri = pri
       /\ pri \in SCHED_PRIORITY_MIN .. SCHED_PRIORITY_MAX
  <2>1. pri \in SCHED_PRIORITY_MIN .. SCHED_PRIORITY_MAX
    BY InputsAssumption
  <2>2. pri \in Int
    BY <2>1 DEF SCHED_PRIORITY_MIN, SCHED_PRIORITY_MAX
  <2>3. c.at = "assignpid_unlock" /\ c.tcb = x /\ c.pri = pri
    BY DEF User
  <2>4. c \in Calls
    BY <2>2 DEF User, Calls, Labels
  <2> QED BY <2>1, <2>3, <2>4
<1> HIDE DEF c
<1>11. /\ CallInv(pc') /\ pc'[t] = c /\ pc'[x] = User
       /\ \A u \in Tasks \ {t, x} : pc'[u] = pc[u]
  <2> DEFINE p1 == WithCall(pc, t, c)
  <2>1. CallInv(p1) /\ p1[t] = c /\ \A u \in Tasks \ {t} : p1[u] = pc[u]
    BY <1>2, <1>10, IInvParts, CallSet DEF CreateLabels
  <2>2. pc' = WithCall(p1, x, User)
    BY <1>1 DEF WithCall
  <2> HIDE DEF p1
  <2>3. CallInv(pc') /\ pc'[x] = User /\ \A u \in Tasks \ {x} : pc'[u] = p1[u]
    BY <2>1, <2>2, UserCall, CallSet
  <2> QED BY <2>1, <2>3, <1>2
<1>12. CreateInv(pc', s')
  <2>0. \A u \in Tasks : pc'[u].at \in CreateLabels => u = t \/ (u # t /\ pc'[u] = pc[u])
    BY <1>11, UserCall DEF CreateLabels
  <2>1. \A u \in Tasks \ {t} : pc'[u].at \in CreateLabels =>
          pc'[u] = pc[u] /\ pc[u].tcb \in s.g_pidhash /\ pc[u].tcb # x
    BY <2>0, <1>1, IInvParts DEF CreateInv
  <2>2. s'.task_state = s.task_state /\ x \in s'.g_pidhash /\ s.g_pidhash \subseteq s'.g_pidhash
    BY <1>3, <1>5
  <2>3. ASSUME NEW u \in Tasks, pc'[u].at \in CreateLabels
        PROVE  /\ pc'[u].tcb \in s'.g_pidhash
               /\ pc'[u].at \in {"assignpid_unlock", "schedsetup_lock"} =>
                    /\ s'.task_state[pc'[u].tcb] = "INVALID"
                    /\ pc'[u].pri \in SCHED_PRIORITY_MIN .. SCHED_PRIORITY_MAX
               /\ pc'[u].at \in {"schedsetup_unlock", "activate"} =>
                    s'.task_state[pc'[u].tcb] = "INACTIVE"
               /\ \A v \in Tasks \ {u} : pc'[v].at \in CreateLabels => pc'[v].tcb # pc'[u].tcb
    <3>1. CASE u = t
      BY <3>1, <2>1, <2>2, <1>2, <1>10, <1>11
    <3>2. CASE u # t
      <4>1. pc'[u] = pc[u] /\ pc[u].tcb # x /\ pc[u].at \in CreateLabels
        BY <3>2, <2>1, <2>3
      <4>2. /\ pc[u].tcb \in s.g_pidhash
            /\ pc[u].at \in {"assignpid_unlock", "schedsetup_lock"} =>
                 /\ s.task_state[pc[u].tcb] = "INVALID"
                 /\ pc[u].pri \in SCHED_PRIORITY_MIN .. SCHED_PRIORITY_MAX
            /\ pc[u].at \in {"schedsetup_unlock", "activate"} => s.task_state[pc[u].tcb] = "INACTIVE"
            /\ \A v \in Tasks \ {u} : pc[v].at \in CreateLabels => pc[v].tcb # pc[u].tcb
        BY <4>1, IInvParts DEF CreateInv
      <4>3. \A v \in Tasks \ {u} : pc'[v].at \in CreateLabels => pc'[v].tcb # pc'[u].tcb
        <5> TAKE v \in Tasks \ {u}
        <5>1. CASE v = t
          BY <5>1, <4>1, <1>10, <1>11
        <5>2. CASE v # t
          BY <5>2, <2>1, <4>1, <4>2
        <5> QED BY <5>1, <5>2
      <4> QED BY <4>1, <4>2, <4>3, <2>2
    <3> QED BY <3>1, <3>2
  <2> QED BY <2>3 DEF CreateInv
<1> QED BY <1>9, <1>11, <1>12 DEF IInv

(* task_schedsetup gives the TCB its priority and makes the task inactive. *)
LEMMA SchedSetupStep ==
  ASSUME IInv, NEW t \in Tasks, SchedSetup(t)
  PROVE  IInv'
<1> DEFINE x == pc[t].tcb
           pri == pc[t].pri
           zl == sched_lock(s)
           zp == WithPriority(zl, x, pri)
           q == zp.list["g_inactivetasks"]
           r == dq_addfirst(q, x)
           st == [zp.task_state EXCEPT ![x] = "INACTIVE"]
           zi == Relist(zp, "g_inactivetasks", r, st)
<1>1. /\ s' = [zl EXCEPT !.sched_priority[x] = pri, !.init_priority[x] = pri,
                         !.list["g_inactivetasks"] = dq_addfirst(@, x),
                         !.task_state[x] = "INACTIVE"]
      /\ pc' = WithLabel(pc, t, "schedsetup_unlock")
      /\ s.panic = {} /\ Running(s) = t /\ pc[t].at = "schedsetup_lock"
  BY DEF SchedSetup, At, Goto, WithLabel
<1>2. pc[t].at \in CreateLabels /\ pc[t].at # "user"
  BY <1>1 DEF CreateLabels
<1>3. /\ x \in Tasks \ {Idle} /\ x \in s.g_pidhash
      /\ s.task_state[x] = "INVALID" /\ pri \in SCHED_PRIORITY_MIN .. SCHED_PRIORITY_MAX
      /\ \A u \in Tasks \ {t} : pc[u].at \in CreateLabels => pc[u].tcb # x
  <2>1. x \in Tasks \ {Idle}
    BY <1>2, IInvParts, CallTypes DEF CallInv
  <2> QED BY <2>1, <1>1, <1>2, IInvParts DEF CreateInv
<1> HIDE DEF x, pri
<1>4. /\ Sound(zl) /\ zl.panic \subseteq s.panic \cup {"MAX_LOCK_COUNT"}
      /\ zl.g_pidhash = s.g_pidhash /\ zl.task_state = s.task_state
      /\ Running(zl) = Running(s) /\ zl.lockcount[Running(s)] > 0
  BY IInvParts, LockSound
<1> HIDE DEF zl
<1>5. Shaped(zl) /\ HeadRuns(zl) /\ zl \in SchedStates
  BY <1>4, WellFormedIsShaped DEF Sound, Shaped
<1>6. /\ Shaped(zp) /\ Running(zp) = Running(zl) /\ HeadRuns(zp)
      /\ zp.list = zl.list /\ zp.task_state = zl.task_state /\ zp.sched_priority[x] = pri
      /\ zp.lockcount = zl.lockcount /\ SameRest(zp, zl)
  <2>1. tasklist(zl.task_state[x]) \notin PrioritizedLists
    BY <1>3, <1>4, TaskListTable, ListNames
  <2> QED BY <2>1, <1>3, <1>5, UnlistedPriority
<1>7. /\ zp.sched_priority = [zl.sched_priority EXCEPT ![x] = pri]
      /\ zp.timeslice = zl.timeslice /\ zp.init_priority = zl.init_priority
  BY <1>5 DEF WithPriority, SchedStates
<1> HIDE DEF zp
<1>8. /\ q \in Seq(Tasks) /\ Distinct(q) /\ \A n \in DOMAIN q : q[n] # x
      /\ "g_inactivetasks" \in Lists
  <2>1. "g_inactivetasks" \in Lists /\ tasklist(zp.task_state[x]) # "g_inactivetasks"
    BY <1>3, <1>4, <1>6, TaskListTable DEF Lists
  <2>2. zp \in SchedStates /\ Consistent(zp)
    BY <1>6 DEF Shaped
  <2>3. q \in Seq(Tasks) /\ Distinct(q) /\ ~Linked(q, x)
    BY <2>1, <2>2, <1>3, StateTypes DEF Consistent
  <2> QED BY <2>1, <2>3 DEF Linked
<1>9. /\ r \in Seq(Tasks) /\ Distinct(r)
      /\ \A y \in Tasks : Linked(r, y) <=> Linked(q, y) \/ y = x
  BY <1>3, <1>8, AddFirstLinks
<1>10. /\ st \in [Tasks -> TaskStates] /\ st[x] = "INACTIVE"
       /\ \A y \in Tasks \ {x} : st[y] = zp.task_state[y]
  <2>1. zp.task_state \in [Tasks -> TaskStates] /\ "INACTIVE" \in TaskStates
    BY <1>6 DEF Shaped, SchedStates, TaskStates, BlockedStates
  <2> QED BY <2>1, <1>3
<1> HIDE DEF st, r
<1>11. /\ Shaped(zi) /\ SameTcbs(zi, zp) /\ zi.panic = zp.panic /\ zi.timeslice = zp.timeslice
       /\ \A m \in Lists \ {"g_inactivetasks"} : zi.list[m] = zp.list[m]
       /\ zi.task_state = st
  <2>1. /\ tasklist(st[x]) = "g_inactivetasks"
        /\ \A y \in Tasks \ {x} : tasklist(st[y]) = tasklist(zp.task_state[y])
        /\ "g_inactivetasks" \notin PrioritizedLists
        /\ zp.task_state[x] = "INVALID" /\ zp.sched_priority[x] > 0
    <3>1. pri > 0
      BY <1>3 DEF SCHED_PRIORITY_MIN
    <3>2. zp.task_state[x] = "INVALID" /\ zp.sched_priority[x] > 0
      BY <3>1, <1>3, <1>4, <1>6
    <3>3. "g_inactivetasks" \notin PrioritizedLists
      BY DEF PrioritizedLists
    <3>4. tasklist(st[x]) = "g_inactivetasks"
      BY <1>10 DEF tasklist
    <3> QED BY <3>2, <3>3, <3>4, <1>10
  <2>2. \A y \in Tasks : Linked(r, y) <=> Linked(zp.list["g_inactivetasks"], y) \/ y = x
    BY <1>9
  <2> HIDE DEF q
  <2> QED BY <2>1, <2>2, <1>3, <1>6, <1>8, <1>9, <1>10, LinkShaped
<1>12. /\ s'.list = zi.list /\ s'.task_state = zi.task_state
       /\ s'.sched_priority = zi.sched_priority
       /\ s'.lockcount = zi.lockcount /\ s'.panic = zi.panic /\ s'.g_pidhash = zi.g_pidhash
       /\ s' = [zi EXCEPT !.init_priority = [zl.init_priority EXCEPT ![x] = pri]]
  <2>1. s' = [zl EXCEPT !.sched_priority = [zl.sched_priority EXCEPT ![x] = pri],
                        !.init_priority = [zl.init_priority EXCEPT ![x] = pri],
                        !.list = [zl.list EXCEPT !["g_inactivetasks"] = r],
                        !.task_state = st]
    BY <1>1, <1>5, <1>6 DEF st, r, SchedStates
  <2>2. zi = [zp EXCEPT !.list = [zl.list EXCEPT !["g_inactivetasks"] = r], !.task_state = st]
    BY <1>6 DEF Relist
  <2>3. zp = [zl EXCEPT !.sched_priority = [zl.sched_priority EXCEPT ![x] = pri]]
    BY <1>5 DEF zp, WithPriority, SchedStates
  <2> QED BY <2>1, <2>2, <2>3, <1>5 DEF SchedStates
<1> HIDE DEF zi
<1>13. s' \in SchedStates
  <2>1. [zl.init_priority EXCEPT ![x] = pri] \in [Tasks -> 0 .. SCHED_PRIORITY_MAX]
    <3>1. zl.init_priority \in [Tasks -> 0 .. SCHED_PRIORITY_MAX]
      BY <1>5 DEF SchedStates
    <3> QED BY <3>1, <1>3 DEF SCHED_PRIORITY_MIN, SCHED_PRIORITY_MAX
  <2> QED BY <2>1, <1>11, <1>12 DEF Shaped, SchedStates
<1>14. Sound(s')
  <2>1. Shaped(s') /\ Running(s') = Running(zi)
    BY <1>11, <1>12, <1>13, SameListsWellFormed
  <2>2. Running(zi) = Running(zp)
    BY <1>11 DEF Running, Lists
  <2>3. \A y \in Tasks : s'.task_state[y] = "RUNNING" <=> zp.task_state[y] = "RUNNING"
    BY <1>3, <1>4, <1>6, <1>10, <1>11, <1>12
  <2>4. HeadRuns(s')
    BY <2>1, <2>2, <2>3, <1>6 DEF HeadRuns
  <2>5. s'.lockcount[Running(s')] > 0
    BY <2>1, <2>2, <1>4, <1>6, <1>11, <1>12 DEF SameTcbs
  <2> QED BY <2>1, <2>4, <2>5, WellFormedIsShaped DEF Sound, PendingIsLocked
<1>15. /\ s'.g_pidhash = s.g_pidhash /\ s'.panic \subseteq {"MAX_LOCK_COUNT"}
       /\ s'.task_state[x] = "INACTIVE"
       /\ \A y \in Tasks \ {x} : s'.task_state[y] = s.task_state[y]
  <2>1. s'.g_pidhash = s.g_pidhash
    BY <1>4, <1>6, <1>11, <1>12 DEF SameTcbs, SameRest
  <2>2. s'.panic \subseteq {"MAX_LOCK_COUNT"}
    BY <1>1, <1>4, <1>6, <1>11, <1>12 DEF SameRest
  <2>3. s'.task_state = st /\ zp.task_state = s.task_state
    BY <1>4, <1>6, <1>11, <1>12
  <2> QED BY <2>1, <2>2, <2>3, <1>10
<1>16. SchedInv(s')
  BY <1>3, <1>14, <1>15, IInvParts DEF SchedInv
<1>17. /\ CallInv(pc') /\ pc'[t].at = "schedsetup_unlock" /\ pc'[t].tcb = x
       /\ \A u \in Tasks \ {t} : pc'[u] = pc[u]
  <2>1. "schedsetup_unlock" \in Labels /\ "schedsetup_unlock" \in CreateLabels
    BY DEF Labels, CreateLabels
  <2> QED BY <2>1, <1>1, <1>2, IInvParts, CallGoto DEF x
<1>18. CreateInv(pc', s')
  <2>1. ASSUME NEW u \in Tasks, pc'[u].at \in CreateLabels
        PROVE  /\ pc'[u].tcb \in s'.g_pidhash
               /\ pc'[u].at \in {"assignpid_unlock", "schedsetup_lock"} =>
                    /\ s'.task_state[pc'[u].tcb] = "INVALID"
                    /\ pc'[u].pri \in SCHED_PRIORITY_MIN .. SCHED_PRIORITY_MAX
               /\ pc'[u].at \in {"schedsetup_unlock", "activate"} =>
                    s'.task_state[pc'[u].tcb] = "INACTIVE"
               /\ \A v \in Tasks \ {u} : pc'[v].at \in CreateLabels => pc'[v].tcb # pc'[u].tcb
    <3>1. CASE u = t
      BY <3>1, <1>3, <1>15, <1>17
    <3>2. CASE u # t
      <4>1. pc'[u] = pc[u] /\ pc[u].at \in CreateLabels /\ pc[u].tcb # x /\ pc[u].tcb \in Tasks
        BY <3>2, <2>1, <1>3, <1>17, IInvParts, CallTypes
      <4>2. /\ pc[u].tcb \in s.g_pidhash
            /\ pc[u].at \in {"assignpid_unlock", "schedsetup_lock"} =>
                 /\ s.task_state[pc[u].tcb] = "INVALID"
                 /\ pc[u].pri \in SCHED_PRIORITY_MIN .. SCHED_PRIORITY_MAX
            /\ pc[u].at \in {"schedsetup_unlock", "activate"} => s.task_state[pc[u].tcb] = "INACTIVE"
            /\ \A v \in Tasks \ {u} : pc[v].at \in CreateLabels => pc[v].tcb # pc[u].tcb
        BY <4>1, IInvParts DEF CreateInv
      <4>3. \A v \in Tasks \ {u} : pc'[v].at \in CreateLabels => pc'[v].tcb # pc'[u].tcb
        <5> TAKE v \in Tasks \ {u}
        <5>1. CASE v = t
          BY <5>1, <4>1, <1>17
        <5>2. CASE v # t
          BY <5>2, <4>1, <4>2, <1>17
        <5> QED BY <5>1, <5>2
      <4> QED BY <4>1, <4>2, <4>3, <1>15
    <3> QED BY <3>1, <3>2
  <2> QED BY <2>1 DEF CreateInv
<1> QED BY <1>16, <1>17, <1>18 DEF IInv

-----------------------------------------------------------------------------
(* Every step of the specification keeps the invariant.                    *)
LEMMA NextIInv == IInv /\ [Next]_vars => IInv'
<1> SUFFICES ASSUME IInv, [Next]_vars PROVE IInv'
  OBVIOUS
<1>1. CASE UNCHANGED vars
  BY <1>1 DEF vars, IInv
<1>2. CASE Tick
  BY <1>2, TickStep
<1>3. CASE \E x \in Tasks : Unblock(x)
  BY <1>3, UnblockStep
<1>4. ASSUME NEW t \in Tasks, TaskStep(t) PROVE IInv'
  <2>1. CASE Lock(t) \/ Unlock(t)
    BY <2>1, LockStep, UnlockStep
  <2>2. CASE YieldRead(t) \/ YieldSet(t)
    BY <2>2, YieldReadStep, YieldSetStep
  <2>3. CASE \E x \in Tasks, pri \in SetPriorities : SetParam(t, x, pri)
    BY <2>3, SetParamStep
  <2>4. CASE \E x \in Tasks, pri \in SetPriorities, rr \in BOOLEAN : SetScheduler(t, x, pri, rr)
    BY <2>4, SetSchedulerStep
  <2>5. CASE SetSchedulerLock(t) \/ SetPolicy(t) \/ SetPriority(t)
    BY <2>5, SetSchedulerLockStep, SetPolicyStep, SetPriorityStep
  <2>6. CASE SetParamPriority(t) \/ CallUnlock(t)
    BY <2>6, SetParamPriorityStep, CallUnlockStep
  <2>7. CASE \E x \in Tasks, pri \in CreatePriorities : AssignPid(t, x, pri)
    BY <2>7, AssignPidStep
  <2>8. CASE AssignPidUnlock(t) \/ SchedSetup(t) \/ SchedSetupUnlock(t) \/ Activate(t)
    BY <2>8, AssignPidUnlockStep, SchedSetupStep, SchedSetupUnlockStep, ActivateStep
  <2>9. CASE \E st \in UsedWaits : Block(t, st)
    BY <2>9, BlockStep
  <2>10. CASE Exit(t)
    BY <2>10, ExitStep
  <2> QED BY <1>4, <2>1, <2>2, <2>3, <2>4, <2>5, <2>6, <2>7, <2>8, <2>9, <2>10 DEF TaskStep
<1> QED BY <1>1, <1>2, <1>3, <1>4 DEF Next

(* The inductive invariant holds throughout every behaviour.               *)
THEOREM Inductive == Spec => []IInv
BY InitIInv, NextIInv, PTL DEF Spec

(* The scheduler state and the calls keep their types: lock counts and     *)
(* time slices never go negative, priorities stay in range.                *)
THEOREM TypeCorrect == Spec => []TypeOK
<1>1. IInv => TypeOK
  BY IInvParts DEF TypeOK
<1> QED BY <1>1, Inductive, PTL

(* Every task is in the one list its task_state names, whatever calls and  *)
(* interrupts come in whatever order.                                      *)
THEOREM ConsistentLists == Spec => []ListsConsistent
<1>1. IInv => ListsConsistent
  BY IInvParts DEF ListsConsistent, Sound, WellFormed
<1> QED BY <1>1, Inductive, PTL

(* The prioritized lists stay in priority order.                           *)
THEOREM SortedLists == Spec => []ListsSorted
<1>1. IInv => ListsSorted
  BY IInvParts DEF ListsSorted, Sound, WellFormed
<1> QED BY <1>1, Inductive, PTL

(* The idle task always ends g_readytorun, so a task to run exists and     *)
(* sched_mergepending always finds a task to insert before.                *)
THEOREM IdleStays == Spec => []IdleLast
<1>1. IInv => IdleLast
  BY IInvParts DEF IdleLast, Sound, WellFormed
<1> QED BY <1>1, Inductive, PTL

(* Exactly the head of g_readytorun is marked RUNNING.                     *)
THEOREM RunningIsHead == Spec => []OneRunning
<1>1. IInv => OneRunning
  BY IInvParts DEF OneRunning, Sound, WellFormed
<1> QED BY <1>1, Inductive, PTL

(* No task is left behind in g_pendingtasks once pre-emption is enabled.   *)
THEOREM NobodyForgotten == Spec => []PendingOnlyWhileLocked
<1>1. IInv => PendingOnlyWhileLocked
  BY IInvParts DEF PendingOnlyWhileLocked, Sound
<1> QED BY <1>1, Inductive, PTL

(* In a well-formed state nothing that could run has a higher priority     *)
(* than the running task: the ready list is sorted, and nothing is held    *)
(* back in g_pendingtasks without a lock.                                  *)
LEMMA SoundIsByPriority ==
  ASSUME Sound(s)
  PROVE  HighestPriorityRuns
<1> DEFINE q == s.list["g_readytorun"]
           d == s.list["g_pendingtasks"]
<1>1. s \in SchedStates /\ Consistent(s) /\ InOrder(s) /\ PendingIsLocked(s) /\ WellFormed(s)
  BY DEF Sound, WellFormed
<1>2. q \in Seq(Tasks) /\ q # <<>> /\ Sorted(q, s.sched_priority) /\ d \in Seq(Tasks)
  BY <1>1, StateTypes, ListNames, ReadyList DEF InOrder
<1> SUFFICES ASSUME s.lockcount[Running(s)] = 0, NEW t \in Tasks,
                    s.task_state[t] \in {"PENDING", "READYTORUN"}
             PROVE  s.sched_priority[t] <= s.sched_priority[Running(s)]
  BY DEF HighestPriorityRuns
<1>3. d = <<>>
  BY <1>1 DEF PendingIsLocked
<1>4. s.task_state[t] = "READYTORUN"
  <2>1. ~Linked(d, t)
    BY <1>3 DEF Linked
  <2>2. tasklist(s.task_state[t]) # "g_pendingtasks"
    BY <2>1, <1>1, ListNames DEF Consistent
  <2> QED BY <2>2, TaskListTable
<1>5. Linked(q, t)
  BY <1>4, <1>1, TaskListTable, ListNames DEF Consistent
<1>6. PICK i \in DOMAIN q : q[i] = t
  BY <1>5 DEF Linked
<1>7. i \in 1 .. Len(q) /\ 1 \in DOMAIN q /\ Running(s) = q[1]
  BY <1>2, <1>6, LenProperties, EmptySeq DEF Running
<1>8. s.sched_priority \in [Tasks -> Int] /\ q[1] \in Tasks
  BY <1>1, <1>2, <1>7, StateTypes, ElementOfSeq, LenProperties
<1> HIDE DEF q, d
<1>9. CASE i = 1
  BY <1>9, <1>6, <1>7, <1>8
<1>10. CASE i > 1
  BY <1>10, <1>2, <1>6, <1>7, <1>8 DEF Sorted
<1> QED BY <1>7, <1>9, <1>10

(* With pre-emption enabled the running task has the highest priority of   *)
(* all the tasks that could run: nobody is in g_pendingtasks, every ready  *)
(* task is in g_readytorun, and the running task heads that sorted list.   *)
THEOREM PriorityScheduling == Spec => []HighestPriorityRuns
<1>1. IInv => HighestPriorityRuns
  BY IInvParts, SoundIsByPriority
<1> QED BY <1>1, Inductive, PTL

(* The only PANIC or failed ASSERT within reach of the calls modelled is   *)
(* sched_lock's on the lock count: none of the checks of the lists, of the *)
(* task states or of a switch under a lock ever fails.                     *)
THEOREM OnlyLockOverflow == Spec => [](s.panic \subseteq {"MAX_LOCK_COUNT"})
<1>1. IInv => s.panic \subseteq {"MAX_LOCK_COUNT"}
  BY IInvParts DEF SchedInv
<1> QED BY <1>1, Inductive, PTL

-----------------------------------------------------------------------------
(* Who may take the CPU from whom: pre-emption locking gives a call the    *)
(* CPU to itself, a lock is given up only by its holder, and tasks of one  *)
(* priority are served in the order they came.  All three rest on IInv and *)
(* on what the operations of SchedOpsProofs say about the order of         *)
(* g_readytorun.                                                           *)


(* Task t is in a stretch of a call that ExclusiveCalls is about.          *)
Protected(p, t) ==
  \/ p[t].at \in LockedLabels
  \/ p[t].at = "unlock" /\ p[t].tcb # t
  \/ p[t].at = "exithook" /\ p[t].tcb \notin SlowToClose

(* sched_yield is about the caller.                                        *)
YieldOwn(p) == \A t \in Tasks : p[t].at = "yield" => p[t].tcb = t

(* What is added to the inductive invariant.                               *)
PInv == IInv /\ ExclusiveCalls /\ YieldOwn(pc)

(* ExclusiveCalls with its antecedent named. *)
LEMMA ExclusiveMeans ==
  /\ ExclusiveCalls <=> \A t \in Tasks : Protected(pc, t) => Running(s) = t /\ s.lockcount[t] > 0
  /\ ExclusiveCalls' <=> \A t \in Tasks : Protected(pc', t) => Running(s') = t /\ s'.lockcount[t] > 0
BY DEF ExclusiveCalls, Protected

(* The action properties, as a step formula each.                          *)
CPUKept == s.lockcount[Running(s)] > 0 /\ Running(s') # Running(s) => GivesUp(Running(s))

Fifo ==
  \A t, u \in Tasks :
    /\ Ahead(s.list["g_readytorun"], t, u)
    /\ Ahead(s'.list["g_readytorun"], u, t)
    /\ s.sched_priority[t] = s.sched_priority[u]
    /\ s'.sched_priority[u] = s.sched_priority[u]
    => TurnOver(t)

(* What every step is shown to do.                                         *)
Orderly == ExclusiveCalls' /\ YieldOwn(pc') /\ CPUKept /\ Fifo

-----------------------------------------------------------------------------
(* A step of the running task t can only spoil its own protection: nobody  *)
(* else is protected while it runs.                                        *)
LEMMA OwnStep ==
  ASSUME PInv, NEW t \in Tasks, Running(s) = t,
         \A u \in Tasks \ {t} : pc'[u] = pc[u] \/ pc'[u] = User,
         Protected(pc', t) => Running(s') = t /\ s'.lockcount[t] > 0,
         pc'[t].at = "yield" => pc'[t].tcb = t
  PROVE  ExclusiveCalls' /\ YieldOwn(pc')
<1>1. \A u \in Tasks : Protected(pc, u) => Running(s) = u
  BY ExclusiveMeans DEF PInv
<1>2. User.at \notin LockedLabels /\ User.at # "unlock" /\ User.at # "exithook" /\ User.at # "yield"
  BY DEF User, LockedLabels
<1>3. ASSUME NEW u \in Tasks, Protected(pc', u)
      PROVE  Running(s') = u /\ s'.lockcount[u] > 0
  <2>1. CASE u = t
    BY <1>3, <2>1
  <2>2. CASE u # t
    <3>1. pc'[u] = pc[u]
      BY <1>2, <1>3, <2>2 DEF Protected
    <3>2. Protected(pc, u)
      BY <1>3, <3>1 DEF Protected
    <3> QED BY <1>1, <2>2, <3>2
  <2> QED BY <2>1, <2>2
<1>4. YieldOwn(pc')
  BY <1>2 DEF YieldOwn, PInv
<1> QED BY <1>3, <1>4, ExclusiveMeans

(* A step of an interrupt handler.                                         *)
LEMMA HandlerStep ==
  ASSUME PInv, pc' = pc, s'.lockcount = s.lockcount,
         s.lockcount[Running(s)] > 0 => Running(s') = Running(s)
  PROVE  ExclusiveCalls' /\ YieldOwn(pc') /\ CPUKept
<1>1. \A u \in Tasks : Protected(pc, u) => Running(s) = u /\ s.lockcount[u] > 0
  BY ExclusiveMeans DEF PInv
<1>2. \A u \in Tasks : Protected(pc', u) => Running(s') = u /\ s'.lockcount[u] > 0
  BY <1>1
<1> QED BY <1>2, ExclusiveMeans DEF PInv, CPUKept

-----------------------------------------------------------------------------
(* Order: what the sound states on both sides of a step give.              *)
LEMMA SoundLists ==
  ASSUME NEW z, Sound(z)
  PROVE  z.list["g_readytorun"] \in Seq(Tasks) /\ Distinct(z.list["g_readytorun"])
<1>1. z \in SchedStates /\ Consistent(z)
  BY DEF Sound, WellFormed
<1> QED BY <1>1, StateTypes, ListNames DEF Consistent

(* Tasks other than x that keep their order do not overtake each other.    *)
LEMMA NoOvertaking ==
  ASSUME Sound(s'), NEW A, OrderStays(s', s, A), NEW t \in A, NEW u \in A,
         Ahead(s.list["g_readytorun"], t, u)
  PROVE  ~Ahead(s'.list["g_readytorun"], u, t)
<1>1. Ahead(s'.list["g_readytorun"], t, u)
  BY DEF OrderStays, KeepsOrder
<1> QED BY <1>1, SoundLists, AheadOneWay

(* Everybody keeps their order.                                            *)
LEMMA FifoAll ==
  ASSUME Sound(s'), OrderStays(s', s, Tasks)
  PROVE  Fifo
BY NoOvertaking DEF Fifo

(* g_readytorun stays as it is.                                            *)
LEMMA FifoSame ==
  ASSUME Sound(s), s'.list["g_readytorun"] = s.list["g_readytorun"]
  PROVE  Fifo /\ Running(s') = Running(s)
<1>1. s.list["g_readytorun"] \in Seq(Tasks) /\ Distinct(s.list["g_readytorun"])
  BY SoundLists
<1> QED BY <1>1, AheadOneWay DEF Fifo, Running

(* x leaves g_readytorun.                                                  *)
LEMMA FifoGone ==
  ASSUME Sound(s'), NEW x \in Tasks, OrderStays(s', s, Tasks \ {x}),
         s'.task_state[x] \notin {"READYTORUN", "RUNNING"}
  PROVE  Fifo
<1> SUFFICES ASSUME NEW t \in Tasks, NEW u \in Tasks,
                    Ahead(s.list["g_readytorun"], t, u), Ahead(s'.list["g_readytorun"], u, t)
             PROVE  FALSE
  BY DEF Fifo
<1>1. Linked(s'.list["g_readytorun"], t) /\ Linked(s'.list["g_readytorun"], u)
  BY SoundLists, AheadOneWay
<1>2. ~Linked(s'.list["g_readytorun"], x)
  <2>1. s' \in SchedStates /\ Consistent(s')
    BY DEF Sound, WellFormed
  <2>2. s'.task_state[x] \in TaskStates
    BY <2>1, StateTypes
  <2>3. tasklist(s'.task_state[x]) # "g_readytorun"
    BY <2>2, TaskListTable
  <2> QED BY <2>1, <2>3, ListNames DEF Consistent
<1>3. t \in Tasks \ {x} /\ u \in Tasks \ {x}
  BY <1>1, <1>2
<1> QED BY <1>3, NoOvertaking

(* x is given a priority.                                                  *)
LEMMA FifoSet ==
  ASSUME Sound(s'), NEW x \in Tasks, OrderStays(s', s, Tasks \ {x}), StaysBehind(s', s, x),
         TurnOver(x)
  PROVE  Fifo
<1> SUFFICES ASSUME NEW t \in Tasks, NEW u \in Tasks,
                    Ahead(s.list["g_readytorun"], t, u), Ahead(s'.list["g_readytorun"], u, t),
                    s.sched_priority[t] = s.sched_priority[u],
                    s'.sched_priority[u] = s.sched_priority[u]
             PROVE  TurnOver(t)
  BY DEF Fifo
<1>1. CASE t = x
  BY <1>1
<1>2. CASE t # x /\ u = x
  BY <1>2 DEF StaysBehind
<1>3. CASE t # x /\ u # x
  BY <1>3, NoOvertaking
<1> QED BY <1>1, <1>2, <1>3

-----------------------------------------------------------------------------
(* The calls after a step.                                                 *)
LEMMA AfterGoto ==
  ASSUME PInv, NEW t \in Tasks, NEW l, Goto(t, l)
  PROVE  /\ pc'[t].at = l /\ pc'[t].tcb = pc[t].tcb
         /\ \A u \in Tasks \ {t} : pc'[u] = pc[u] \/ pc'[u] = User
BY IInvParts DEF PInv, Goto, Calls

(* A call begins or returns: only the entry of t changes.                  *)
LEMMA AfterSet ==
  ASSUME PInv, NEW t \in Tasks, NEW c, pc' = WithCall(pc, t, c)
  PROVE  /\ pc'[t] = c
         /\ \A u \in Tasks \ {t} : pc'[u] = pc[u] \/ pc'[u] = User
BY IInvParts DEF PInv, WithCall

(* A step of t after which t is in no protected stretch.                   *)
LEMMA OpenStep ==
  ASSUME PInv, NEW t \in Tasks, Running(s) = t,
         \A u \in Tasks \ {t} : pc'[u] = pc[u] \/ pc'[u] = User,
         pc'[t].at \notin LockedLabels \cup {"unlock", "exithook", "yield"}
  PROVE  ExclusiveCalls' /\ YieldOwn(pc')
<1>1. ~Protected(pc', t) /\ pc'[t].at # "yield"
  BY DEF Protected
<1> QED BY <1>1, OwnStep

(* sched_unlock, wherever it is called.                                    *)
LEMMA UnlockOrder ==
  ASSUME PInv, s' = sched_unlock(s), Sound(s')
  PROVE  CPUKept /\ Fifo
<1>1. Running(s) \in Tasks /\ s.lockcount[Running(s)] \in Nat
  BY IInvParts, RunningState, StateTypes DEF PInv
<1>2. /\ s'.lockcount[Running(s)] =
           IF s.lockcount[Running(s)] > 0 THEN s.lockcount[Running(s)] - 1 ELSE 0
      /\ s.lockcount[Running(s)] > 1 => Running(s') = Running(s)
      /\ OrderStays(s', s, Tasks)
  BY IInvParts, UnlockSound DEF PInv
<1>3. CPUKept
  BY <1>1, <1>2 DEF CPUKept, GivesUp
<1> QED BY <1>2, <1>3, FifoAll

(* sched_lock, wherever it is called.                                      *)
LEMMA LockOrder ==
  ASSUME PInv, NEW y, y = sched_lock(s)
  PROVE  y.list = s.list /\ Running(y) = Running(s) /\ y.lockcount[Running(s)] > 0
BY IInvParts, LockSound DEF PInv

(* sched_setpriority of x, wherever it is called.                          *)
LEMMA SetOrder ==
  ASSUME PInv, Sound(s'), NEW t \in Tasks, NEW l \in {"yield", "setparam", "setpriority"},
         At(t, l), NEW x \in Tasks \ {Idle}, pc[t].tcb = x, NEW pri \in Int,
         s' = sched_setpriority(s, x, pri)
  PROVE  /\ CPUKept /\ Fifo /\ s'.lockcount = s.lockcount
         /\ x # t /\ s.lockcount[t] > 0 => Running(s') = t
<1>1. /\ s'.lockcount = s.lockcount
      /\ Running(s) # x /\ s.lockcount[Running(s)] > 0 => Running(s') = Running(s)
      /\ OrderStays(s', s, Tasks \ {x}) /\ StaysBehind(s', s, x)
  BY IInvParts, SetPrioritySound DEF PInv
<1>2. Running(s) = t /\ pc[t].at = l
  BY DEF At
<1>3. TurnOver(x)
  BY <1>2 DEF TurnOver
<1>4. Fifo
  BY <1>1, <1>3, FifoSet
<1>5. CPUKept
  BY <1>1, <1>2 DEF CPUKept, GivesUp
<1> QED BY <1>1, <1>2, <1>4, <1>5

-----------------------------------------------------------------------------
(* Every action is orderly.                                                *)

(* sched_lock called by a program: no list changes.                        *)
LEMMA LockOrderly ==
  ASSUME PInv, IInv', NEW t \in Tasks, Lock(t)
  PROVE  Orderly
<1>1. s' = sched_lock(s) /\ pc' = pc /\ Running(s) = t /\ pc[t].at = "user"
  BY DEF Lock, Makes, At
<1>2. s'.list = s.list /\ Running(s') = Running(s)
  BY <1>1, LockOrder
<1>3. Fifo /\ CPUKept
  BY <1>2, IInvParts, FifoSame DEF PInv, CPUKept
<1>4. ExclusiveCalls' /\ YieldOwn(pc')
  BY <1>1, OpenStep DEF LockedLabels
<1> QED BY <1>3, <1>4 DEF Orderly

(* sched_unlock called by a program.                                       *)
LEMMA UnlockOrderly ==
  ASSUME PInv, IInv', NEW t \in Tasks, Unlock(t)
  PROVE  Orderly
<1>1. s' = sched_unlock(s) /\ pc' = pc /\ Running(s) = t /\ pc[t].at = "user" /\ Sound(s')
  BY DEF Unlock, Makes, At, IInv, SchedInv
<1>2. Fifo /\ CPUKept
  BY <1>1, UnlockOrder
<1>3. ExclusiveCalls' /\ YieldOwn(pc')
  BY <1>1, OpenStep DEF LockedLabels
<1> QED BY <1>2, <1>3 DEF Orderly

(* sched_yield reads: nothing changes but the call.                        *)
LEMMA YieldReadOrderly ==
  ASSUME PInv, IInv', NEW t \in Tasks, YieldRead(t)
  PROVE  Orderly
<1> DEFINE c == [User EXCEPT !.at = "yield", !.tcb = t, !.pri = s.sched_priority[t]]
<1>1. s' = s /\ pc' = WithCall(pc, t, c) /\ Running(s) = t
  BY DEF YieldRead, Makes, At, WithCall
<1>2. c.at = "yield" /\ c.tcb = t
  BY DEF User
<1> HIDE DEF c
<1>3. pc'[t] = c /\ \A u \in Tasks \ {t} : pc'[u] = pc[u] \/ pc'[u] = User
  BY <1>1, AfterSet
<1>4. ExclusiveCalls' /\ YieldOwn(pc')
  <2>1. ~Protected(pc', t)
    BY <1>2, <1>3 DEF Protected, LockedLabels
  <2> QED BY <2>1, <1>1, <1>2, <1>3, OwnStep
<1>5. Fifo /\ CPUKept
  BY <1>1, IInvParts, FifoSame DEF PInv, CPUKept
<1> QED BY <1>4, <1>5 DEF Orderly

(* sched_yield sets: the caller gives up its own place.                    *)
LEMMA YieldSetOrderly ==
  ASSUME PInv, IInv', NEW t \in Tasks, YieldSet(t)
  PROVE  Orderly
<1>1. /\ s' = sched_setpriority(s, t, pc[t].pri) /\ pc' = WithCall(pc, t, User)
      /\ At(t, "yield") /\ Running(s) = t /\ Sound(s')
  BY DEF YieldSet, At, Return, WithCall, IInv, SchedInv
<1>2. t \in Tasks \ {Idle} /\ pc[t].pri \in Int /\ pc[t].tcb = t
  BY <1>1, IdleLabels, IInvParts, CallTypes DEF PInv, YieldOwn, At, CreateLabels
<1>3. Fifo /\ CPUKept
  BY <1>1, <1>2, SetOrder
<1>4. ExclusiveCalls' /\ YieldOwn(pc')
  <2>1. pc'[t] = User /\ \A u \in Tasks \ {t} : pc'[u] = pc[u] \/ pc'[u] = User
    BY <1>1, AfterSet
  <2> QED BY <2>1, <1>1, UserCall, OpenStep DEF LockedLabels
<1> QED BY <1>3, <1>4 DEF Orderly

(* sched_setparam locks: from here on the caller is protected.             *)
LEMMA SetParamOrderly ==
  ASSUME PInv, IInv', NEW t \in Tasks, NEW x \in Tasks, NEW pri \in SetPriorities,
         SetParam(t, x, pri)
  PROVE  Orderly
<1> DEFINE c == [User EXCEPT !.at = "setparam", !.tcb = x, !.pri = pri]
<1>1. s' = sched_lock(s) /\ pc' = WithCall(pc, t, c) /\ Running(s) = t
  BY DEF SetParam, Makes, At, WithCall
<1>2. c.at = "setparam"
  BY DEF User
<1> HIDE DEF c
<1>3. pc'[t] = c /\ \A u \in Tasks \ {t} : pc'[u] = pc[u] \/ pc'[u] = User
  BY <1>1, AfterSet
<1>4. s'.list = s.list /\ Running(s') = t /\ s'.lockcount[t] > 0
  BY <1>1, LockOrder
<1>5. ExclusiveCalls' /\ YieldOwn(pc')
  BY <1>1, <1>2, <1>3, <1>4, OwnStep
<1>6. Fifo /\ CPUKept
  BY <1>1, <1>4, IInvParts, FifoSame DEF PInv, CPUKept
<1> QED BY <1>5, <1>6 DEF Orderly

(* sched_setpriority in the middle of a locked call.                       *)
LEMMA LockedSet ==
  ASSUME PInv, IInv', NEW t \in Tasks, NEW l \in {"setparam", "setpriority"}, At(t, l),
         s' = s \/ s' = sched_setpriority(s, pc[t].tcb, pc[t].pri), Goto(t, "unlock")
  PROVE  Orderly
<1> DEFINE x == pc[t].tcb
<1>1. Running(s) = t /\ pc[t].at = l /\ l \in LockedLabels /\ l # "user" /\ Sound(s')
  BY DEF At, LockedLabels, IInv, SchedInv
<1>2. x \in Tasks \ {Idle} /\ pc[t].pri \in Int
  BY <1>1, IInvParts, CallTypes DEF CallInv, PInv
<1>3. Protected(pc, t)
  BY <1>1 DEF Protected
<1>4. s.lockcount[t] > 0
  BY <1>3, ExclusiveMeans DEF PInv
<1>5. /\ CPUKept /\ Fifo /\ s'.lockcount = s.lockcount
      /\ x # t => Running(s') = t
  <2>1. CASE s' = s
    BY <2>1, <1>1, IInvParts, FifoSame DEF PInv, CPUKept
  <2>2. CASE s' = sched_setpriority(s, x, pc[t].pri)
    <3>1. pc[t].tcb = x /\ l \in {"yield", "setparam", "setpriority"}
      OBVIOUS
    <3> HIDE DEF x
    <3> QED BY <3>1, <2>2, <1>1, <1>2, <1>4, SetOrder
  <2> QED BY <2>1, <2>2
<1>6. pc'[t].at = "unlock" /\ pc'[t].tcb = x
      /\ \A u \in Tasks \ {t} : pc'[u] = pc[u] \/ pc'[u] = User
  BY AfterGoto
<1>7. Protected(pc', t) => x # t
  BY <1>6 DEF Protected, LockedLabels
<1>8. ExclusiveCalls' /\ YieldOwn(pc')
  BY <1>1, <1>4, <1>5, <1>6, <1>7, OwnStep
<1> QED BY <1>5, <1>8 DEF Orderly

(* sched_setparam sets the priority, or finds no such pid.                 *)
LEMMA SetParamPriorityOrderly ==
  ASSUME PInv, IInv', NEW t \in Tasks, SetParamPriority(t)
  PROVE  Orderly
<1>1. /\ At(t, "setparam") /\ Goto(t, "unlock")
      /\ s' = s \/ s' = sched_setpriority(s, pc[t].tcb, pc[t].pri)
  BY DEF SetParamPriority
<1> QED BY <1>1, LockedSet

(* sched_setscheduler sets the priority.                                   *)
LEMMA SetPriorityOrderly ==
  ASSUME PInv, IInv', NEW t \in Tasks, SetPriority(t)
  PROVE  Orderly
<1>1. /\ At(t, "setpriority") /\ Goto(t, "unlock")
      /\ s' = sched_setpriority(s, pc[t].tcb, pc[t].pri)
  BY DEF SetPriority
<1> QED BY <1>1, LockedSet

(* The sched_unlock that ends both calls.                                  *)
LEMMA CallUnlockOrderly ==
  ASSUME PInv, IInv', NEW t \in Tasks, CallUnlock(t)
  PROVE  Orderly
<1>1. s' = sched_unlock(s) /\ pc' = WithCall(pc, t, User) /\ Running(s) = t /\ Sound(s')
  BY DEF CallUnlock, At, Return, WithCall, IInv, SchedInv
<1>2. Fifo /\ CPUKept
  BY <1>1, UnlockOrder
<1>3. ExclusiveCalls' /\ YieldOwn(pc')
  <2>1. pc'[t] = User /\ \A u \in Tasks \ {t} : pc'[u] = pc[u] \/ pc'[u] = User
    BY <1>1, AfterSet
  <2> QED BY <2>1, <1>1, UserCall, OpenStep DEF LockedLabels
<1> QED BY <1>2, <1>3 DEF Orderly

(* sched_setscheduler finds its TCB: nothing is locked yet.                *)
LEMMA SetSchedulerOrderly ==
  ASSUME PInv, IInv', NEW t \in Tasks, NEW x \in Tasks, NEW pri \in SetPriorities,
         NEW rr \in BOOLEAN, SetScheduler(t, x, pri, rr)
  PROVE  Orderly
<1> DEFINE c == [at |-> "setscheduler_lock", tcb |-> x, pri |-> pri, rr |-> rr]
<1>1. s' = s /\ pc' = WithCall(pc, t, c) /\ Running(s) = t
  BY DEF SetScheduler, Makes, At, WithCall
<1>2. c.at = "setscheduler_lock"
  OBVIOUS
<1> HIDE DEF c
<1>3. pc'[t] = c /\ \A u \in Tasks \ {t} : pc'[u] = pc[u] \/ pc'[u] = User
  BY <1>1, AfterSet
<1>4. ExclusiveCalls' /\ YieldOwn(pc')
  BY <1>1, <1>2, <1>3, OpenStep DEF LockedLabels
<1>5. Fifo /\ CPUKept
  BY <1>1, IInvParts, FifoSame DEF PInv, CPUKept
<1> QED BY <1>4, <1>5 DEF Orderly

(* sched_setscheduler locks.                                               *)
LEMMA SetSchedulerLockOrderly ==
  ASSUME PInv, IInv', NEW t \in Tasks, SetSchedulerLock(t)
  PROVE  Orderly
<1>1. s' = sched_lock(s) /\ Goto(t, "policy") /\ Running(s) = t
  BY DEF SetSchedulerLock, At
<1>2. pc'[t].at = "policy" /\ \A u \in Tasks \ {t} : pc'[u] = pc[u] \/ pc'[u] = User
  BY <1>1, AfterGoto
<1>3. s'.list = s.list /\ Running(s') = t /\ s'.lockcount[t] > 0
  BY <1>1, LockOrder
<1>4. ExclusiveCalls' /\ YieldOwn(pc')
  BY <1>1, <1>2, <1>3, OwnStep
<1>5. Fifo /\ CPUKept
  BY <1>1, <1>3, IInvParts, FifoSame DEF PInv, CPUKept
<1> QED BY <1>4, <1>5 DEF Orderly

(* sched_setscheduler sets the policy under its lock.                      *)
LEMMA SetPolicyOrderly ==
  ASSUME PInv, IInv', NEW t \in Tasks, SetPolicy(t)
  PROVE  Orderly
<1>1. Goto(t, "setpriority") /\ Running(s) = t /\ pc[t].at = "policy"
  BY DEF SetPolicy, At
<1>2. pc'[t].at = "setpriority" /\ \A u \in Tasks \ {t} : pc'[u] = pc[u] \/ pc'[u] = User
  BY <1>1, AfterGoto
<1>3. s'.list = s.list /\ s'.lockcount = s.lockcount
  BY IInvParts DEF SetPolicy, SchedStates, PInv
<1>4. s.lockcount[t] > 0
  <2>1. Protected(pc, t)
    BY <1>1 DEF Protected, LockedLabels
  <2> QED BY <2>1, ExclusiveMeans DEF PInv
<1>5. Fifo /\ Running(s') = Running(s)
  BY <1>3, IInvParts, FifoSame DEF PInv
<1>6. ExclusiveCalls' /\ YieldOwn(pc')
  BY <1>1, <1>2, <1>3, <1>4, <1>5, OwnStep
<1> QED BY <1>5, <1>6 DEF Orderly, CPUKept

(* task_assignpid: the TCB with the free pid is not the caller's.          *)
LEMMA AssignPidOrderly ==
  ASSUME PInv, IInv', NEW t \in Tasks, NEW x \in Tasks, NEW pri \in CreatePriorities,
         AssignPid(t, x, pri)
  PROVE  Orderly
<1> DEFINE c == [User EXCEPT !.at = "assignpid_unlock", !.tcb = x, !.pri = pri]
           zl == sched_lock(s)
<1>1. /\ s' = [zl EXCEPT !.g_pidhash = @ \cup {x},
                         !.sched_priority[x] = 0, !.init_priority[x] = 0,
                         !.lockcount[x] = 0, !.timeslice[x] = 0,
                         !.round_robin[x] = FALSE]
      /\ pc' = [pc EXCEPT ![t] = c, ![x] = User]
      /\ Running(s) = t /\ x \notin s.g_pidhash
  BY DEF AssignPid, Makes, At
<1>2. x # t
  BY <1>1, RunningState, ListedHasPid DEF PInv
<1>3. c.at = "assignpid_unlock"
  BY DEF User
<1>4. pc'[t] = c /\ \A u \in Tasks \ {t} : pc'[u] = pc[u] \/ pc'[u] = User
  BY <1>1, <1>2, IInvParts DEF PInv
<1>5. zl \in SchedStates /\ zl.list = s.list /\ Running(zl) = t /\ zl.lockcount[t] > 0
  BY <1>1, IInvParts, LockSound DEF Sound, WellFormed, PInv
<1> HIDE DEF c, zl
<1>6. s'.list = zl.list /\ s'.lockcount = [zl.lockcount EXCEPT ![x] = 0]
  BY <1>1, <1>5 DEF SchedStates
<1>7. s'.lockcount[t] > 0
  BY <1>2, <1>5, <1>6 DEF SchedStates
<1>8. Fifo /\ Running(s') = Running(s)
  BY <1>5, <1>6, IInvParts, FifoSame DEF PInv
<1>9. ExclusiveCalls' /\ YieldOwn(pc')
  BY <1>1, <1>3, <1>4, <1>7, <1>8, OwnStep
<1> QED BY <1>8, <1>9 DEF Orderly, CPUKept

(* The two unlocks inside task_create.                                     *)
LEMMA CreateUnlockOrderly ==
  ASSUME PInv, IInv', NEW t \in Tasks, AssignPidUnlock(t) \/ SchedSetupUnlock(t)
  PROVE  Orderly
<1>1. /\ s' = sched_unlock(s) /\ Running(s) = t /\ Sound(s')
      /\ Goto(t, "schedsetup_lock") \/ Goto(t, "activate")
  BY DEF AssignPidUnlock, SchedSetupUnlock, At, IInv, SchedInv
<1>2. /\ pc'[t].at \in {"schedsetup_lock", "activate"}
      /\ \A u \in Tasks \ {t} : pc'[u] = pc[u] \/ pc'[u] = User
  BY <1>1, AfterGoto
<1>3. Fifo /\ CPUKept
  BY <1>1, UnlockOrder
<1>4. ExclusiveCalls' /\ YieldOwn(pc')
  BY <1>1, <1>2, OpenStep DEF LockedLabels
<1> QED BY <1>3, <1>4 DEF Orderly

(* task_schedsetup: only g_inactivetasks changes.                          *)
LEMMA SchedSetupOrderly ==
  ASSUME PInv, IInv', NEW t \in Tasks, SchedSetup(t)
  PROVE  Orderly
<1> DEFINE x == pc[t].tcb
           zl == sched_lock(s)
<1>1. /\ s' = [zl EXCEPT !.sched_priority[x] = pc[t].pri, !.init_priority[x] = pc[t].pri,
                         !.list["g_inactivetasks"] = dq_addfirst(@, x),
                         !.task_state[x] = "INACTIVE"]
      /\ Goto(t, "schedsetup_unlock") /\ Running(s) = t
  BY DEF SchedSetup, At
<1>2. pc'[t].at = "schedsetup_unlock" /\ \A u \in Tasks \ {t} : pc'[u] = pc[u] \/ pc'[u] = User
  BY <1>1, AfterGoto
<1>3. zl \in SchedStates /\ zl.list = s.list /\ Running(zl) = t /\ zl.lockcount[t] > 0
  BY <1>1, IInvParts, LockSound DEF Sound, WellFormed, PInv
<1> HIDE DEF zl, x
<1>4. s'.lockcount = zl.lockcount
      /\ s'.list = [zl.list EXCEPT !["g_inactivetasks"] = dq_addfirst(@, x)]
  BY <1>1, <1>3 DEF SchedStates
<1>5. s'.list["g_readytorun"] = s.list["g_readytorun"]
  BY <1>3, <1>4 DEF SchedStates, Lists
<1>6. Fifo /\ Running(s') = Running(s)
  BY <1>5, IInvParts, FifoSame DEF PInv
<1>7. ExclusiveCalls' /\ YieldOwn(pc')
  BY <1>1, <1>2, <1>3, <1>4, <1>6, OwnStep
<1> QED BY <1>6, <1>7 DEF Orderly, CPUKept

(* task_activate: the new task joins behind its equals.                    *)
LEMMA ActivateOrderly ==
  ASSUME PInv, IInv', NEW t \in Tasks, Activate(t)
  PROVE  Orderly
<1> DEFINE d == pc[t].tcb
<1>1. /\ s' = up_unblock_task(s, d) /\ pc' = WithCall(pc, t, User) /\ Running(s) = t
      /\ pc[t].at = "activate" /\ Sound(s')
  BY DEF Activate, At, Return, WithCall, IInv, SchedInv
<1>2. pc[t].at \in CreateLabels /\ pc[t].at # "user"
  BY <1>1 DEF CreateLabels
<1>3. d \in Tasks \ {Idle} /\ s.task_state[d] \in BlockedStates
  BY <1>1, <1>2, IInvParts, CallTypes DEF CallInv, CreateInv, BlockedStates, PInv
<1> HIDE DEF d
<1>4. /\ s.lockcount[Running(s)] > 0 => Running(s') = Running(s)
      /\ OrderStays(s', s, Tasks)
  BY <1>1, <1>3, IInvParts, UnblockSound DEF PInv
<1>5. Fifo /\ CPUKept
  BY <1>1, <1>4, FifoAll DEF CPUKept
<1>6. ExclusiveCalls' /\ YieldOwn(pc')
  <2>1. pc'[t] = User /\ \A u \in Tasks \ {t} : pc'[u] = pc[u] \/ pc'[u] = User
    BY <1>1, AfterSet
  <2> QED BY <2>1, <1>1, UserCall, OpenStep DEF LockedLabels
<1> QED BY <1>5, <1>6 DEF Orderly

(* A task blocks: it alone leaves g_readytorun.                            *)
LEMMA BlockOrderly ==
  ASSUME PInv, IInv', NEW t \in Tasks, NEW st \in UsedWaits, Block(t, st)
  PROVE  Orderly
<1>1. /\ s' = up_block_task(s, t, st) /\ pc' = pc /\ Running(s) = t /\ pc[t].at = "user"
      /\ t \in Tasks \ {Idle} /\ Sound(s')
  BY IdleCalls DEF Block, Makes, At, IInv, SchedInv
<1>2. st \in BlockedStates /\ st \notin {"READYTORUN", "RUNNING"}
  BY InputsAssumption DEF BlockedStates, WaitStates
<1>3. s'.task_state[t] = st /\ OrderStays(s', s, Tasks \ {t})
  BY <1>1, <1>2, IInvParts, BlockSound DEF PInv
<1>4. Fifo
  BY <1>1, <1>2, <1>3, FifoGone
<1>5. CPUKept
  BY <1>1, <1>2, <1>3 DEF CPUKept, GivesUp
<1>6. ExclusiveCalls' /\ YieldOwn(pc')
  BY <1>1, OpenStep DEF LockedLabels
<1> QED BY <1>4, <1>5, <1>6 DEF Orderly

(* A task exits: it alone leaves g_readytorun.                             *)
LEMMA ExitOrderly ==
  ASSUME PInv, IInv', NEW t \in Tasks, Exit(t)
  PROVE  Orderly
<1>1. /\ s' = task_deletecurrent(s) /\ pc' = WithCall(pc, t, User) /\ Running(s) = t /\ Sound(s')
  BY DEF Exit, Makes, At, Return, WithCall, IInv, SchedInv
<1>2. t \in Tasks \ {Idle}
  BY WorkloadAssumption DEF Exit, Makes
<1>3. s'.task_state[t] = "INVALID" /\ OrderStays(s', s, Tasks \ {t})
  BY <1>1, <1>2, IInvParts, DeleteCurrentSound DEF PInv
<1>4. Fifo
  BY <1>1, <1>3, FifoGone
<1>5. CPUKept
  BY <1>1, <1>3 DEF CPUKept, GivesUp
<1>6. ExclusiveCalls' /\ YieldOwn(pc')
  <2>1. pc'[t] = User /\ \A u \in Tasks \ {t} : pc'[u] = pc[u] \/ pc'[u] = User
    BY <1>1, AfterSet
  <2> QED BY <2>1, <1>1, UserCall, OpenStep DEF LockedLabels
<1> QED BY <1>4, <1>5, <1>6 DEF Orderly

(* A handler wakes a task, which joins behind its equals.                  *)
LEMMA UnblockOrderly ==
  ASSUME PInv, IInv', NEW x \in Tasks, Unblock(x)
  PROVE  Orderly
<1>1. /\ s' = up_unblock_task(s, x) /\ pc' = pc /\ s.task_state[x] \in WaitStates /\ Sound(s')
  BY DEF Unblock, IInv, SchedInv
<1>2. x \in Tasks \ {Idle} /\ s.task_state[x] \in BlockedStates
  BY <1>1, WaitingIsNotIdle DEF BlockedStates, PInv
<1>3. /\ SameTcbs(s', s)
      /\ s.lockcount[Running(s)] > 0 => Running(s') = Running(s)
      /\ OrderStays(s', s, Tasks)
  BY <1>1, <1>2, IInvParts, UnblockSound DEF PInv
<1>4. ExclusiveCalls' /\ YieldOwn(pc') /\ CPUKept
  BY <1>1, <1>3, HandlerStep DEF SameTcbs
<1>5. Fifo
  BY <1>1, <1>3, FifoAll
<1> QED BY <1>4, <1>5 DEF Orderly

(* The tick: only the running task, its slice used up, changes its place.  *)
LEMMA TickOrderly ==
  ASSUME PInv, IInv', Tick
  PROVE  Orderly
<1>1. s' = sched_process_timeslice(s) /\ pc' = pc /\ Sound(s) /\ Sound(s')
  BY IInvParts DEF Tick, IInv, SchedInv, PInv
<1>2. /\ s'.lockcount = s.lockcount
      /\ s.lockcount[Running(s)] > 0 => Running(s') = Running(s)
      /\ \/ s'.list = s.list
         \/ SliceOver(s) /\ OrderStays(s', s, Tasks \ {Running(s)})
  BY <1>1, TimesliceSound
<1>3. ExclusiveCalls' /\ YieldOwn(pc') /\ CPUKept
  BY <1>1, <1>2, HandlerStep
<1>4. Fifo
  <2>1. CASE s'.list = s.list
    BY <2>1, <1>1, FifoSame
  <2>2. CASE SliceOver(s) /\ OrderStays(s', s, Tasks \ {Running(s)})
    <3> SUFFICES ASSUME NEW t \in Tasks, NEW u \in Tasks,
                        Ahead(s.list["g_readytorun"], t, u), Ahead(s'.list["g_readytorun"], u, t)
                 PROVE  TurnOver(t)
      BY DEF Fifo
    <3>1. CASE t = Running(s)
      BY <3>1, <2>2 DEF SliceOver, TurnOver
    <3>2. CASE t # Running(s)
      <4>1. u # Running(s)
        BY <1>1, BehindRunning
      <4> QED BY <4>1, <3>2, <2>2, <1>1, NoOvertaking
    <3> QED BY <3>1, <3>2
  <2> QED BY <1>2, <2>1, <2>2
<1> QED BY <1>3, <1>4 DEF Orderly

-----------------------------------------------------------------------------
(* Every step is orderly and keeps the invariant.                          *)
LEMMA NextOrderly ==
  ASSUME PInv, [Next]_vars
  PROVE  PInv' /\ Orderly
<1>0. IInv'
  BY NextIInv DEF PInv
<1> SUFFICES Orderly
  BY <1>0 DEF Orderly, PInv, YieldOwn
<1>1. CASE UNCHANGED vars
  <2>1. s' = s /\ pc' = pc /\ Sound(s)
    BY <1>1, IInvParts DEF vars, PInv
  <2>2. Fifo /\ CPUKept
    BY <2>1, FifoSame DEF CPUKept
  <2> QED BY <2>1, <2>2, <1>0 DEF PInv, Orderly, ExclusiveCalls, YieldOwn
<1>2. CASE Tick
  BY <1>0, <1>2, TickOrderly
<1>3. CASE \E x \in Tasks : Unblock(x)
  BY <1>0, <1>3, UnblockOrderly
<1>4. ASSUME NEW t \in Tasks, TaskStep(t) PROVE Orderly
  <2>1. CASE Lock(t) \/ Unlock(t)
    BY <1>0, <2>1, LockOrderly, UnlockOrderly
  <2>2. CASE YieldRead(t) \/ YieldSet(t)
    BY <1>0, <2>2, YieldReadOrderly, YieldSetOrderly
  <2>3. CASE \E x \in Tasks, pri \in SetPriorities : SetParam(t, x, pri)
    BY <1>0, <2>3, SetParamOrderly
  <2>4. CASE \E x \in Tasks, pri \in SetPriorities, rr \in BOOLEAN : SetScheduler(t, x, pri, rr)
    BY <1>0, <2>4, SetSchedulerOrderly
  <2>5. CASE SetSchedulerLock(t) \/ SetPolicy(t) \/ SetPriority(t)
    BY <1>0, <2>5, SetSchedulerLockOrderly, SetPolicyOrderly, SetPriorityOrderly
  <2>6. CASE SetParamPriority(t) \/ CallUnlock(t)
    BY <1>0, <2>6, SetParamPriorityOrderly, CallUnlockOrderly
  <2>7. CASE \E x \in Tasks, pri \in CreatePriorities : AssignPid(t, x, pri)
    BY <1>0, <2>7, AssignPidOrderly
  <2>8. CASE AssignPidUnlock(t) \/ SchedSetup(t) \/ SchedSetupUnlock(t) \/ Activate(t)
    BY <1>0, <2>8, CreateUnlockOrderly, SchedSetupOrderly, ActivateOrderly
  <2>9. CASE \E st \in UsedWaits : Block(t, st)
    BY <1>0, <2>9, BlockOrderly
  <2>10. CASE Exit(t)
    BY <1>0, <2>10, ExitOrderly
  <2> QED BY <1>4, <2>1, <2>2, <2>3, <2>4, <2>5, <2>6, <2>7, <2>8, <2>9, <2>10 DEF TaskStep
<1> QED BY <1>1, <1>2, <1>3, <1>4 DEF Next

(* Nobody is in a call at the start.                                       *)
LEMMA InitPInv == Init => PInv
<1> SUFFICES ASSUME Init PROVE PInv
  OBVIOUS
<1>1. \A t \in Tasks : pc[t].at = "user"
  BY DEF Init, User
<1> QED BY <1>1, InitIInv DEF PInv, ExclusiveCalls, YieldOwn, LockedLabels

(* A call that works on another task's TCB has the CPU to itself from its  *)
(* sched_lock to its sched_unlock, whatever interrupts come: the TCB that  *)
(* sched_setparam, sched_setscheduler or task_create holds cannot go away. *)
THEOREM ExclusiveCallsAlways == Spec => []ExclusiveCalls
<1>1. PInv => ExclusiveCalls
  BY DEF PInv
<1>2. PInv /\ [Next]_vars => PInv'
  BY NextOrderly
<1> QED BY <1>1, <1>2, InitPInv, PTL DEF Spec

(* No interrupt, no tick and no other task takes the CPU from a task that  *)
(* has pre-emption locked: it blocks, exits, unlocks or sets its own       *)
(* priority first.                                                         *)
THEOREM LockHolderKeepsCPU == Spec => LockKeepsCPU
<1>1. PInv /\ [Next]_vars => PInv'
  BY NextOrderly
<1>2. PInv /\ [Next]_vars =>
        [s.lockcount[Running(s)] > 0 /\ Running(s') # Running(s) => GivesUp(Running(s))]_vars
  BY NextOrderly DEF Orderly, CPUKept
<1> QED BY <1>1, <1>2, InitPInv, PTL DEF Spec, LockKeepsCPU

(* Ready tasks of one priority are served first come, first served: one    *)
(* overtakes another only when the other yields, is given a priority, or   *)
(* has used up its time slice under round robin.  Being pre-empted, or     *)
(* having others held back and merged, never costs a task its place.       *)
THEOREM FirstComeFirstServed == Spec => FifoWithinPriority
<1>1. PInv /\ [Next]_vars => PInv'
  BY NextOrderly
<1>2. PInv /\ [Next]_vars =>
        [\A t, u \in Tasks :
           /\ Ahead(s.list["g_readytorun"], t, u)
           /\ Ahead(s'.list["g_readytorun"], u, t)
           /\ s.sched_priority[t] = s.sched_priority[u]
           /\ s'.sched_priority[u] = s.sched_priority[u]
           => TurnOver(t)]_vars
  BY NextOrderly DEF Orderly, Fifo
<1> QED BY <1>1, <1>2, InitPInv, PTL DEF Spec, FifoWithinPriority

-----------------------------------------------------------------------------
(* The scheduler keeps its promises while tasks delete and restart each    *)
(* other, and task_restart keeps its own.  The task that is deleted or     *)
(* restarted may be ready, pending, blocked, inactive or in the middle of  *)
(* a call; two tasks may delete the same one, and while the exit hook of a *)
(* task waits that task may end by itself.  Then a task that is already in *)
(* no list is removed from "its list", a NULL pointer, and the system ends *)
(* (Halted): the promises hold up to and in that state.                    *)

(* A call that was given the pid of another task, and one that has taken   *)
(* the task it deletes out of its list.                                    *)
NamingLabels  == {"delete", "exithook", "delete_unlock", "release", "restart", "restart_activate"}
DeletedLabels == {"delete_unlock", "release"}

(* The stretch of task_delete in which other tasks may run: from the exit  *)
(* hook on, which may wait.                                                *)
OpenLabels == {"exithook"} \cup DeletedLabels

(* No task is deleted or restarted while task_create works on it, nor by   *)
(* itself.                                                                 *)
Apart(p) ==
  \A t, u \in Tasks : p[t].at \in NamingLabels /\ p[u].at \in CreateLabels => p[t].tcb # p[u].tcb

Other(p) ==
  \A t \in Tasks : p[t].at \in NamingLabels \ {"restart"} => p[t].tcb # t

(* A deleted task is in no list and keeps its pid until sched_releasetcb;  *)
(* only one call of task_delete comes that far.                            *)
Gone(p, z) ==
  \A t \in Tasks : p[t].at \in DeletedLabels =>
    /\ p[t].tcb \in z.g_pidhash
    /\ z.task_state[p[t].tcb] = "INVALID"
    /\ \A u \in Tasks \ {t} : p[u].at \in DeletedLabels => p[u].tcb # p[t].tcb

(* A restarted task is inactive, as task_create would have left it.        *)
Renewed(p, z) ==
  \A t \in Tasks : p[t].at = "restart_activate" =>
    /\ z.task_state[p[t].tcb] = "INACTIVE"
    /\ z.sched_priority[p[t].tcb] = z.init_priority[p[t].tcb]
    /\ p[p[t].tcb] = User

(* The priority a task is restarted with is a valid one.                   *)
BornValid(z) ==
  \A x \in Tasks \ {Idle} : z.task_state[x] # "INVALID" => z.init_priority[x] > 0

Control(p, z) == Apart(p) /\ Other(p) /\ Gone(p, z) /\ Renewed(p, z) /\ BornValid(z)

(* The system has ended with the removal of a task that is in no list.     *)
Halted == s.panic = {"NULL_LIST"} /\ Sound(s) /\ pc \in [Tasks -> Calls] /\ ExclusiveCalls

(* The inductive invariant.                                                *)
TInv == Halted \/ (PInv /\ Control(pc, s))

-----------------------------------------------------------------------------
(* What the labels of the calls in progress tell.                          *)
LEMMA LabelSets ==
  /\ NamingLabels \cap CreateLabels = {}
  /\ User.at \notin NamingLabels \cup CreateLabels
  /\ \A l \in NamingLabels : l \in LockedLabels \/ l \in OpenLabels
  /\ DeletedLabels \subseteq NamingLabels /\ OpenLabels = {"exithook"} \cup DeletedLabels
  /\ NamingLabels \subseteq Labels /\ "unlock" \in Labels
  /\ "unlock" \notin NamingLabels \cup CreateLabels
BY DEF NamingLabels, DeletedLabels, OpenLabels, CreateLabels, LockedLabels, Labels, User

(* While t runs, the only other calls that name a task are in task_delete, *)
(* in the exit hook of the task or behind it: up to there they hold a      *)
(* lock, and the CPU with it.                                              *)
LEMMA OthersRelease ==
  ASSUME PInv, NEW t \in Tasks, Running(s) = t, NEW u \in Tasks \ {t},
         pc[u].at \in NamingLabels
  PROVE  pc[u].at \in OpenLabels
<1>1. ~Protected(pc, u)
  BY ExclusiveMeans DEF PInv
<1> QED BY <1>1, LabelSets DEF Protected

(* What is known of the deleted task x stays known.                        *)
KeptGone(x) == x \in s'.g_pidhash /\ s'.task_state[x] = "INVALID"

(* No call of task_delete knows x.                                         *)
Unnamed(x) == x \notin s.g_pidhash /\ \A u \in Tasks : pc[u].at = "exithook" => pc[u].tcb # x

(* A step of the running task t keeps what is known of the calls that      *)
(* delete and restart, if it does so for its own.                          *)
LEMMA OwnControl ==
  ASSUME PInv, Control(pc, s), NEW t \in Tasks, Running(s) = t,
         \A u \in Tasks \ {t} : pc'[u] = pc[u] \/ pc'[u] = User,
         pc'[t].at \in NamingLabels =>
           \A u \in Tasks : pc'[u].at \in CreateLabels => pc'[u].tcb # pc'[t].tcb,
         pc'[t].at \in NamingLabels \ {"restart"} => pc'[t].tcb # t,
         pc'[t].at \in DeletedLabels =>
           /\ KeptGone(pc'[t].tcb)
           /\ \A u \in Tasks \ {t} : pc'[u].at \in DeletedLabels => pc'[u].tcb # pc'[t].tcb,
         pc'[t].at = "restart_activate" =>
           /\ s'.task_state[pc'[t].tcb] = "INACTIVE"
           /\ s'.sched_priority[pc'[t].tcb] = s'.init_priority[pc'[t].tcb]
           /\ pc'[pc'[t].tcb] = User,
         pc'[t].at \in CreateLabels =>
           \/ pc[t].at \in CreateLabels /\ pc'[t].tcb = pc[t].tcb
           \/ Unnamed(pc'[t].tcb),
         \A u \in Tasks \ {t} : pc[u].at \in DeletedLabels => KeptGone(pc[u].tcb),
         BornValid(s')
  PROVE  Control(pc', s')
<1>1. \A u \in Tasks \ {t} : pc'[u].at \in NamingLabels \cup CreateLabels => pc'[u] = pc[u]
  BY LabelSets
<1>2. \A u \in Tasks \ {t} : pc'[u].at \in NamingLabels =>
        /\ pc'[u] = pc[u] /\ pc'[u].at \in OpenLabels
        /\ pc[u].at = "exithook" \/ pc[u].tcb \in s.g_pidhash
  <2> TAKE u \in Tasks \ {t}
  <2> HAVE pc'[u].at \in NamingLabels
  <2>1. pc'[u] = pc[u] /\ pc[u].at \in NamingLabels
    BY <1>1
  <2>2. pc[u].at \in OpenLabels
    BY <2>1, OthersRelease
  <2>3. pc[u].at = "exithook" \/ pc[u].tcb \in s.g_pidhash
    BY <2>2 DEF Control, Gone, OpenLabels
  <2> QED BY <2>1, <2>2, <2>3
<1>3. Apart(pc')
  <2> SUFFICES ASSUME NEW v \in Tasks, NEW u \in Tasks,
                      pc'[v].at \in NamingLabels, pc'[u].at \in CreateLabels
               PROVE  pc'[v].tcb # pc'[u].tcb
    BY DEF Apart
  <2>1. CASE v = t
    BY <2>1
  <2>2. CASE v # t /\ u # t
    BY <2>2, <1>1 DEF Control, Apart
  <2>3. CASE v # t /\ u = t
    BY <2>3, <1>2 DEF Control, Apart, Unnamed
  <2> QED BY <2>1, <2>2, <2>3
<1>4. Other(pc')
  <2>1. "restart" \notin OpenLabels
    BY DEF OpenLabels, DeletedLabels
  <2> QED BY <2>1, <1>2 DEF Control, Other
<1>5. Gone(pc', s')
  <2> SUFFICES ASSUME NEW v \in Tasks, pc'[v].at \in DeletedLabels
               PROVE  /\ KeptGone(pc'[v].tcb)
                      /\ \A u \in Tasks \ {v} : pc'[u].at \in DeletedLabels => pc'[u].tcb # pc'[v].tcb
    BY DEF Gone, KeptGone
  <2>1. CASE v = t
    BY <2>1
  <2>2. CASE v # t
    <3>1. pc'[v] = pc[v] /\ pc[v].at \in DeletedLabels
      BY <2>2, <1>2, LabelSets
    <3>2. KeptGone(pc'[v].tcb)
      BY <2>2, <3>1
    <3>3. ASSUME NEW u \in Tasks \ {v}, pc'[u].at \in DeletedLabels
          PROVE  pc'[u].tcb # pc'[v].tcb
      <4>1. CASE u = t
        BY <4>1, <3>3, <2>2
      <4>2. CASE u # t
        BY <4>2, <3>1, <3>3, <1>2, LabelSets DEF Control, Gone
      <4> QED BY <4>1, <4>2
    <3> QED BY <3>2, <3>3
  <2> QED BY <2>1, <2>2
<1>6. Renewed(pc', s')
  <2> SUFFICES ASSUME NEW v \in Tasks, pc'[v].at = "restart_activate"
               PROVE  /\ s'.task_state[pc'[v].tcb] = "INACTIVE"
                      /\ s'.sched_priority[pc'[v].tcb] = s'.init_priority[pc'[v].tcb]
                      /\ pc'[pc'[v].tcb] = User
    BY DEF Renewed
  <2>1. v = t
    BY <1>2 DEF NamingLabels, OpenLabels, DeletedLabels
  <2> QED BY <2>1
<1> QED BY <1>3, <1>4, <1>5, <1>6 DEF Control

(* The operations that leave the pids, the initial priorities and the      *)
(* tasks that cannot run as they were.                                     *)
Quiet(y, z) ==
  /\ y.g_pidhash = z.g_pidhash /\ y.init_priority = z.init_priority
  /\ UnreadyStay(y, z)

(* They keep what is known of deleted tasks.                               *)
LEMMA QuietKeeps ==
  ASSUME Control(pc, s), Quiet(s', s)
  PROVE  /\ \A u \in Tasks : pc[u].at \in DeletedLabels /\ pc[u].tcb \in Tasks => KeptGone(pc[u].tcb)
         /\ BornValid(s')
<1>1. \A x \in Tasks : s'.task_state[x] = "INVALID" <=> s.task_state[x] = "INVALID"
  BY UnreadyStates DEF Quiet, UnreadyStay
<1> QED BY <1>1 DEF Control, Gone, BornValid, Quiet, KeptGone

-----------------------------------------------------------------------------
(* The steps of Scheduler, seen from the calls that delete and restart.    *)

(* A step of the scheduler's own calls takes none of these labels.         *)
LEMMA StepLabels ==
  ASSUME PInv, NEW t \in Tasks, TaskStep(t)
  PROVE  /\ Running(s) = t /\ pc[t].at \notin NamingLabels /\ pc'[t].at \notin NamingLabels
         /\ \A u \in Tasks \ {t} : pc'[u] = pc[u] \/ pc'[u] = User
         /\ pc'[t].at \in CreateLabels =>
              \/ pc[t].at \in CreateLabels /\ pc'[t].tcb = pc[t].tcb
              \/ Unnamed(pc'[t].tcb)
<1>0. pc \in [Tasks -> Calls] /\ \A u \in Tasks : pc[u] \in Calls
  BY IInvParts DEF PInv
<1>1. CASE Lock(t) \/ Unlock(t) \/ \E st \in UsedWaits : Block(t, st)
  BY <1>1 DEF Lock, Unlock, Block, Makes, At, NamingLabels, CreateLabels
<1>2. CASE YieldRead(t)
  <2> DEFINE c == [User EXCEPT !.at = "yield", !.tcb = t, !.pri = s.sched_priority[t]]
  <2>1. c.at = "yield" /\ pc' = [pc EXCEPT ![t] = c] /\ Running(s) = t /\ pc[t].at = "user"
    BY <1>2 DEF YieldRead, Makes, At, User
  <2> HIDE DEF c
  <2>2. pc'[t] = c /\ \A u \in Tasks \ {t} : pc'[u] = pc[u]
    BY <1>0, <2>1
  <2> QED BY <2>1, <2>2 DEF NamingLabels, CreateLabels
<1>2b. CASE YieldSet(t)
  BY <1>0, <1>2b DEF YieldSet, At, Return, NamingLabels, CreateLabels, User
<1>3. CASE \E x \in Tasks, pri \in SetPriorities : SetParam(t, x, pri)
  BY <1>0, <1>3 DEF SetParam, Makes, At, NamingLabels, CreateLabels, User, Calls
<1>4. CASE \E x \in Tasks, pri \in SetPriorities, rr \in BOOLEAN : SetScheduler(t, x, pri, rr)
  BY <1>0, <1>4 DEF SetScheduler, Makes, At, NamingLabels, CreateLabels, Calls
<1>5. CASE SetSchedulerLock(t) \/ SetPolicy(t) \/ SetPriority(t)
  BY <1>0, <1>5 DEF SetSchedulerLock, SetPolicy, SetPriority, At, Goto, NamingLabels,
                    CreateLabels, Calls
<1>6. CASE SetParamPriority(t) \/ CallUnlock(t) \/ Activate(t)
  BY <1>0, <1>6 DEF SetParamPriority, CallUnlock, Activate, At, Goto, Return, NamingLabels,
                    CreateLabels, User, Calls
<1>7. ASSUME NEW x \in Tasks, NEW pri \in CreatePriorities, AssignPid(t, x, pri)
      PROVE  /\ Running(s) = t /\ pc[t].at = "user" /\ x # t /\ Unnamed(x)
             /\ pc'[t].at = "assignpid_unlock" /\ pc'[t].tcb = x
             /\ \A u \in Tasks \ {t} : pc'[u] = pc[u] \/ pc'[u] = User
  <2>1. x # t
    BY <1>7, RunningState, ListedHasPid DEF PInv, AssignPid, Makes, At
  <2> DEFINE c == [User EXCEPT !.at = "assignpid_unlock", !.tcb = x, !.pri = pri]
  <2>2. c.at = "assignpid_unlock" /\ c.tcb = x
    BY DEF User
  <2>3. pc' = [pc EXCEPT ![t] = c, ![x] = User]
    BY <1>7 DEF AssignPid
  <2> HIDE DEF c
  <2>4. pc'[t] = c /\ \A u \in Tasks \ {t} : pc'[u] = pc[u] \/ pc'[u] = User
    BY <1>0, <2>1, <2>3
  <2>5. Unnamed(x)
    BY <1>7 DEF AssignPid, Unnamed
  <2> QED BY <1>7, <2>1, <2>2, <2>4, <2>5 DEF AssignPid, Makes, At
<1>8. CASE AssignPidUnlock(t) \/ SchedSetup(t) \/ SchedSetupUnlock(t)
  BY <1>0, <1>8 DEF AssignPidUnlock, SchedSetup, SchedSetupUnlock, At, Goto, NamingLabels,
                    CreateLabels, Calls
<1>9. CASE Exit(t)
  BY <1>0, <1>9 DEF Exit, Makes, At, Return, NamingLabels, CreateLabels, User
<1>10. CASE \E x \in Tasks, pri \in CreatePriorities : AssignPid(t, x, pri)
  BY <1>7, <1>10 DEF NamingLabels, CreateLabels
<1> QED BY <1>1, <1>2, <1>2b, <1>3, <1>4, <1>5, <1>6, <1>8, <1>9, <1>10 DEF TaskStep

(* The quiet ones.                                                         *)
LEMMA QuietSteps ==
  ASSUME PInv, NEW t \in Tasks,
         \/ Lock(t) \/ Unlock(t) \/ YieldRead(t) \/ YieldSet(t)
         \/ \E x \in Tasks, pri \in SetPriorities : SetParam(t, x, pri)
         \/ \E x \in Tasks, pri \in SetPriorities, rr \in BOOLEAN : SetScheduler(t, x, pri, rr)
         \/ SetSchedulerLock(t) \/ SetPolicy(t) \/ SetPriority(t)
         \/ SetParamPriority(t) \/ CallUnlock(t)
         \/ AssignPidUnlock(t) \/ SchedSetupUnlock(t)
  PROVE  Quiet(s', s)
<1>0. Sound(s) /\ s \in SchedStates /\ pc \in [Tasks -> Calls]
  BY IInvParts DEF PInv
<1>1. CASE s' = s
  BY <1>1 DEF Quiet, UnreadyStay
<1>2. CASE s' = sched_lock(s)
  BY <1>0, <1>2, LockSound DEF Quiet
<1>3. CASE s' = sched_unlock(s)
  BY <1>0, <1>3, UnlockSound DEF Quiet, SameRest
<1>4. ASSUME NEW x \in Tasks \ {Idle}, NEW pri \in Int, s' = sched_setpriority(s, x, pri)
      PROVE  Quiet(s', s)
  BY <1>0, <1>4, SetPrioritySound DEF Quiet, SameRest
<1>5. CASE SetPolicy(t)
  <2>1. s'.g_pidhash = s.g_pidhash /\ s'.init_priority = s.init_priority /\ s'.task_state = s.task_state
    BY <1>0, <1>5 DEF SetPolicy, SchedStates
  <2> QED BY <2>1 DEF Quiet, UnreadyStay
<1>6. CASE YieldSet(t)
  <2>1. t \in Tasks \ {Idle} /\ pc[t].pri \in Int
    BY <1>0, <1>6, IdleLabels, CallTypes DEF PInv, YieldSet, CreateLabels
  <2> QED BY <2>1, <1>4, <1>6 DEF YieldSet
<1>7. CASE SetPriority(t) \/ SetParamPriority(t)
  <2>1. pc[t].tcb \in Tasks \ {Idle} /\ pc[t].pri \in Int
    <3>1. pc[t].at # "user"
      BY <1>7 DEF SetPriority, SetParamPriority, At
    <3> QED BY <3>1, <1>0, IInvParts, CallTypes DEF PInv, CallInv
  <2>2. s' = s \/ s' = sched_setpriority(s, pc[t].tcb, pc[t].pri)
    BY <1>7 DEF SetPriority, SetParamPriority
  <2> QED BY <2>1, <2>2, <1>1, <1>4
<1> QED BY <1>1, <1>2, <1>3, <1>5, <1>6, <1>7
        DEF Lock, Unlock, YieldRead, SetParam, SetScheduler, SetSchedulerLock, CallUnlock,
            AssignPidUnlock, SchedSetupUnlock

(* A step that makes one task ready, or takes one out of the ready list,   *)
(* or out of any other.                                                    *)
LEMMA OneTaskKeeps ==
  ASSUME Control(pc, s), NEW d \in Tasks, s.task_state[d] # "INVALID",
         s'.init_priority = s.init_priority, OthersStay(s', s, d),
         s'.g_pidhash = s.g_pidhash \/ s'.g_pidhash = s.g_pidhash \ {d}
  PROVE  /\ \A u \in Tasks : pc[u].at \in DeletedLabels /\ pc[u].tcb \in Tasks => KeptGone(pc[u].tcb)
         /\ BornValid(s')
<1>1. \A x \in Tasks \ {d} : s'.task_state[x] = "INVALID" <=> s.task_state[x] = "INVALID"
  BY UnreadyStates DEF OthersStay
<1>2. BornValid(s')
  BY <1>1 DEF Control, BornValid
<1>3. \A u \in Tasks : pc[u].at \in DeletedLabels => pc[u].tcb # d
  BY DEF Control, Gone
<1> QED BY <1>1, <1>2, <1>3 DEF Control, Gone, KeptGone

(* A step of the running task, as far as Control is concerned.             *)
LEMMA StepControl ==
  ASSUME PInv, Control(pc, s), NEW t \in Tasks, TaskStep(t),
         \A u \in Tasks \ {t} : pc[u].at \in DeletedLabels => KeptGone(pc[u].tcb),
         BornValid(s')
  PROVE  Control(pc', s')
<1>1. /\ Running(s) = t /\ pc'[t].at \notin NamingLabels
      /\ \A u \in Tasks \ {t} : pc'[u] = pc[u] \/ pc'[u] = User
      /\ pc'[t].at \in CreateLabels =>
           \/ pc[t].at \in CreateLabels /\ pc'[t].tcb = pc[t].tcb
           \/ Unnamed(pc'[t].tcb)
  BY StepLabels
<1>2. pc'[t].at \notin DeletedLabels /\ pc'[t].at # "restart_activate"
  BY <1>1, LabelSets DEF NamingLabels
<1> QED BY <1>1, <1>2, OwnControl

(* Every step of a task.                                                   *)
LEMMA TaskControlKept ==
  ASSUME PInv, Control(pc, s), NEW t \in Tasks, TaskStep(t)
  PROVE  Control(pc', s')
<1>0. /\ pc \in [Tasks -> Calls] /\ \A u \in Tasks : pc[u].tcb \in Tasks
      /\ Sound(s) /\ s \in SchedStates
  BY IInvParts, CallTypes DEF PInv
<1> SUFFICES (\A u \in Tasks \ {t} : pc[u].at \in DeletedLabels => KeptGone(pc[u].tcb)) /\ BornValid(s')
  BY StepControl
<1>2. CASE Quiet(s', s)
  BY <1>0, <1>2, QuietKeeps
<1>3. ASSUME NEW x \in Tasks, NEW pri \in CreatePriorities, AssignPid(t, x, pri)
      PROVE  (\A u \in Tasks \ {t} : pc[u].at \in DeletedLabels => KeptGone(pc[u].tcb)) /\ BornValid(s')
  <2> DEFINE zl == sched_lock(s)
  <2>1. /\ s' = [zl EXCEPT !.g_pidhash = @ \cup {x},
                           !.sched_priority[x] = 0, !.init_priority[x] = 0,
                           !.lockcount[x] = 0, !.timeslice[x] = 0,
                           !.round_robin[x] = FALSE]
        /\ x \notin s.g_pidhash
    BY <1>3 DEF AssignPid
  <2>2. /\ zl.task_state = s.task_state /\ zl.init_priority = s.init_priority
        /\ zl.g_pidhash = s.g_pidhash /\ zl \in SchedStates
    BY <1>0, LockSound DEF Sound, WellFormed
  <2> HIDE DEF zl
  <2>3. /\ s'.task_state = s.task_state /\ s'.g_pidhash = s.g_pidhash \cup {x}
        /\ s'.init_priority = [s.init_priority EXCEPT ![x] = 0]
    BY <2>1, <2>2 DEF SchedStates
  <2>4. s.task_state[x] = "INVALID"
    BY <2>1, IInvParts DEF PInv, SchedInv
  <2>5. \A y \in Tasks \ {x} : s'.init_priority[y] = s.init_priority[y]
    BY <1>0, <2>3 DEF SchedStates
  <2>6. BornValid(s')
    BY <2>3, <2>4, <2>5 DEF Control, BornValid
  <2> QED BY <2>3, <2>6 DEF Control, Gone, KeptGone
<1>4. CASE SchedSetup(t)
  <2> DEFINE x == pc[t].tcb
             zl == sched_lock(s)
  <2>1. /\ s' = [zl EXCEPT !.sched_priority[x] = pc[t].pri, !.init_priority[x] = pc[t].pri,
                           !.list["g_inactivetasks"] = dq_addfirst(@, x),
                           !.task_state[x] = "INACTIVE"]
        /\ pc[t].at = "schedsetup_lock" /\ Running(s) = t
    BY <1>4 DEF SchedSetup, At
  <2>2. /\ zl.task_state = s.task_state /\ zl.init_priority = s.init_priority
        /\ zl.g_pidhash = s.g_pidhash /\ zl \in SchedStates
    BY <1>0, LockSound DEF Sound, WellFormed
  <2>3. pc[t].pri > 0 /\ pc[t].at \in CreateLabels
    BY <2>1, IInvParts DEF PInv, CreateInv, CreateLabels, SCHED_PRIORITY_MIN
  <2>4. \A u \in Tasks : pc[u].at \in DeletedLabels => pc[u].tcb # x
    BY <2>3 DEF Control, Apart, NamingLabels, DeletedLabels
  <2>5. x \in Tasks
    BY <1>0
  <2> HIDE DEF zl, x
  <2>6. /\ s'.task_state = [s.task_state EXCEPT ![x] = "INACTIVE"] /\ s'.g_pidhash = s.g_pidhash
        /\ s'.init_priority = [s.init_priority EXCEPT ![x] = pc[t].pri]
    BY <2>1, <2>2 DEF SchedStates
  <2>7. /\ s'.init_priority[x] = pc[t].pri
        /\ \A y \in Tasks \ {x} : /\ s'.init_priority[y] = s.init_priority[y]
                                  /\ s'.task_state[y] = s.task_state[y]
    BY <1>0, <2>5, <2>6 DEF SchedStates
  <2>8. BornValid(s')
    BY <2>3, <2>7 DEF Control, BornValid
  <2>9. ASSUME NEW u \in Tasks, pc[u].at \in DeletedLabels PROVE KeptGone(pc[u].tcb)
    <3>1. pc[u].tcb \in Tasks \ {x} /\ pc[u].tcb \in s.g_pidhash /\ s.task_state[pc[u].tcb] = "INVALID"
      BY <1>0, <2>4, <2>9 DEF Control, Gone
    <3> QED BY <3>1, <2>6, <2>7 DEF KeptGone
  <2> QED BY <2>8, <2>9
<1>5. CASE Activate(t)
  <2> DEFINE d == pc[t].tcb
  <2>1. s' = up_unblock_task(s, d) /\ pc[t].at = "activate"
    BY <1>5 DEF Activate, At
  <2>2. d \in Tasks \ {Idle} /\ s.task_state[d] \in BlockedStates /\ s.task_state[d] # "INVALID"
    <3>1. pc[t].at \in CreateLabels /\ pc[t].at # "user"
      BY <2>1 DEF CreateLabels
    <3> QED BY <3>1, <2>1, <1>0, IInvParts DEF PInv, CallInv, CreateInv, BlockedStates
  <2> HIDE DEF d
  <2>3. OthersStay(s', s, d) /\ SameTcbs(s', s)
    BY <1>0, <2>1, <2>2, UnblockSound
  <2> QED BY <1>0, <2>2, <2>3, OneTaskKeeps DEF SameTcbs
<1>6. ASSUME NEW st \in UsedWaits, Block(t, st)
      PROVE  (\A u \in Tasks \ {t} : pc[u].at \in DeletedLabels => KeptGone(pc[u].tcb)) /\ BornValid(s')
  <2>1. s' = up_block_task(s, t, st) /\ Running(s) = t /\ t \in Tasks \ {Idle} /\ st \in BlockedStates
    BY <1>6, IdleCalls, InputsAssumption DEF Block, Makes, At, BlockedStates
  <2>2. s.task_state[t] = "RUNNING"
    BY <2>1, RunningState DEF PInv
  <2>3. OthersStay(s', s, t) /\ SameTcbs(s', s)
    BY <1>0, <2>1, BlockSound
  <2> QED BY <1>0, <2>2, <2>3, OneTaskKeeps DEF SameTcbs
<1>7. CASE Exit(t)
  <2>1. s' = task_deletecurrent(s) /\ Running(s) = t /\ t \in Tasks \ {Idle}
    BY <1>7, WorkloadAssumption DEF Exit, Makes, At
  <2>2. s.task_state[t] = "RUNNING"
    BY <2>1, RunningState DEF PInv
  <2>3. OthersStay(s', s, t) /\ s'.init_priority = s.init_priority /\ s'.g_pidhash = s.g_pidhash \ {t}
    BY <1>0, <2>1, DeleteCurrentSound
  <2> QED BY <1>0, <2>2, <2>3, OneTaskKeeps
<1> QED BY <1>2, <1>3, <1>4, <1>5, <1>6, <1>7, QuietSteps DEF TaskStep

(* A handler that finds no task to change but those it may.                *)
LEMMA HandlerControl ==
  ASSUME PInv, Control(pc, s), pc' = pc, s'.init_priority = s.init_priority,
         NEW d \in Tasks, s.task_state[d] \notin {"INVALID", "INACTIVE"}, OthersStay(s', s, d),
         s'.g_pidhash = s.g_pidhash,
         s.lockcount[Running(s)] > 0 => s'.sched_priority = s.sched_priority
  PROVE  Control(pc', s')
<1>0. \A u \in Tasks : pc[u].tcb \in Tasks
  BY IInvParts, CallTypes DEF PInv
<1>1. Gone(pc', s') /\ BornValid(s')
  <2>1. (\A u \in Tasks : pc[u].at \in DeletedLabels => KeptGone(pc[u].tcb)) /\ BornValid(s')
    BY <1>0, OneTaskKeeps
  <2> QED BY <2>1 DEF Control, Gone, KeptGone
<1>2. Renewed(pc', s')
  <2> SUFFICES ASSUME NEW t \in Tasks, pc[t].at = "restart_activate"
               PROVE  /\ s'.task_state[pc[t].tcb] = "INACTIVE"
                      /\ s'.sched_priority[pc[t].tcb] = s'.init_priority[pc[t].tcb]
                      /\ pc[pc[t].tcb] = User
    BY DEF Renewed
  <2>1. Protected(pc, t)
    BY DEF Protected, LockedLabels
  <2>2. s.lockcount[Running(s)] > 0
    BY <2>1, ExclusiveMeans DEF PInv
  <2>3. /\ s.task_state[pc[t].tcb] = "INACTIVE"
        /\ s.sched_priority[pc[t].tcb] = s.init_priority[pc[t].tcb]
        /\ pc[pc[t].tcb] = User
    BY DEF Control, Renewed
  <2>4. s'.task_state[pc[t].tcb] = "INACTIVE"
    <3>1. pc[t].tcb \in Tasks \ {d} /\ "INACTIVE" \in Unready
      BY <1>0, <2>3 DEF Unready, BlockedStates
    <3> QED BY <3>1, <2>3 DEF OthersStay
  <2> QED BY <2>2, <2>3, <2>4
<1> QED BY <1>1, <1>2 DEF Control, Apart, Other

(* A handler wakes a task.                                                 *)
LEMMA UnblockControl ==
  ASSUME PInv, Control(pc, s), NEW x \in Tasks, Unblock(x)
  PROVE  Control(pc', s')
<1>1. /\ s' = up_unblock_task(s, x) /\ pc' = pc /\ s.task_state[x] \in WaitStates /\ Sound(s)
  BY IInvParts DEF Unblock, PInv
<1>2. x \in Tasks \ {Idle} /\ s.task_state[x] \in BlockedStates
      /\ s.task_state[x] \notin {"INVALID", "INACTIVE"}
  BY <1>1, WaitingIsNotIdle DEF BlockedStates, WaitStates, PInv
<1>3. SameTcbs(s', s) /\ OthersStay(s', s, x)
  BY <1>1, <1>2, UnblockSound
<1> QED BY <1>1, <1>2, <1>3, HandlerControl DEF SameTcbs

(* A tick while the running task has pre-emption locked changes no         *)
(* priority.                                                               *)
LEMMA TickControl ==
  ASSUME PInv, Control(pc, s), Tick
  PROVE  Control(pc', s')
<1>1. /\ s' = sched_process_timeslice(s) /\ pc' = pc /\ Sound(s) /\ s \in SchedStates
  BY IInvParts DEF Tick, PInv
<1>2. SameRest(s', s) /\ UnreadyStay(s', s)
  BY <1>1, TimesliceSound
<1>3. s.lockcount[Running(s)] > 0 => s'.sched_priority = s.sched_priority
  <2> HAVE s.lockcount[Running(s)] > 0
  <2> DEFINE n == s.timeslice[Running(s)] - 1
             z == [s EXCEPT !.timeslice[Running(s)] = n]
  <2>1. s' = s \/ s' = z
    BY <1>1 DEF sched_process_timeslice
  <2> HIDE DEF n
  <2>2. z.sched_priority = s.sched_priority
    BY <1>1 DEF SchedStates
  <2> QED BY <2>1, <2>2
<1>4. Running(s) \in Tasks /\ s.task_state[Running(s)] \notin {"INVALID", "INACTIVE"}
  BY RunningState DEF PInv
<1>5. OthersStay(s', s, Running(s))
  BY <1>2 DEF UnreadyStay, OthersStay
<1> QED BY <1>1, <1>2, <1>3, <1>4, <1>5, HandlerControl DEF SameRest

(* No step of the scheduler disturbs a deletion or a restart.              *)
LEMMA NextControl ==
  ASSUME PInv, Control(pc, s), [Next]_vars
  PROVE  Control(pc', s')
<1>1. CASE UNCHANGED vars
  BY <1>1 DEF vars
<1>2. CASE Tick
  BY <1>2, TickControl
<1>3. CASE \E x \in Tasks : Unblock(x)
  BY <1>3, UnblockControl
<1>4. CASE \E t \in Tasks : TaskStep(t)
  BY <1>4, TaskControlKept
<1> QED BY <1>1, <1>2, <1>3, <1>4 DEF Next

-----------------------------------------------------------------------------
(* What task_delete and task_restart do to the lists.                      *)

(* A task taken out of the list that its state names, unless it runs.      *)
LEMMA RemoveAny ==
  ASSUME NEW z, Sound(z), NEW x \in Tasks \ {Idle}, z.task_state[x] # "INVALID",
         Running(z) # x
  PROVE  LET y == RemoveFromList(z, x)
         IN  /\ Sound(y) /\ SameTcbs(y, z) /\ y.panic = z.panic
             /\ y.task_state[x] = "INVALID" /\ OthersStay(y, z, x)
             /\ Running(y) = Running(z)
             /\ OrderStays(y, z, Tasks \ {x})
<1> DEFINE y == RemoveFromList(z, x)
<1>0. /\ z \in SchedStates /\ WellFormed(z) /\ Shaped(z) /\ HeadRuns(z) /\ PendingIsLocked(z)
      /\ Consistent(z) /\ z.task_state[x] \in TaskStates
  BY WellFormedIsShaped, StateTypes DEF Sound, WellFormed
<1>1. z.task_state[x] # "RUNNING"
  BY <1>0 DEF HeadRuns
<1>2. CASE z.task_state[x] = "READYTORUN"
  <2> DEFINE q == z.list["g_readytorun"]
  <2>1. y = [z EXCEPT !.list["g_readytorun"] = dq_rem(@, x), !.task_state[x] = "INVALID"]
    BY <1>2, TaskListTable DEF RemoveFromList
  <2>2. Head(q) # x
    BY DEF Running
  <2>3. y = sched_removereadytorun(z, x)
    BY <2>1, <2>2 DEF sched_removereadytorun
  <2> HIDE DEF y
  <2>4. /\ WellFormed(y) /\ SameTcbs(y, z) /\ y.panic = z.panic
        /\ y.task_state[x] = "INVALID" /\ OthersStay(y, z, x)
        /\ y.list["g_pendingtasks"] = z.list["g_pendingtasks"]
        /\ Running(y) = Running(z)
        /\ OrderStays(y, z, Tasks \ {x})
    BY <1>0, <1>2, <2>3, RemoveReady DEF OrderStays
  <2>5. Sound(y)
    <3>1. PendingIsLocked(y)
      BY <1>0, <2>4 DEF PendingIsLocked, SameTcbs
    <3> QED BY <3>1, <2>4 DEF Sound
  <2> QED BY <2>4, <2>5 DEF y
<1>3. CASE z.task_state[x] \in {"PENDING"} \cup BlockedStates
  <2>1. /\ Shaped(y) /\ SameTcbs(y, z) /\ y.panic = z.panic
        /\ y.list["g_readytorun"] = z.list["g_readytorun"]
        /\ z.task_state[x] # "PENDING" => y.list["g_pendingtasks"] = z.list["g_pendingtasks"]
        /\ y.task_state = [z.task_state EXCEPT ![x] = "INVALID"]
    BY <1>0, <1>3, RemoveUnready
  <2> HIDE DEF y
  <2>2. z.task_state \in [Tasks -> TaskStates]
    BY <1>0 DEF SchedStates
  <2>3. y.task_state[x] = "INVALID" /\ \A u \in Tasks \ {x} : y.task_state[u] = z.task_state[u]
    BY <2>1, <2>2
  <2>4. Running(y) = Running(z) /\ OthersStay(y, z, x) /\ OrderStays(y, z, Tasks \ {x})
    BY <2>1, <2>3 DEF Running, OthersStay, OrderStays, KeepsOrder
  <2>5. HeadRuns(y)
    BY <1>0, <1>1, <2>3, <2>4 DEF HeadRuns
  <2>6. y.list["g_pendingtasks"] # <<>> => z.list["g_pendingtasks"] # <<>>
    <3>1. CASE z.task_state[x] = "PENDING"
      <4>1. Linked(z.list["g_pendingtasks"], x)
        BY <1>0, <3>1, TaskListTable, ListNames DEF Consistent
      <4>2. ~Linked(<<>>, x)
        BY DEF Linked
      <4> QED BY <4>1, <4>2
    <3>2. CASE z.task_state[x] # "PENDING"
      BY <3>2, <2>1
    <3> QED BY <3>1, <3>2
  <2>7. Sound(y)
    BY <1>0, <2>1, <2>4, <2>5, <2>6, WellFormedIsShaped DEF Sound, PendingIsLocked, SameTcbs
  <2> QED BY <2>1, <2>3, <2>4, <2>7 DEF y
<1>4. z.task_state[x] \in {"READYTORUN", "PENDING"} \cup BlockedStates
  BY <1>0, <1>1 DEF TaskStates
<1> QED BY <1>2, <1>3, <1>4

(* A task put at the head of g_inactivetasks with a new priority.          *)
Inactive(z, x, pri) ==
  [z EXCEPT !.sched_priority[x] = pri,
            !.list["g_inactivetasks"] = dq_addfirst(@, x),
            !.task_state[x] = "INACTIVE"]

(* A task that is in no list is given a priority and put, inactive, at the *)
(* head of g_inactivetasks.                                                *)
LEMMA InactiveSound ==
  ASSUME NEW z, Sound(z), NEW x \in Tasks \ {Idle}, z.task_state[x] = "INVALID",
         NEW pri \in SCHED_PRIORITY_MIN .. SCHED_PRIORITY_MAX,
         NEW y, y = Inactive(z, x, pri)
  PROVE  /\ Sound(y) /\ SameRest(y, z) /\ y.lockcount = z.lockcount
         /\ y.task_state[x] = "INACTIVE" /\ OthersStay(y, z, x)
         /\ y.sched_priority[x] = pri
         /\ y.list["g_readytorun"] = z.list["g_readytorun"]
<1> DEFINE zp == WithPriority(z, x, pri)
           q == zp.list["g_inactivetasks"]
           r == dq_addfirst(q, x)
           st == [zp.task_state EXCEPT ![x] = "INACTIVE"]
<1>5. Shaped(z) /\ HeadRuns(z) /\ z \in SchedStates /\ PendingIsLocked(z)
  BY WellFormedIsShaped DEF Sound, Shaped
<1>6. /\ Shaped(zp) /\ Running(zp) = Running(z) /\ HeadRuns(zp)
      /\ zp.list = z.list /\ zp.task_state = z.task_state /\ zp.sched_priority[x] = pri
      /\ zp.lockcount = z.lockcount /\ SameRest(zp, z)
  <2>1. tasklist(z.task_state[x]) \notin PrioritizedLists
    BY TaskListTable, ListNames
  <2> QED BY <2>1, <1>5, UnlistedPriority
<1>7. /\ zp.sched_priority = [z.sched_priority EXCEPT ![x] = pri]
      /\ zp.timeslice = z.timeslice
  BY <1>5 DEF WithPriority, SchedStates
<1> HIDE DEF zp
<1>8. /\ q \in Seq(Tasks) /\ Distinct(q) /\ \A n \in DOMAIN q : q[n] # x
      /\ "g_inactivetasks" \in Lists
  <2>1. "g_inactivetasks" \in Lists /\ tasklist(zp.task_state[x]) # "g_inactivetasks"
    BY <1>6, TaskListTable DEF Lists
  <2>2. zp \in SchedStates /\ Consistent(zp)
    BY <1>6 DEF Shaped
  <2>3. q \in Seq(Tasks) /\ Distinct(q) /\ ~Linked(q, x)
    BY <2>1, <2>2, StateTypes DEF Consistent
  <2> QED BY <2>1, <2>3 DEF Linked
<1>9. /\ r \in Seq(Tasks) /\ Distinct(r)
      /\ \A u \in Tasks : Linked(r, u) <=> Linked(q, u) \/ u = x
  BY <1>8, AddFirstLinks
<1>10. /\ st \in [Tasks -> TaskStates] /\ st[x] = "INACTIVE"
       /\ \A u \in Tasks \ {x} : st[u] = zp.task_state[u]
  <2>1. zp.task_state \in [Tasks -> TaskStates] /\ "INACTIVE" \in TaskStates
    BY <1>6 DEF Shaped, SchedStates, TaskStates, BlockedStates
  <2> QED BY <2>1
<1> DEFINE zi == Relist(zp, "g_inactivetasks", r, st)
<1>y. y = zi
  <2>1. y = [z EXCEPT !.sched_priority = [z.sched_priority EXCEPT ![x] = pri],
                      !.list = [z.list EXCEPT !["g_inactivetasks"] = r],
                      !.task_state = st]
    BY <1>5, <1>6 DEF SchedStates, Inactive
  <2>2. zi = [zp EXCEPT !.list = [z.list EXCEPT !["g_inactivetasks"] = r], !.task_state = st]
    BY <1>6 DEF Relist
  <2>3. zp = [z EXCEPT !.sched_priority = [z.sched_priority EXCEPT ![x] = pri]]
    BY <1>5 DEF zp, WithPriority, SchedStates
  <2> QED BY <2>1, <2>2, <2>3, <1>5 DEF SchedStates
<1> HIDE DEF st, r
<1>11. /\ Shaped(zi) /\ SameTcbs(zi, zp) /\ zi.panic = zp.panic
       /\ \A m \in Lists \ {"g_inactivetasks"} : zi.list[m] = zp.list[m]
       /\ zi.task_state = st
  <2>1. /\ tasklist(st[x]) = "g_inactivetasks"
        /\ \A u \in Tasks \ {x} : tasklist(st[u]) = tasklist(zp.task_state[u])
        /\ "g_inactivetasks" \notin PrioritizedLists
        /\ zp.task_state[x] = "INVALID" /\ zp.sched_priority[x] > 0
    <3>1. pri > 0
      BY DEF SCHED_PRIORITY_MIN
    <3>2. zp.task_state[x] = "INVALID" /\ zp.sched_priority[x] > 0
      BY <3>1, <1>6
    <3>3. "g_inactivetasks" \notin PrioritizedLists
      BY DEF PrioritizedLists
    <3>4. tasklist(st[x]) = "g_inactivetasks"
      BY <1>10 DEF tasklist
    <3> QED BY <3>2, <3>3, <3>4, <1>10
  <2>2. \A u \in Tasks : Linked(r, u) <=> Linked(zp.list["g_inactivetasks"], u) \/ u = x
    BY <1>9
  <2> HIDE DEF q
  <2> QED BY <2>1, <2>2, <1>6, <1>8, <1>9, <1>10, LinkShaped
<1> HIDE DEF zi
<1>12. /\ SameRest(y, z) /\ y.lockcount = z.lockcount /\ y.sched_priority[x] = pri
       /\ y.list["g_readytorun"] = z.list["g_readytorun"]
       /\ y.list["g_pendingtasks"] = z.list["g_pendingtasks"]
       /\ Running(y) = Running(z)
  BY <1>y, <1>6, <1>11 DEF SameRest, SameTcbs, Running, Lists
<1>13. y.task_state[x] = "INACTIVE" /\ \A u \in Tasks \ {x} : y.task_state[u] = z.task_state[u]
  BY <1>y, <1>6, <1>10, <1>11
<1>14. OthersStay(y, z, x) /\ HeadRuns(y)
  BY <1>5, <1>12, <1>13 DEF OthersStay, HeadRuns
<1>15. Sound(y)
  BY <1>y, <1>5, <1>11, <1>12, <1>14, WellFormedIsShaped DEF Sound, PendingIsLocked
<1> QED BY <1>12, <1>13, <1>14, <1>15

-----------------------------------------------------------------------------
(* Every step of task_delete and task_restart keeps the invariant, and the *)
(* order of the ready tasks.                                               *)
Kept == TInv' /\ CPUKept /\ Fifo

(* The parts of a step that does not end the system.                       *)
LEMMA Assemble ==
  ASSUME IInv', ExclusiveCalls', YieldOwn(pc'), Control(pc', s'), CPUKept, Fifo
  PROVE  Kept
BY DEF Kept, TInv, PInv, YieldOwn, Control, Apart, Other, Gone, Renewed, BornValid

(* The call of t goes on, and the call of x, if x was in one, is gone.     *)
Strike(p, t, l, x) == [p EXCEPT ![t].at = l, ![x] = User]

(* Such a step, as far as the calls in progress are concerned.             *)
LEMMA Struck ==
  ASSUME IInv, NEW t \in Tasks \ {Idle}, NEW x \in Tasks \ {t}, NEW l \in Labels \ CreateLabels,
         pc[t].at # "user", pc' = Strike(pc, t, l, x)
  PROVE  /\ CallInv(pc') /\ pc'[t].at = l /\ pc'[t].tcb = pc[t].tcb /\ pc'[x] = User
         /\ \A u \in Tasks \ {t} : pc'[u] = pc[u] \/ pc'[u] = User
<1> DEFINE p1 == WithLabel(pc, t, l)
<1>1. CallInv(p1) /\ p1[t].at = l /\ p1[t].tcb = pc[t].tcb /\ \A u \in Tasks \ {t} : p1[u] = pc[u]
  BY IInvParts, CallGoto
<1>2. pc' = WithCall(p1, x, User)
  BY DEF WithLabel, WithCall, Strike
<1> HIDE DEF p1
<1>3. CallInv(pc') /\ pc'[x] = User /\ \A u \in Tasks \ {x} : pc'[u] = p1[u]
  <2>1. x \in Tasks /\ User \in Calls /\ User.at = "user" /\ User.at \in {"user"} \cup CreateLabels
    BY UserCall
  <2>2. CallInv(p1)
    BY <1>1
  <2>3. LET np == WithCall(p1, x, User)
        IN  CallInv(np) /\ np[x] = User /\ \A u \in Tasks \ {x} : np[u] = p1[u]
    BY <2>1, <2>2, CallSet
  <2> QED BY <2>3, <1>2
<1> QED BY <1>1, <1>3

(* sched_lock at the beginning of either call.                             *)
LEMMA NameStep ==
  ASSUME PInv, Control(pc, s), NEW t \in Tasks \ {Idle}, NEW x \in Tasks \ {Idle},
         NEW l \in {"delete", "restart"}, l = "delete" => x # t,
         At(t, "user"), Named(x), s' = sched_lock(s),
         pc' = [pc EXCEPT ![t] = [User EXCEPT !.at = l, !.tcb = x]]
  PROVE  Kept
<1> DEFINE c == [User EXCEPT !.at = l, !.tcb = x]
<1>1. /\ IInv /\ s.panic = {} /\ Running(s) = t /\ pc' = WithCall(pc, t, c)
      /\ Sound(s) /\ pc \in [Tasks -> Calls]
  BY IInvParts DEF PInv, At, WithCall
<1>2. /\ c \in Calls /\ c.at = l /\ c.tcb = x /\ l \in NamingLabels /\ l \in LockedLabels
      /\ l \notin {"yield", "user"} /\ (l \in NamingLabels \ {"restart"} => x # t)
  <2>1. User \in Calls /\ l \in Labels
    BY UserCall DEF Labels
  <2>2. c \in Calls /\ c.at = l /\ c.tcb = x
    BY <2>1 DEF Calls
  <2> QED BY <2>2 DEF NamingLabels, LockedLabels
<1> HIDE DEF c
<1>3. CallInv(pc') /\ pc'[t] = c /\ \A u \in Tasks \ {t} : pc'[u] = pc[u]
  <2>1. t \in Tasks /\ t # Idle /\ (c.at # "user" => c.tcb # Idle)
    BY <1>2
  <2>2. CallInv(pc) /\ c \in Calls
    BY <1>1, <1>2, IInvParts
  <2>3. LET np == WithCall(pc, t, c)
        IN  CallInv(np) /\ np[t] = c /\ \A u \in Tasks \ {t} : np[u] = pc[u]
    BY <2>1, <2>2, CallSet
  <2> QED BY <2>3, <1>1
<1>4. pc'[t].at \notin CreateLabels
  BY <1>2, <1>3, LabelSets
<1>5. /\ Sound(s') /\ s'.panic \subseteq s.panic \cup {"MAX_LOCK_COUNT"}
      /\ s'.g_pidhash = s.g_pidhash /\ UnreadyStay(s', s)
      /\ s'.init_priority = s.init_priority
      /\ s'.list = s.list /\ Running(s') = t /\ s'.lockcount[t] > 0
  BY <1>1, LockSound
<1>6. IInv'
  BY <1>1, <1>3, <1>4, <1>5, UnseenStep
<1>7. ExclusiveCalls' /\ YieldOwn(pc')
  BY <1>1, <1>2, <1>3, <1>5, OwnStep
<1>8. Fifo /\ CPUKept
  BY <1>1, <1>5, FifoSame DEF CPUKept
<1>9. Control(pc', s')
  <2>1. (\A u \in Tasks : pc[u].at \in DeletedLabels => KeptGone(pc[u].tcb)) /\ BornValid(s')
    BY <1>1, <1>5, QuietKeeps, CallTypes DEF Quiet
  <2>2. \A u \in Tasks : pc'[u].at \in CreateLabels => pc'[u].tcb # pc'[t].tcb
    BY <1>2, <1>3, <1>4 DEF Named
  <2>3. l \notin DeletedLabels /\ l # "restart_activate" /\ "release" \in DeletedLabels
    BY DEF DeletedLabels
  <2>4. /\ t \in Tasks /\ Running(s) = t
        /\ \A u \in Tasks \ {t} : pc'[u] = pc[u] \/ pc'[u] = User
        /\ pc'[t].at \in NamingLabels \ {"restart"} => pc'[t].tcb # t
        /\ pc'[t].at \notin DeletedLabels /\ pc'[t].at # "restart_activate"
    BY <1>1, <1>2, <1>3, <2>3
  <2>5. \A u \in Tasks \ {t} : pc[u].at \in DeletedLabels => KeptGone(pc[u].tcb)
    BY <2>1, <2>3
  <2> QED BY <1>4, <2>1, <2>2, <2>4, <2>5, OwnControl
<1> QED BY <1>6, <1>7, <1>8, <1>9, Assemble

(* task_delete begins.                                                     *)
LEMMA DeleteStep ==
  ASSUME PInv, Control(pc, s), NEW t \in Tasks, NEW x \in Tasks, Delete(t, x)
  PROVE  Kept
<1>1. t # Idle
  BY IdleCalls DEF Delete
<1> QED BY <1>1, NameStep DEF Delete, Makes

(* task_restart begins.                                                    *)
LEMMA RestartStep ==
  ASSUME PInv, Control(pc, s), NEW t \in Tasks, NEW x \in Tasks, Restart(t, x)
  PROVE  Kept
<1>1. t # Idle
  BY IdleCalls DEF Restart
<1> QED BY <1>1, NameStep DEF Restart, Makes

(* A failing task_restart returns; the lock stays.                         *)
LEMMA RestartFailsStep ==
  ASSUME PInv, Control(pc, s), NEW t \in Tasks, RestartFails(t)
  PROVE  Kept
<1>1. /\ IInv /\ s' = s /\ pc' = WithCall(pc, t, User) /\ Running(s) = t /\ Sound(s)
      /\ pc \in [Tasks -> Calls]
  BY IInvParts DEF PInv, RestartFails, At, Return, WithCall
<1>2. CallInv(pc') /\ pc'[t] = User /\ \A u \in Tasks \ {t} : pc'[u] = pc[u]
  BY <1>1, IInvParts, UserCall, CallSet
<1>3. pc'[t].at \notin CreateLabels \cup NamingLabels
  BY <1>2, LabelSets
<1>4. IInv'
  BY <1>1, <1>2, <1>3, SameState, UnseenStep
<1>5. ExclusiveCalls' /\ YieldOwn(pc')
  BY <1>1, <1>2, UserCall, OpenStep DEF LockedLabels
<1>6. Fifo /\ CPUKept
  BY <1>1, FifoSame DEF CPUKept
<1>7. Control(pc', s')
  <2>1. (\A u \in Tasks : pc[u].at \in DeletedLabels => KeptGone(pc[u].tcb)) /\ BornValid(s')
    BY <1>1, QuietKeeps, CallTypes DEF Quiet, UnreadyStay
  <2>2. pc'[t].at \notin DeletedLabels /\ pc'[t].at # "restart_activate" /\ "release" \in DeletedLabels
    BY <1>3, LabelSets DEF DeletedLabels, NamingLabels
  <2> QED BY <1>1, <1>2, <1>3, <2>1, <2>2, OwnControl
<1> QED BY <1>4, <1>5, <1>6, <1>7, Assemble

(* task_delete unlocks pre-emption: other tasks may run before it releases *)
(* the TCB.                                                                *)
LEMMA DeleteUnlockStep ==
  ASSUME PInv, Control(pc, s), NEW t \in Tasks, DeleteUnlock(t)
  PROVE  Kept
<1>1. /\ IInv /\ s' = sched_unlock(s) /\ pc' = WithLabel(pc, t, "release")
      /\ Goto(t, "release") /\ At(t, "delete_unlock") /\ pc[t].at = "delete_unlock"
      /\ Running(s) = t /\ Sound(s) /\ s.panic = {} /\ pc \in [Tasks -> Calls]
  BY IInvParts DEF PInv, DeleteUnlock, At, Goto, WithLabel
<1>2. Sound(s') /\ SameRest(s', s) /\ UnreadyStay(s', s)
  BY <1>1, UnlockSound
<1>3. /\ "release" \in Labels \ CreateLabels /\ "delete_unlock" \notin {"user"} \cup CreateLabels
      /\ s'.panic \subseteq {"MAX_LOCK_COUNT"} /\ s'.g_pidhash = s.g_pidhash
  BY <1>1, <1>2 DEF Labels, CreateLabels, SameRest
<1>4. IInv'
  BY <1>1, <1>2, <1>3, GotoStep
<1>5. /\ pc'[t].at = "release" /\ pc'[t].tcb = pc[t].tcb
      /\ \A u \in Tasks \ {t} : pc'[u] = pc[u]
  BY <1>1 DEF Goto, Calls
<1>6. ExclusiveCalls' /\ YieldOwn(pc')
  BY <1>1, <1>5, OpenStep DEF LockedLabels
<1>7. Fifo /\ CPUKept
  BY <1>1, <1>2, UnlockOrder
<1>8. Control(pc', s')
  <2>1. (\A u \in Tasks : pc[u].at \in DeletedLabels => KeptGone(pc[u].tcb)) /\ BornValid(s')
    BY <1>1, <1>2, QuietKeeps, CallTypes DEF Quiet, SameRest
  <2>2. /\ "release" \in DeletedLabels /\ "delete_unlock" \in DeletedLabels
        /\ "release" \notin CreateLabels /\ "release" # "restart_activate"
        /\ "delete_unlock" \in NamingLabels \ {"restart"}
    BY DEF DeletedLabels, CreateLabels, NamingLabels
  <2>3. /\ pc[t].tcb # t
        /\ \A u \in Tasks : pc[u].at \in CreateLabels => pc[u].tcb # pc[t].tcb
        /\ \A u \in Tasks \ {t} : pc[u].at \in DeletedLabels => pc[u].tcb # pc[t].tcb
    BY <1>1, <2>2 DEF Control, Other, Apart, Gone
  <2> QED BY <1>1, <1>5, <2>1, <2>2, <2>3, OwnControl
<1> QED BY <1>4, <1>6, <1>7, <1>8, Assemble

(* sched_releasetcb: the pid is free again.                                *)
LEMMA DeleteReleaseStep ==
  ASSUME PInv, Control(pc, s), NEW t \in Tasks, DeleteRelease(t)
  PROVE  Kept
<1> DEFINE x == pc[t].tcb
<1>1. /\ IInv /\ s' = sched_releasetcb(s, x) /\ pc' = WithCall(pc, t, User)
      /\ At(t, "release") /\ pc[t].at = "release"
      /\ Running(s) = t /\ Sound(s) /\ s.panic = {} /\ pc \in [Tasks -> Calls] /\ s \in SchedStates
  BY IInvParts DEF PInv, DeleteRelease, At, Return, WithCall
<1>2. /\ "release" \in DeletedLabels /\ "release" \in NamingLabels \ {"restart"}
      /\ "release" \notin {"user"} \cup CreateLabels
  BY DEF DeletedLabels, CreateLabels, NamingLabels
<1>3. /\ x \in Tasks \ {Idle} /\ x \in s.g_pidhash /\ s.task_state[x] = "INVALID"
      /\ \A u \in Tasks : pc[u].at \in CreateLabels => pc[u].tcb # x
      /\ \A u \in Tasks \ {t} : pc[u].at \in DeletedLabels => pc[u].tcb # x
  BY <1>1, <1>2, IInvParts, CallTypes DEF Control, Gone, Apart, CallInv
<1> HIDE DEF x
<1>4. /\ s'.list = s.list /\ s'.task_state = s.task_state /\ s'.sched_priority = s.sched_priority
      /\ s'.init_priority = s.init_priority /\ s'.lockcount = s.lockcount /\ s'.panic = s.panic
      /\ s'.g_pidhash = s.g_pidhash \ {x} /\ s' \in SchedStates
  BY <1>1 DEF sched_releasetcb, SchedStates
<1>5. Sound(s') /\ Running(s') = t
  <2>1. Shaped(s) /\ HeadRuns(s) /\ PendingIsLocked(s)
    BY <1>1, WellFormedIsShaped DEF Sound
  <2>2. Shaped(s') /\ Running(s') = Running(s) /\ HeadRuns(s')
    BY <2>1, <1>4, SameListsWellFormed
  <2> QED BY <2>1, <2>2, <1>1, <1>4, WellFormedIsShaped DEF Sound, PendingIsLocked
<1>6. CallInv(pc') /\ pc'[t] = User /\ \A u \in Tasks \ {t} : pc'[u] = pc[u]
  BY <1>1, IInvParts, UserCall, CallSet
<1>7. pc'[t].at \notin CreateLabels \cup NamingLabels
  BY <1>6, LabelSets
<1>8. IInv'
  <2>1. OthersStay(s', s, x) /\ s'.panic \subseteq {"MAX_LOCK_COUNT"}
    BY <1>1, <1>4 DEF OthersStay
  <2>2. \A u \in Tasks : pc'[u].at \in CreateLabels => pc'[u] = pc[u] /\ pc[u].tcb # x
    BY <1>3, <1>6, <1>7
  <2> QED BY <1>1, <1>3, <1>4, <1>5, <1>6, <2>1, <2>2, OneTaskStep
<1>9. ExclusiveCalls' /\ YieldOwn(pc')
  BY <1>1, <1>6, UserCall, OpenStep DEF LockedLabels
<1>10. Fifo /\ CPUKept
  BY <1>1, <1>4, <1>5, FifoSame DEF CPUKept
<1>11. Control(pc', s')
  <2>1. \A u \in Tasks \ {t} : pc[u].at \in DeletedLabels => KeptGone(pc[u].tcb)
    BY <1>2, <1>3, <1>4 DEF KeptGone, Control, Gone
  <2>2. BornValid(s')
    BY <1>4 DEF Control, BornValid
  <2>3. pc'[t].at \notin DeletedLabels /\ pc'[t].at # "restart_activate"
    BY <1>7, LabelSets DEF NamingLabels
  <2> QED BY <1>1, <1>6, <1>7, <2>1, <2>2, <2>3, OwnControl
<1> QED BY <1>8, <1>9, <1>10, <1>11, Assemble

(* The removal of a task that is in no list ends the system.               *)
LEMMA RemoveNothing ==
  ASSUME PInv, NEW t \in Tasks \ {Idle}, NEW x \in Tasks \ {t},
         NEW from \in {"exithook", "restart"}, At(t, from), s.task_state[x] = "INVALID",
         NEW l, l = IF from = "exithook" THEN "delete_unlock" ELSE "restart_activate",
         s' = RemoveFromList(s, x), pc' = Strike(pc, t, l, x)
  PROVE  Kept
<1>1. IInv /\ Running(s) = t /\ pc[t].at = from /\ from # "user" /\ Sound(s) /\ s.panic = {}
  BY IInvParts DEF PInv, At
<1>2. l \in Labels \ CreateLabels /\ l \notin {"yield", "unlock", "exithook"}
  BY DEF Labels, CreateLabels
<1>3. /\ CallInv(pc') /\ pc'[t].at = l /\ pc'[t].tcb = pc[t].tcb
      /\ \A u \in Tasks \ {t} : pc'[u] = pc[u] \/ pc'[u] = User
  BY <1>1, <1>2, Struck
<1>4. /\ s' = PanicUnless(s, FALSE, "NULL_LIST")
      /\ s' = [s EXCEPT !.panic = s.panic \cup {"NULL_LIST"}]
  BY DEF RemoveFromList, PanicUnless
<1>5. /\ Sound(s') /\ Running(s') = Running(s) /\ s'.list = s.list /\ s'.lockcount = s.lockcount
  <2>1. Shaped(s) /\ HeadRuns(s) /\ PendingIsLocked(s) /\ "NULL_LIST" \in Panics
    BY <1>1, WellFormedIsShaped DEF Sound, Panics
  <2>2. Shaped(s') /\ Running(s') = Running(s) /\ HeadRuns(s') /\ s'.list = s.list /\ s'.lockcount = s.lockcount
    <3>1. /\ s'.list = s.list /\ s'.task_state = s.task_state /\ s'.sched_priority = s.sched_priority
          /\ s'.init_priority = s.init_priority /\ s'.lockcount = s.lockcount /\ s' \in SchedStates
      BY <2>1, <1>4 DEF SchedStates, Shaped
    <3> QED BY <3>1, <2>1, SameListsWellFormed
  <2> QED BY <2>1, <2>2, WellFormedIsShaped DEF Sound, PendingIsLocked
<1>6. s'.panic = {"NULL_LIST"}
  BY <1>1, <1>4, IInvParts DEF SchedStates
<1>7. l \in LockedLabels => s.lockcount[t] > 0
  <2> HAVE l \in LockedLabels
  <2>1. from \in LockedLabels
    BY DEF LockedLabels
  <2> QED BY <2>1, <1>1, ExclusiveMeans DEF PInv, Protected
<1>8. ExclusiveCalls'
  <2>1. Protected(pc', t) => s'.lockcount[t] > 0
    BY <1>2, <1>3, <1>5, <1>7 DEF Protected
  <2> QED BY <2>1, <1>1, <1>2, <1>3, <1>5, OwnStep
<1>9. Halted'
  BY <1>3, <1>5, <1>6, <1>8 DEF Halted, CallInv
<1>10. Fifo /\ CPUKept
  BY <1>1, <1>5, FifoSame DEF CPUKept
<1> QED BY <1>9, <1>10 DEF Kept, TInv

(* The task a call deletes or restarts.                                    *)
LEMMA NamedTask ==
  ASSUME PInv, Control(pc, s), NEW t \in Tasks,
         NEW l \in {"delete", "exithook", "restart", "restart_activate"}, At(t, l)
  PROVE  /\ t # Idle /\ pc[t].tcb \in Tasks \ {Idle} /\ (l # "exithook" => s.lockcount[t] > 0)
         /\ IInv /\ Running(s) = t /\ pc[t].at = l /\ l # "user" /\ l \in NamingLabels
         /\ l \notin CreateLabels /\ s.panic = {} /\ Sound(s) /\ s \in SchedStates /\ pc \in [Tasks -> Calls]
         /\ \A u \in Tasks : pc[u].at \in CreateLabels => pc[u].tcb # pc[t].tcb
<1>1. /\ IInv /\ Running(s) = t /\ pc[t].at = l /\ l # "user" /\ s.panic = {} /\ Sound(s)
      /\ s \in SchedStates /\ pc \in [Tasks -> Calls]
  BY IInvParts DEF PInv, At
<1>2. l \in NamingLabels /\ (l # "exithook" => l \in LockedLabels) /\ l \notin CreateLabels
  BY DEF NamingLabels, LockedLabels, CreateLabels
<1>3. t # Idle
  BY <1>1, <1>2, IdleLabels
<1>4. pc[t].tcb \in Tasks \ {Idle}
  BY <1>1, IInvParts, CallTypes DEF CallInv
<1>5. l # "exithook" => s.lockcount[t] > 0
  BY <1>1, <1>2, ExclusiveMeans DEF PInv, Protected
<1>6. \A u \in Tasks : pc[u].at \in CreateLabels => pc[u].tcb # pc[t].tcb
  BY <1>1, <1>2 DEF Control, Apart
<1> QED BY <1>1, <1>2, <1>3, <1>4, <1>5, <1>6

(* A step that takes x out of its list on behalf of t.                     *)
LEMMA RemoveKept ==
  ASSUME PInv, Control(pc, s), NEW t \in Tasks, NEW from \in {"exithook", "restart"}, At(t, from),
         NEW x, x = pc[t].tcb, x # t, s.task_state[x] # "INVALID",
         NEW l, l = IF from = "exithook" THEN "delete_unlock" ELSE "restart_activate",
         pc' = Strike(pc, t, l, x),
         Sound(s'), s'.panic = s.panic, s'.g_pidhash = s.g_pidhash,
         s'.init_priority = s.init_priority, s'.lockcount = s.lockcount,
         Running(s') = Running(s), OthersStay(s', s, x), OrderStays(s', s, Tasks \ {x}),
         s'.task_state[x] = IF l = "delete_unlock" THEN "INVALID" ELSE "INACTIVE",
         l = "restart_activate" => s'.sched_priority[x] = s'.init_priority[x]
  PROVE  Kept
<1>1. /\ t # Idle /\ x \in Tasks \ {Idle} /\ (l = "restart_activate" => s.lockcount[t] > 0)
      /\ IInv /\ Running(s) = t /\ pc[t].at = from /\ from # "user" /\ from \in NamingLabels
      /\ s.panic = {} /\ Sound(s) /\ s \in SchedStates /\ pc \in [Tasks -> Calls]
      /\ \A u \in Tasks : pc[u].at \in CreateLabels => pc[u].tcb # x
  BY NamedTask
<1>2. /\ l \in Labels \ CreateLabels /\ l \notin {"unlock", "exithook", "yield", "user"}
      /\ l \in NamingLabels \ {"restart"} /\ (l \in LockedLabels => l = "restart_activate")
  BY DEF Labels, CreateLabels, NamingLabels, LockedLabels
<1>3. /\ CallInv(pc') /\ pc'[t].at = l /\ pc'[t].tcb = x /\ pc'[x] = User
      /\ \A u \in Tasks \ {t} : pc'[u] = pc[u] \/ pc'[u] = User
  BY <1>1, <1>2, Struck
<1>4. \A u \in Tasks : pc'[u].at \in CreateLabels => pc'[u] = pc[u] /\ pc[u].tcb # x
  BY <1>1, <1>2, <1>3, LabelSets
<1>5. x \in s.g_pidhash
  BY <1>1, ListedHasPid
<1>6. IInv'
  BY <1>1, <1>3, <1>4, <1>5, OneTaskStep
<1>7. ExclusiveCalls' /\ YieldOwn(pc')
  <2>1. Protected(pc', t) => s'.lockcount[t] > 0
    BY <1>1, <1>2, <1>3 DEF Protected
  <2> QED BY <2>1, <1>1, <1>2, <1>3, OwnStep
<1>8. s'.task_state[x] \notin {"READYTORUN", "RUNNING"}
  OBVIOUS
<1>9. Fifo /\ CPUKept
  BY <1>1, <1>8, FifoGone DEF CPUKept
<1>10. Control(pc', s')
  <2>1. \A u \in Tasks : pc[u].tcb \in Tasks
    BY <1>1, CallTypes
  <2>2. (\A u \in Tasks : pc[u].at \in DeletedLabels => KeptGone(pc[u].tcb)) /\ BornValid(s')
    BY <1>1, <2>1, OneTaskKeeps
  <2>3. \A u \in Tasks \ {t} : pc'[u].at \in DeletedLabels => pc'[u] = pc[u] /\ pc[u].at \in DeletedLabels
    BY <1>3, LabelSets
  <2>4. \A u \in Tasks : pc[u].at \in DeletedLabels => pc[u].tcb # x
    BY DEF Control, Gone
  <2>5. l \in DeletedLabels => KeptGone(x)
    BY <1>5 DEF DeletedLabels, KeptGone
  <2>6. l = "restart_activate" => s'.task_state[x] = "INACTIVE"
    OBVIOUS
  <2>7. \A u \in Tasks : pc'[u].at \in CreateLabels => pc'[u].tcb # x
    BY <1>4
  <2>8. \A u \in Tasks \ {t} : pc'[u].at \in DeletedLabels => pc'[u].tcb # x
    BY <2>3, <2>4
  <2>9. pc'[t].at = "restart_activate" =>
           /\ s'.task_state[pc'[t].tcb] = "INACTIVE"
           /\ s'.sched_priority[pc'[t].tcb] = s'.init_priority[pc'[t].tcb]
           /\ pc'[pc'[t].tcb] = User
    BY <1>3, <2>6
  <2>10. /\ pc'[t].at \in NamingLabels \ {"restart"} /\ pc'[t].at \notin CreateLabels
         /\ pc'[t].tcb # t
         /\ \A u \in Tasks : pc'[u].at \in CreateLabels => pc'[u].tcb # pc'[t].tcb
    BY <1>2, <1>3, <2>7
  <2>11. pc'[t].at \in DeletedLabels =>
           /\ KeptGone(pc'[t].tcb)
           /\ \A u \in Tasks \ {t} : pc'[u].at \in DeletedLabels => pc'[u].tcb # pc'[t].tcb
    BY <1>3, <2>5, <2>8
  <2>12. \A u \in Tasks \ {t} : pc[u].at \in DeletedLabels => KeptGone(pc[u].tcb)
    BY <2>2
  <2>13. pc'[t].at \in NamingLabels =>
            \A u \in Tasks : pc'[u].at \in CreateLabels => pc'[u].tcb # pc'[t].tcb
    BY <2>10
  <2> QED
    BY <1>1, <1>3, <2>2, <2>9, <2>10, <2>11, <2>12, <2>13, OwnControl, ZenonT(30)
<1> QED BY <1>6, <1>7, <1>9, <1>10, Assemble

(* task_delete looks the task up: it goes on to the exit hook, or fails.   *)
LEMMA DeleteFindsStep ==
  ASSUME PInv, Control(pc, s), NEW t \in Tasks, DeleteFinds(t)
  PROVE  Kept /\ s' = s
<1> DEFINE x == pc[t].tcb
           l == IF x \in s.g_pidhash THEN "exithook" ELSE "unlock"
<1>1. At(t, "delete") /\ "delete" \in {"delete", "exithook", "restart", "restart_activate"}
  BY DEF DeleteFinds
<1>2. /\ t # Idle /\ x \in Tasks \ {Idle} /\ s.lockcount[t] > 0
      /\ IInv /\ Running(s) = t /\ pc[t].at = "delete"
      /\ s.panic = {} /\ Sound(s) /\ s \in SchedStates /\ pc \in [Tasks -> Calls]
      /\ \A u \in Tasks : pc[u].at \in CreateLabels => pc[u].tcb # x
  BY <1>1, NamedTask
<1>3. x # t
  BY <1>2 DEF Control, Other, NamingLabels
<1>4. s.task_state[x] # "RUNNING"
  BY <1>2, <1>3 DEF Sound, WellFormed, HeadRuns
<1>5. s' = s /\ Goto(t, l) /\ pc' = WithLabel(pc, t, l)
  BY <1>4 DEF DeleteFinds, PanicUnless, Goto, WithLabel
<1>6. pc'[t].at = l /\ pc'[t].tcb = x /\ \A u \in Tasks \ {t} : pc'[u] = pc[u]
  BY <1>2, <1>5 DEF Goto, Calls
<1>7. l \in {"exithook", "unlock"}
  OBVIOUS
<1> HIDE DEF l, x
<1>8. IInv'
  <2>1. l \in Labels \ CreateLabels /\ "delete" \notin {"user"} \cup CreateLabels
    BY <1>7 DEF Labels, CreateLabels
  <2> QED BY <2>1, <1>1, <1>2, <1>5, SameState, GotoStep
<1>9. ExclusiveCalls' /\ YieldOwn(pc')
  BY <1>2, <1>5, <1>6, <1>7, OwnStep
<1>10. Fifo /\ CPUKept
  BY <1>2, <1>5, FifoSame DEF CPUKept
<1>11. Control(pc', s')
  <2>1. (\A u \in Tasks : pc[u].at \in DeletedLabels => KeptGone(pc[u].tcb)) /\ BornValid(s')
    BY <1>2, <1>5, QuietKeeps, CallTypes DEF Quiet, UnreadyStay
  <2>2. pc'[t].at \notin DeletedLabels \cup CreateLabels \cup {"restart_activate"}
    BY <1>6, <1>7 DEF DeletedLabels, CreateLabels
  <2>3. \A u \in Tasks : pc'[u].at \in CreateLabels => pc'[u].tcb # pc'[t].tcb
    BY <1>2, <1>6, <2>2
  <2> QED BY <1>2, <1>3, <1>6, <2>1, <2>2, <2>3, OwnControl
<1> QED BY <1>5, <1>8, <1>9, <1>10, <1>11, Assemble

(* The exit hook waits: the deleting task leaves g_readytorun.             *)
LEMMA ExitHookBlocksStep ==
  ASSUME PInv, Control(pc, s), NEW t \in Tasks, ExitHookBlocks(t)
  PROVE  Kept
<1>1. /\ At(t, "exithook") /\ "exithook" \in {"delete", "exithook", "restart", "restart_activate"}
      /\ pc[t].tcb \in SlowToClose /\ s' = up_block_task(s, t, "WAIT_SEM") /\ pc' = pc
  BY DEF ExitHookBlocks
<1>2. /\ t \in Tasks \ {Idle}
      /\ IInv /\ Running(s) = t /\ pc[t].at = "exithook"
      /\ s.panic = {} /\ Sound(s) /\ s \in SchedStates /\ pc \in [Tasks -> Calls]
      /\ \A u \in Tasks : pc[u].at \in CreateLabels => pc[u].tcb # pc[t].tcb
  BY <1>1, NamedTask
<1>3. "WAIT_SEM" \in BlockedStates /\ s.task_state[t] = "RUNNING" /\ t \in s.g_pidhash
  BY <1>2, RunningState, ListedHasPid DEF BlockedStates, WaitStates
<1>4. /\ Sound(s') /\ SameTcbs(s', s) /\ SameRest(s', s) /\ OthersStay(s', s, t)
      /\ s'.task_state[t] = "WAIT_SEM" /\ OrderStays(s', s, Tasks \ {t})
  BY <1>1, <1>2, <1>3, BlockSound
<1>5. IInv'
  <2>1. \A u \in Tasks : pc'[u].at \in CreateLabels => pc'[u] = pc[u] /\ pc[u].tcb # t
    <3> SUFFICES ASSUME NEW u \in Tasks, pc[u].at \in CreateLabels PROVE pc[u].tcb # t
      BY <1>1
    <3> QED BY <1>2, <1>3, CreatedTasks
  <2>2. CallInv(pc')
    BY <1>1, <1>2, IInvParts
  <2> QED BY <2>1, <2>2, <1>2, <1>3, <1>4, OneTaskStep DEF SameRest
<1>6. ExclusiveCalls' /\ YieldOwn(pc')
  <2>1. ~Protected(pc', t) /\ pc'[t].at # "yield"
    BY <1>1, <1>2 DEF Protected, LockedLabels
  <2> QED BY <2>1, <1>1, <1>2, OwnStep
<1>7. Fifo
  BY <1>2, <1>4, FifoGone
<1>8. CPUKept
  BY <1>2, <1>4 DEF CPUKept, GivesUp
<1>9. Control(pc', s')
  <2>1. \A u \in Tasks : pc[u].tcb \in Tasks
    BY <1>2, CallTypes
  <2>2. (\A u \in Tasks : pc[u].at \in DeletedLabels => KeptGone(pc[u].tcb)) /\ BornValid(s')
    BY <1>2, <1>3, <1>4, <2>1, OneTaskKeeps DEF SameRest
  <2>3. /\ pc'[t].at \notin DeletedLabels \cup CreateLabels \cup {"restart_activate"}
        /\ pc'[t].tcb # t
    BY <1>1, <1>2 DEF DeletedLabels, CreateLabels, Control, Other, NamingLabels
  <2>4. \A u \in Tasks : pc'[u].at \in CreateLabels => pc'[u].tcb # pc'[t].tcb
    BY <1>1, <1>2
  <2> QED BY <1>1, <1>2, <2>2, <2>3, <2>4, OwnControl
<1> QED BY <1>5, <1>6, <1>7, <1>8, <1>9, Assemble

(* task_delete removes the task, if it is still in a list.                 *)
LEMMA DeleteRemoveStep ==
  ASSUME PInv, Control(pc, s), NEW t \in Tasks, DeleteRemove(t)
  PROVE  Kept
<1> DEFINE x == pc[t].tcb
<1>1. At(t, "exithook") /\ "exithook" \in {"delete", "exithook", "restart", "restart_activate"}
  BY DEF DeleteRemove
<1>2. /\ t # Idle /\ x \in Tasks \ {Idle}
      /\ IInv /\ Running(s) = t /\ pc[t].at = "exithook"
      /\ s.panic = {} /\ Sound(s) /\ s \in SchedStates /\ pc \in [Tasks -> Calls]
  BY <1>1, NamedTask
<1>3. x # t
  BY <1>2 DEF Control, Other, NamingLabels
<1>4. s.task_state[x] # "RUNNING"
  BY <1>2, <1>3 DEF Sound, WellFormed, HeadRuns
<1>5. s' = RemoveFromList(s, x) /\ pc' = Strike(pc, t, "delete_unlock", x)
  BY DEF DeleteRemove, Strike
<1>6. x = pc[t].tcb
  OBVIOUS
<1>7. /\ "exithook" \in {"exithook", "restart"}
      /\ "delete_unlock" = IF "exithook" = "exithook" THEN "delete_unlock" ELSE "restart_activate"
      /\ "delete_unlock" # "restart_activate"
  OBVIOUS
<1> HIDE DEF x
<1>8. CASE s.task_state[x] = "INVALID"
  BY <1>1, <1>2, <1>3, <1>5, <1>7, <1>8, RemoveNothing
<1>9. CASE s.task_state[x] # "INVALID"
  <2>1. /\ Sound(s') /\ SameTcbs(s', s) /\ s'.panic = s.panic
        /\ s'.task_state[x] = "INVALID" /\ OthersStay(s', s, x)
        /\ Running(s') = Running(s)
        /\ OrderStays(s', s, Tasks \ {x})
    BY <1>2, <1>3, <1>4, <1>5, <1>9, RemoveAny
  <2> QED BY <2>1, <1>1, <1>3, <1>5, <1>6, <1>7, <1>9, RemoveKept DEF SameTcbs
<1> QED BY <1>8, <1>9

(* task_restart takes the task out of its list and makes it inactive.      *)
LEMMA RestartResetStep ==
  ASSUME PInv, Control(pc, s), NEW t \in Tasks, RestartReset(t)
  PROVE  Kept
<1> DEFINE x == pc[t].tcb
           z == RemoveFromList(s, x)
<1>1. /\ At(t, "restart") /\ "restart" \in {"delete", "exithook", "restart", "restart_activate"}
      /\ x # t /\ pc' = Strike(pc, t, "restart_activate", x)
      /\ s' = IF s.task_state[x] = "INVALID" THEN z
              ELSE [z EXCEPT !.sched_priority[x] = s.init_priority[x],
                             !.list["g_inactivetasks"] = dq_addfirst(@, x),
                             !.task_state[x] = "INACTIVE"]
  BY DEF RestartReset, Strike
<1>2. /\ t # Idle /\ x \in Tasks \ {Idle}
      /\ IInv /\ Running(s) = t /\ Sound(s) /\ s \in SchedStates
  BY <1>1, NamedTask
<1>3. x = pc[t].tcb /\ z = RemoveFromList(s, x)
  OBVIOUS
<1> HIDE DEF x
<1>4. CASE s.task_state[x] = "INVALID"
  <2>1. /\ "restart" \in {"exithook", "restart"}
        /\ "restart_activate" = IF "restart" = "exithook" THEN "delete_unlock" ELSE "restart_activate"
    OBVIOUS
  <2> QED BY <2>1, <1>1, <1>2, <1>4, RemoveNothing
<1>5. CASE s.task_state[x] # "INVALID"
  <2>1. /\ Sound(z) /\ SameTcbs(z, s) /\ z.panic = s.panic
        /\ z.task_state[x] = "INVALID" /\ OthersStay(z, s, x)
        /\ Running(z) = Running(s)
        /\ OrderStays(z, s, Tasks \ {x})
    BY <1>1, <1>2, <1>5, RemoveAny
  <2> DEFINE pri == s.init_priority[x]
  <2> HIDE DEF z
  <2>2. pri \in SCHED_PRIORITY_MIN .. SCHED_PRIORITY_MAX
    <3>1. pri > 0
      BY <1>2, <1>5 DEF Control, BornValid
    <3>2. pri \in 0 .. SCHED_PRIORITY_MAX
      BY <1>2 DEF SchedStates
    <3> QED BY <3>1, <3>2 DEF SCHED_PRIORITY_MIN, SCHED_PRIORITY_MAX
  <2>3. s' = Inactive(z, x, pri)
    BY <1>1, <1>5 DEF Inactive
  <2> HIDE DEF pri
  <2>4. /\ Sound(s') /\ SameRest(s', z) /\ s'.lockcount = z.lockcount
        /\ s'.task_state[x] = "INACTIVE" /\ OthersStay(s', z, x)
        /\ s'.sched_priority[x] = pri
        /\ s'.list["g_readytorun"] = z.list["g_readytorun"]
    BY <1>2, <2>1, <2>2, <2>3, InactiveSound
  <2>5. /\ s'.panic = s.panic /\ s'.g_pidhash = s.g_pidhash
        /\ s'.init_priority = s.init_priority /\ s'.lockcount = s.lockcount
        /\ s'.sched_priority[x] = s'.init_priority[x]
    BY <2>1, <2>4 DEF SameRest, SameTcbs, pri
  <2>6. Running(s') = Running(s) /\ OrderStays(s', s, Tasks \ {x})
    BY <2>1, <2>4 DEF Running, OrderStays
  <2>7. OthersStay(s', s, x)
    BY <2>1, <2>4 DEF OthersStay
  <2>8. /\ "restart" \in {"exithook", "restart"} /\ "restart_activate" # "delete_unlock"
        /\ "restart_activate" = IF "restart" = "exithook" THEN "delete_unlock" ELSE "restart_activate"
    OBVIOUS
  <2> QED BY <2>4, <2>5, <2>6, <2>7, <2>8, <1>1, <1>3, <1>5, RemoveKept
<1> QED BY <1>4, <1>5

(* task_activate of the restarted task.                                    *)
LEMMA RestartActivateStep ==
  ASSUME PInv, Control(pc, s), NEW t \in Tasks, RestartActivate(t)
  PROVE  /\ Kept
         /\ LET x == pc[t].tcb
            IN  /\ s'.sched_priority[x] = s.init_priority[x]
                /\ pc'[x] = User
                /\ s'.task_state[x] \in {"READYTORUN", "PENDING"}
<1> DEFINE x == pc[t].tcb
<1>1. /\ At(t, "restart_activate") /\ "restart_activate" \in {"delete", "exithook", "restart", "restart_activate"}
      /\ s' = up_unblock_task(s, x) /\ Goto(t, "unlock") /\ pc' = WithLabel(pc, t, "unlock")
  BY DEF RestartActivate, Goto, WithLabel
<1>2. /\ t # Idle /\ x \in Tasks \ {Idle} /\ s.lockcount[t] > 0
      /\ IInv /\ Running(s) = t /\ pc[t].at = "restart_activate"
      /\ s.panic = {} /\ Sound(s) /\ s \in SchedStates /\ pc \in [Tasks -> Calls]
      /\ \A u \in Tasks : pc[u].at \in CreateLabels => pc[u].tcb # x
  BY <1>1, NamedTask
<1>3. x # t /\ s.task_state[x] = "INACTIVE" /\ s.sched_priority[x] = s.init_priority[x] /\ pc[x] = User
  BY <1>2 DEF Control, Other, Renewed, NamingLabels
<1>3b. s.task_state[x] \in BlockedStates
  BY <1>3 DEF BlockedStates
<1>4. pc'[t].at = "unlock" /\ pc'[t].tcb = x /\ \A u \in Tasks \ {t} : pc'[u] = pc[u]
  BY <1>1, <1>2 DEF Goto, Calls
<1> HIDE DEF x
<1>5. /\ Sound(s') /\ SameTcbs(s', s) /\ SameRest(s', s)
      /\ OthersStay(s', s, x) /\ s'.task_state[x] \notin Unready
      /\ Running(s') = t
      /\ OrderStays(s', s, Tasks)
  BY <1>1, <1>2, <1>3b, UnblockSound
<1>6. s'.task_state[x] \in {"READYTORUN", "PENDING"}
  <2>1. s' \in SchedStates /\ HeadRuns(s')
    BY <1>5 DEF Sound, WellFormed
  <2>2. s'.task_state[x] \in TaskStates /\ s'.task_state[x] # "RUNNING"
    BY <2>1, <1>2, <1>3, <1>5, StateTypes DEF HeadRuns
  <2> QED BY <2>2, <1>5 DEF Unready, TaskStates
<1>7. CallInv(pc')
  <2>1. "unlock" \in Labels /\ pc[t].at # "user"
    BY <1>2 DEF Labels
  <2> QED BY <2>1, <1>1, <1>2, IInvParts, CallGoto
<1>8. \A u \in Tasks : pc'[u].at \in CreateLabels => pc'[u] = pc[u] /\ pc[u].tcb # x
  BY <1>2, <1>4 DEF CreateLabels
<1>9. x \in s.g_pidhash
  BY <1>2, <1>3, ListedHasPid
<1>10. IInv'
  BY <1>2, <1>5, <1>7, <1>8, <1>9, OneTaskStep DEF SameRest
<1>11. ExclusiveCalls' /\ YieldOwn(pc')
  BY <1>2, <1>4, <1>5, OwnStep DEF SameTcbs
<1>12. Fifo /\ CPUKept
  BY <1>2, <1>5, FifoAll DEF CPUKept
<1>13. Control(pc', s')
  <2>1. \A u \in Tasks : pc[u].tcb \in Tasks
    BY <1>2, CallTypes
  <2>2. (\A u \in Tasks : pc[u].at \in DeletedLabels => KeptGone(pc[u].tcb)) /\ BornValid(s')
    BY <1>2, <1>3, <1>5, <2>1, OneTaskKeeps DEF SameRest
  <2>3. /\ pc'[t].at \notin DeletedLabels \cup NamingLabels \cup CreateLabels
        /\ pc'[t].at # "restart_activate" /\ "release" \in DeletedLabels
    BY <1>4 DEF DeletedLabels, NamingLabels, CreateLabels
  <2> QED BY <1>2, <1>4, <2>2, <2>3, OwnControl
<1>14. Kept
  BY <1>10, <1>11, <1>12, <1>13, Assemble
<1>15. s'.sched_priority[x] = s.init_priority[x] /\ pc'[x] = User
  BY <1>2, <1>3, <1>4, <1>5 DEF SameTcbs
<1> QED BY <1>6, <1>14, <1>15 DEF x


-----------------------------------------------------------------------------
(* The steps of ControlSpec, all together.                                 *)

(* One step of a call of task_delete or task_restart.                      *)
LEMMA ControlStepKept ==
  ASSUME PInv, Control(pc, s), NEW t \in Tasks, ControlStep(t)
  PROVE  Kept
<1>1. CASE \E x \in Tasks : Delete(t, x) \/ Restart(t, x)
  BY <1>1, DeleteStep, RestartStep
<1>2. CASE DeleteFinds(t) \/ ExitHookBlocks(t)
  BY <1>2, DeleteFindsStep, ExitHookBlocksStep
<1>2b. CASE DeleteRemove(t) \/ DeleteUnlock(t) \/ DeleteRelease(t)
  BY <1>2b, DeleteRemoveStep, DeleteUnlockStep, DeleteReleaseStep
<1>3. CASE RestartFails(t) \/ RestartReset(t) \/ RestartActivate(t)
  BY <1>3, RestartFailsStep, RestartResetStep, RestartActivateStep
<1> QED BY <1>1, <1>2, <1>2b, <1>3 DEF ControlStep

(* Every action stops when an assertion has failed.                        *)
LEMMA StepsStop ==
  ASSUME ControlNext
  PROVE  s.panic = {}
<1>1. ASSUME NEW t \in Tasks, TaskStep(t) PROVE s.panic = {}
  BY <1>1 DEF TaskStep, Lock, Unlock, YieldRead, YieldSet, SetParam, SetScheduler, SetSchedulerLock,
     SetPolicy, SetPriority, SetParamPriority, CallUnlock, AssignPid, AssignPidUnlock, SchedSetup,
     SchedSetupUnlock, Activate, Block, Exit, Makes, At
<1>2. ASSUME NEW t \in Tasks, ControlStep(t) PROVE s.panic = {}
  BY <1>2 DEF ControlStep, Delete, Restart, DeleteFinds, ExitHookBlocks, DeleteRemove, DeleteUnlock, DeleteRelease, RestartFails,
     RestartReset, RestartActivate, Makes, At
<1> QED BY <1>1, <1>2 DEF ControlNext, Next, Unblock, Tick

(* TInv is inductive, and no step reorders the ready tasks or takes the    *)
(* CPU from a task that has pre-emption locked.                            *)
LEMMA ControlNextKept ==
  ASSUME TInv, [ControlNext]_vars
  PROVE  Kept
<1>1. CASE Halted
  <2>1. ~ControlNext
    BY <1>1, StepsStop DEF Halted
  <2>2. s' = s /\ pc' = pc /\ Sound(s)
    BY <1>1, <2>1 DEF vars, Halted
  <2>3. TInv' /\ CPUKept
    BY <1>1, <2>2 DEF TInv, Halted, ExclusiveCalls, CPUKept
  <2>4. Fifo
    BY <2>2, FifoSame
  <2> QED BY <2>3, <2>4 DEF Kept
<1>2. CASE PInv /\ Control(pc, s)
  <2>1. CASE [Next]_vars
    <3>1. PInv' /\ CPUKept /\ Fifo
      BY <1>2, <2>1, NextOrderly DEF Orderly
    <3>2. Control(pc', s')
      BY <1>2, <2>1, NextControl
    <3> QED BY <3>1, <3>2, Assemble DEF PInv, YieldOwn
  <2>2. CASE \E t \in Tasks : ControlStep(t)
    BY <1>2, <2>2, ControlStepKept
  <2> QED BY <2>1, <2>2 DEF ControlNext
<1> QED BY <1>1, <1>2 DEF TInv

(* Nobody deletes or restarts a task at the start.                         *)
LEMMA InitTInv == Init => TInv
<1> SUFFICES ASSUME Init PROVE PInv /\ Control(pc, s)
  BY DEF TInv
<1>1. \A t \in Tasks : pc[t].at \notin NamingLabels
  BY LabelSets DEF Init
<1>2. BornValid(s)
  BY DEF Init, BornValid, InitSched
<1>3. "restart_activate" \in NamingLabels /\ DeletedLabels \subseteq NamingLabels
  BY LabelSets DEF NamingLabels
<1> QED BY <1>1, <1>2, <1>3, InitPInv DEF Control, Apart, Other, Gone, Renewed

(* What the invariant gives.                                               *)
LEMMA TInvGives ==
  ASSUME TInv
  PROVE  /\ Sound(s) /\ s \in SchedStates /\ pc \in [Tasks -> Calls] /\ ExclusiveCalls
         /\ s.panic \subseteq {"MAX_LOCK_COUNT"} \/ s.panic = {"NULL_LIST"}
<1>1. CASE Halted
  BY <1>1 DEF Halted, Sound, WellFormed
<1>2. CASE PInv
  BY <1>2, IInvParts DEF PInv, SchedInv
<1> QED BY <1>1, <1>2 DEF TInv

-----------------------------------------------------------------------------
(* The promises of the scheduler, with tasks deleting and restarting each  *)
(* other at will.                                                          *)

(* The inductive invariant.                                                *)
THEOREM ControlInductive == ControlSpec => []TInv
<1>1. TInv /\ [ControlNext]_vars => TInv'
  BY ControlNextKept DEF Kept
<1> QED BY <1>1, InitTInv, PTL DEF ControlSpec

(* task_delete and task_restart leave every task in the list of its state, *)
(* the lists sorted, the idle task last, the head of g_readytorun running, *)
(* and nothing held back without a lock.                                   *)
THEOREM ControlKeepsLists ==
  ControlSpec => [](TypeOK /\ ListsConsistent /\ ListsSorted /\ IdleLast /\ OneRunning
                    /\ PendingOnlyWhileLocked)
<1>1. TInv => TypeOK /\ ListsConsistent /\ ListsSorted /\ IdleLast /\ OneRunning /\ PendingOnlyWhileLocked
  BY TInvGives DEF TypeOK, ListsConsistent, ListsSorted, IdleLast, OneRunning, PendingOnlyWhileLocked,
     Sound, WellFormed
<1> QED BY <1>1, ControlInductive, PTL

(* Priority scheduling survives task_delete and task_restart.              *)
THEOREM ControlKeepsPriorities == ControlSpec => []HighestPriorityRuns
<1>1. TInv => HighestPriorityRuns
  BY TInvGives, SoundIsByPriority
<1> QED BY <1>1, ControlInductive, PTL

(* task_restart has the CPU to itself from its sched_lock to its           *)
(* sched_unlock, as the other calls have, and task_delete has it from its  *)
(* sched_lock to the exit hook of the task; while the hook runs, as long   *)
(* as the task has no files that may be slow to close.                     *)
THEOREM ControlIsExclusive == ControlSpec => []ExclusiveCalls
<1>1. TInv => ExclusiveCalls
  BY TInvGives
<1> QED BY <1>1, ControlInductive, PTL

(* Nothing that task_delete and task_restart do takes the CPU from a task  *)
(* that has pre-emption locked.                                            *)
THEOREM ControlRespectsLocks == ControlSpec => LockKeepsCPU
<1>1. TInv /\ [ControlNext]_vars => TInv'
  BY ControlNextKept DEF Kept
<1>2. TInv /\ [ControlNext]_vars =>
        [s.lockcount[Running(s)] > 0 /\ Running(s') # Running(s) => GivesUp(Running(s))]_vars
  BY ControlNextKept DEF Kept, CPUKept
<1> QED BY <1>1, <1>2, InitTInv, PTL DEF ControlSpec, LockKeepsCPU

(* Deleting or restarting a task costs no other task its place.            *)
THEOREM ControlKeepsOrder == ControlSpec => FifoWithinPriority
<1>1. TInv /\ [ControlNext]_vars => TInv'
  BY ControlNextKept DEF Kept
<1>2. TInv /\ [ControlNext]_vars =>
        [\A t, u \in Tasks :
           /\ Ahead(s.list["g_readytorun"], t, u)
           /\ Ahead(s'.list["g_readytorun"], u, t)
           /\ s.sched_priority[t] = s.sched_priority[u]
           /\ s'.sched_priority[u] = s.sched_priority[u]
           => TurnOver(t)]_vars
  BY ControlNextKept DEF Kept, Fifo
<1> QED BY <1>1, <1>2, InitTInv, PTL DEF ControlSpec, FifoWithinPriority

(* No assertion fails, but for the two this code can reach: the lock count *)
(* at its limit, and the removal of a task that has been removed already,  *)
(* by another call or because it ended while its exit hook waited.         *)
THEOREM ControlPanics ==
  ControlSpec => [](s.panic \subseteq {"MAX_LOCK_COUNT"} \/ s.panic = {"NULL_LIST"})
<1>1. TInv => (s.panic \subseteq {"MAX_LOCK_COUNT"} \/ s.panic = {"NULL_LIST"})
  BY TInvGives
<1> QED BY <1>1, ControlInductive, PTL

(* The step of task_restart that makes the task ready again.               *)
LEMMA ActivatesRestarted ==
  ASSUME PInv, Control(pc, s), [ControlNext]_vars, NEW t \in Tasks,
         At(t, "restart_activate"), pc'[t].at = "unlock"
  PROVE  RestartActivate(t)
<1>1. /\ Running(s) = t /\ pc[t].at = "restart_activate"
      /\ "restart_activate" \in NamingLabels /\ "restart_activate" # "unlock"
  BY DEF At, NamingLabels
<1>2. pc' # pc
  BY <1>1
<1>3. \A u \in Tasks : ~TaskStep(u)
  <2> SUFFICES ASSUME NEW u \in Tasks, TaskStep(u) PROVE FALSE
    OBVIOUS
  <2>1. Running(s) = u /\ pc[u].at \notin NamingLabels
    BY StepLabels
  <2> QED BY <1>1, <2>1
<1>4. PICK u \in Tasks : ControlStep(u)
  BY <1>2, <1>3 DEF ControlNext, Next, Unblock, Tick, vars
<1>5. u = t
  BY <1>1, <1>4 DEF ControlStep, Delete, Restart, DeleteFinds, ExitHookBlocks, DeleteRemove, DeleteUnlock, DeleteRelease, RestartFails,
     RestartReset, RestartActivate, Makes, At
<1> QED BY <1>1, <1>4, <1>5 DEF ControlStep, Delete, Restart, DeleteFinds, ExitHookBlocks, DeleteRemove, DeleteUnlock, DeleteRelease,
     RestartFails, RestartReset, Makes, At

(* task_restart reinitialises: whatever interrupts do while the task is    *)
(* inactive, it becomes ready with its initial priority, at its entry      *)
(* point, and does not run before the caller is done.                      *)
THEOREM RestartedAnew == ControlSpec => RestartReinitializes
<1> DEFINE Anew == \A t \in Tasks : At(t, "restart_activate") /\ pc'[t].at = "unlock" =>
                     LET x == pc[t].tcb
                     IN  /\ s'.sched_priority[x] = s.init_priority[x]
                         /\ pc'[x] = User
                         /\ s'.task_state[x] \in {"READYTORUN", "PENDING"}
<1>1. TInv /\ [ControlNext]_vars => TInv'
  BY ControlNextKept DEF Kept
<1>2. TInv /\ [ControlNext]_vars => Anew
  <2> SUFFICES ASSUME TInv, [ControlNext]_vars, NEW t \in Tasks,
                      At(t, "restart_activate"), pc'[t].at = "unlock"
               PROVE  LET x == pc[t].tcb
                      IN  /\ s'.sched_priority[x] = s.init_priority[x]
                          /\ pc'[x] = User
                          /\ s'.task_state[x] \in {"READYTORUN", "PENDING"}
    OBVIOUS
  <2>1. PInv /\ Control(pc, s)
    BY DEF TInv, Halted, At
  <2>2. RestartActivate(t)
    BY <2>1, ActivatesRestarted
  <2> QED BY <2>1, <2>2, RestartActivateStep
<1>3. TInv /\ [ControlNext]_vars => [Anew]_vars
  BY <1>2
<1> QED BY <1>1, <1>3, InitTInv, PTL DEF ControlSpec, RestartReinitializes


-----------------------------------------------------------------------------
(* No assertion fails.  What it takes: a task that exits has released      *)
(* pre-emption; the nesting of locks in a program, with the locks its      *)
(* calls and an exit add, stays below MAX_LOCK_COUNT; and one task deletes *)
(* and restarts the others, which do not create tasks themselves and do    *)
(* not exit when they have files that may be slow to close.  With two such *)
(* tasks, with a creator deleted in the middle of its task_create, or with *)
(* a task that ends while its exit hook waits on behalf of task_delete,    *)
(* task_delete comes to remove a task that is in no list.                  *)
ExitsUnlocked == \A t \in Tasks : "exit_locked" \notin Workload[t]
ShallowLocks  == MaxNest + 4 <= MAX_LOCK_COUNT
Controls(t)   == Workload[t] \cap {"delete", "restart"} # {}
NoController  == \A t \in Tasks : ~Controls(t)
OneController ==
  /\ \A t \in Tasks \ {Idle} : "create" \notin Workload[t]
  /\ \A t, u \in Tasks : Controls(t) /\ Controls(u) => t = u
  /\ \A t \in SlowToClose : "exit" \notin Workload[t]

Careful == ExitsUnlocked /\ ShallowLocks /\ (NoController \/ OneController)

(* Calls in which the task holds one lock more than its program took;      *)
(* calls that have given a task its pid and no list yet; and those that    *)
(* account for a task that has a pid and is in no list.                    *)
HoldLabels == LockedLabels \cup {"exithook", "delete_unlock", "unlock"}
Setup      == {"assignpid_unlock", "schedsetup_lock"}
Tallied    == Setup \cup DeletedLabels

(* A task holds at most MaxNest locks, one that a failing task_restart has *)
(* left behind, and one of the call it is in.                              *)
Limits(p, z) ==
  /\ \A t \in Tasks : z.lockcount[t] <= MaxNest + 2
  /\ \A t \in Tasks : z.task_state[t] # "INVALID" /\ p[t].at \notin HoldLabels =>
                        z.lockcount[t] <= MaxNest + 1
  /\ \A t \in Tasks : p[t].at \in Setup => z.lockcount[p[t].tcb] <= MaxNest + 1
  /\ \A t \in Tasks : p[t].at = "restart" =>
                        z.lockcount[t] <= MaxNest + 1 /\ z.lockcount[p[t].tcb] <= MaxNest + 1

(* A call in progress is one that the program of the task makes.           *)
Programs(p, z) ==
  \A t \in Tasks :
    /\ p[t].at \in CreateLabels => "create" \in Workload[t]
    /\ p[t].at \in {"delete", "exithook"} \cup DeletedLabels => "delete" \in Workload[t]
    /\ p[t].at = "restart" => "restart" \in Workload[t] \/ p[t].tcb = t \/ p[t].tcb \notin z.g_pidhash

(* A task that is in no list is in no call.                                *)
Ended(p, z) == \A x \in Tasks : z.task_state[x] = "INVALID" => p[x].at = "user"

(* A task that has a pid and is in no list is being created or deleted.    *)
Accounted(p, z) ==
  \A x \in z.g_pidhash : z.task_state[x] = "INVALID" =>
    \E u \in Tasks : p[u].tcb = x /\ p[u].at \in Tallied

(* A task whose exit hook runs on behalf of task_delete keeps its pid: it  *)
(* does not end by itself, and nobody else deletes it.                     *)
Found(p, z) == \A t \in Tasks : p[t].at = "exithook" => p[t].tcb \in z.g_pidhash

Counts(p, z) ==
  /\ Limits(p, z) /\ Programs(p, z) /\ Ended(p, z)
  /\ OneController => Accounted(p, z) /\ Found(p, z)

(* The inductive invariant.                                                *)
NInv == PInv /\ Control(pc, s) /\ s.panic = {} /\ Counts(pc, s)

(* What is known at a step of the running task.                            *)
LEMMA NInvParts ==
  ASSUME NInv
  PROVE  /\ PInv /\ Control(pc, s) /\ IInv /\ Sound(s) /\ s \in SchedStates /\ pc \in [Tasks -> Calls]
         /\ s.panic = {} /\ Limits(pc, s) /\ Programs(pc, s) /\ Ended(pc, s)
         /\ OneController => Accounted(pc, s) /\ Found(pc, s)
         /\ MaxNest \in Nat /\ \A u \in Tasks : s.lockcount[u] \in Nat
         /\ Running(s) \in Tasks /\ s.task_state[Running(s)] = "RUNNING"
BY IInvParts, RunningState, InputsAssumption DEF NInv, PInv, Counts, SchedStates

(* The calls in progress of the tasks other than the running one.          *)
LEMMA OthersWait ==
  ASSUME PInv, NEW t \in Tasks, Running(s) = t, NEW u \in Tasks \ {t}
  PROVE  pc[u].at \notin LockedLabels
BY ExclusiveMeans DEF PInv, Protected

(* The invariant is about the state and the calls, so a step that leaves   *)
(* no assertion failed only has to keep the counts.                        *)
LEMMA CountsSuffice ==
  ASSUME NInv, [ControlNext]_vars, s'.panic = {}, Counts(pc', s')
  PROVE  NInv'
<1>1. TInv'
  BY ControlNextKept DEF NInv, TInv, Kept
<1>2. ~Halted'
  BY DEF Halted
<1>3. PInv' /\ Control(pc', s')
  BY <1>1, <1>2 DEF TInv, Control, Apart, Other, Gone, Renewed, BornValid
<1> QED BY <1>3 DEF NInv, Counts, Limits, Programs, Ended, Accounted, Found

(* A step that changes the lock count of the running task at most, and     *)
(* neither the pids nor which tasks are in no list.                        *)
Mild(t) ==
  /\ s'.panic = {} /\ s'.g_pidhash = s.g_pidhash
  /\ \A u \in Tasks : s'.task_state[u] = "INVALID" <=> s.task_state[u] = "INVALID"
  /\ \A u \in Tasks \ {t} : s'.lockcount[u] = s.lockcount[u]

(* The call of the running task goes on, begins or ends, without one more  *)
(* or one less task that is in no list to account for.                     *)
Calm(t) ==
  /\ \A u \in Tasks \ {t} : pc'[u] = pc[u]
  /\ pc'[t].at \in Setup => pc[t].at \in Setup /\ pc'[t].tcb = pc[t].tcb
  /\ pc[t].at \in Tallied => pc'[t].at \in Tallied /\ pc'[t].tcb = pc[t].tcb
  /\ pc'[t].at \in CreateLabels => pc[t].at \in CreateLabels
  /\ pc'[t].at \in {"delete", "exithook"} \cup DeletedLabels => "delete" \in Workload[t]
  /\ pc'[t].at = "exithook" => pc'[t].tcb \in s.g_pidhash

(* Such a step, in the bounds of the lock counts.                          *)
LEMMA MildStep ==
  ASSUME NInv, NEW t \in Tasks, Running(s) = t, Mild(t), Calm(t),
         s'.lockcount[t] <= MaxNest + 2,
         pc'[t].at \notin HoldLabels => s'.lockcount[t] <= MaxNest + 1,
         pc'[t].at = "restart" =>
           /\ s'.lockcount[t] <= MaxNest + 1 /\ s'.lockcount[pc'[t].tcb] <= MaxNest + 1
           /\ "restart" \in Workload[t] \/ pc'[t].tcb = t \/ pc'[t].tcb \notin s.g_pidhash
  PROVE  Counts(pc', s')
<1>1. /\ \A u \in Tasks \ {t} : pc'[u] = pc[u] /\ s'.lockcount[u] = s.lockcount[u]
      /\ \A u \in Tasks : s'.task_state[u] = "INVALID" <=> s.task_state[u] = "INVALID"
      /\ s'.g_pidhash = s.g_pidhash
  BY DEF Mild, Calm
<1>2. /\ Limits(pc, s) /\ Programs(pc, s) /\ Ended(pc, s) /\ (OneController => Accounted(pc, s) /\ Found(pc, s))
      /\ s.task_state[t] # "INVALID" /\ IInv /\ PInv /\ pc \in [Tasks -> Calls]
      /\ MaxNest \in Nat
  BY NInvParts
<1>3. \A u \in Tasks : pc[u].at \in Setup => pc[u].tcb \in Tasks \ {t}
  <2> TAKE u \in Tasks
  <2> HAVE pc[u].at \in Setup
  <2>1. pc[u].tcb \in Tasks /\ s.task_state[pc[u].tcb] = "INVALID"
    BY <1>2, IInvParts, CallTypes DEF CreateInv, Setup, CreateLabels
  <2> QED BY <2>1, <1>2
<1>4. \A u \in Tasks \ {t} : pc[u].at # "restart"
  BY <1>2, OthersWait DEF LockedLabels
<1>5. Limits(pc', s')
  <2>1. \A u \in Tasks : s'.lockcount[u] <= MaxNest + 2
    BY <1>1, <1>2 DEF Limits
  <2>2. \A u \in Tasks : s'.task_state[u] # "INVALID" /\ pc'[u].at \notin HoldLabels =>
                           s'.lockcount[u] <= MaxNest + 1
    BY <1>1, <1>2 DEF Limits
  <2>3. \A u \in Tasks : pc'[u].at \in Setup => s'.lockcount[pc'[u].tcb] <= MaxNest + 1
    <3> TAKE u \in Tasks
    <3> HAVE pc'[u].at \in Setup
    <3>1. pc[u].at \in Setup /\ pc'[u].tcb = pc[u].tcb
      BY <1>1 DEF Calm
    <3>2. pc[u].tcb \in Tasks \ {t} /\ s.lockcount[pc[u].tcb] <= MaxNest + 1
      BY <3>1, <1>2, <1>3 DEF Limits
    <3> QED BY <3>1, <3>2, <1>1
  <2>4. \A u \in Tasks : pc'[u].at = "restart" =>
                           s'.lockcount[u] <= MaxNest + 1 /\ s'.lockcount[pc'[u].tcb] <= MaxNest + 1
    BY <1>1, <1>4
  <2> QED BY <2>1, <2>2, <2>3, <2>4 DEF Limits
<1>6. Programs(pc', s')
  BY <1>1, <1>2, <1>4 DEF Programs, Calm
<1>7. Ended(pc', s')
  BY <1>1, <1>2 DEF Ended
<1>8. ASSUME OneController PROVE Accounted(pc', s') /\ Found(pc', s')
  <2>0. Found(pc', s')
    BY <1>1, <1>2, <1>8 DEF Found, Calm
  <2> SUFFICES ASSUME NEW x \in s.g_pidhash, s'.task_state[x] = "INVALID"
               PROVE  \E u \in Tasks : pc'[u].tcb = x /\ pc'[u].at \in Tallied
    BY <1>1, <2>0 DEF Accounted
  <2>1. x \in Tasks /\ s.task_state[x] = "INVALID"
    BY <1>1, <1>2, NInvParts DEF SchedStates
  <2>2. PICK u \in Tasks : pc[u].tcb = x /\ pc[u].at \in Tallied
    BY <2>1, <1>2, <1>8 DEF Accounted
  <2> QED BY <2>2, <1>1 DEF Calm
<1> QED BY <1>5, <1>6, <1>7, <1>8 DEF Counts


(* sched_lock by a task that is in no call, or holds no lock of its call   *)
(* yet.                                                                    *)
LEMMA LockMild ==
  ASSUME NInv, Careful, NEW t \in Tasks, Running(s) = t, NEW n \in {MaxNest, MaxNest + 1},
         s.lockcount[t] <= n, s' = sched_lock(s)
  PROVE  Mild(t) /\ s'.lockcount[t] \in Nat /\ s'.lockcount[t] <= n + 1
<1>1. /\ Sound(s) /\ Shaped(s) /\ s.panic = {} /\ s.lockcount[t] \in Nat /\ MaxNest \in Nat
  BY NInvParts, WellFormedIsShaped DEF Sound
<1>2. s.lockcount[Running(s)] < MAX_LOCK_COUNT
  BY <1>1, BoundsAssumption DEF Careful, ShallowLocks
<1>3. /\ s'.panic = s.panic /\ s'.g_pidhash = s.g_pidhash /\ s'.task_state = s.task_state
      /\ s'.lockcount[t] = s.lockcount[t] + 1
      /\ \A u \in Tasks \ {t} : s'.lockcount[u] = s.lockcount[u]
  BY <1>1, <1>2, LockShaped
<1> QED BY <1>1, <1>3 DEF Mild

(* sched_unlock.                                                           *)
LEMMA UnlockMild ==
  ASSUME NInv, NEW t \in Tasks, Running(s) = t, s' = sched_unlock(s)
  PROVE  Mild(t) /\ s'.lockcount[t] \in Nat /\ s'.lockcount[t] <= MaxNest + 1
<1>1. Sound(s) /\ s.panic = {} /\ s.lockcount[t] \in Nat /\ MaxNest \in Nat /\ s.lockcount[t] <= MaxNest + 2
  BY NInvParts DEF Limits
<1>2. /\ SameRest(s', s) /\ UnreadyStay(s', s)
      /\ s'.lockcount[t] = IF s.lockcount[t] > 0 THEN s.lockcount[t] - 1 ELSE 0
      /\ \A u \in Tasks \ {t} : s'.lockcount[u] = s.lockcount[u]
  BY <1>1, UnlockSound
<1>3. \A u \in Tasks : s'.task_state[u] = "INVALID" <=> s.task_state[u] = "INVALID"
  BY <1>2, UnreadyStates DEF UnreadyStay
<1> QED BY <1>1, <1>2, <1>3 DEF Mild, SameRest

(* The operations that leave the lock counts alone.                        *)
LEMMA SameMild ==
  ASSUME NInv, NEW t \in Tasks, s'.lockcount = s.lockcount, s'.panic = s.panic,
         s'.g_pidhash = s.g_pidhash,
         \/ UnreadyStay(s', s)
         \/ \E d \in Tasks : s.task_state[d] # "INVALID" /\ s'.task_state[d] # "INVALID" /\ OthersStay(s', s, d)
  PROVE  Mild(t)
<1>1. \A u \in Tasks : s'.task_state[u] = "INVALID" <=> s.task_state[u] = "INVALID"
  BY UnreadyStates DEF UnreadyStay, OthersStay
<1> QED BY <1>1 DEF Mild, NInv

(* A running task that is in no call, or not between its lock and unlock.  *)
LEMMA FewLocks ==
  ASSUME NInv, NEW t \in Tasks, Running(s) = t
  PROVE  /\ s.lockcount[t] <= MaxNest + 2
         /\ pc[t].at \notin HoldLabels => s.lockcount[t] <= MaxNest + 1
BY NInvParts DEF Limits

(* The labels of a call that goes on at the label l.                       *)
LEMMA GotoCalm ==
  ASSUME NInv, NEW t \in Tasks, NEW from, pc[t].at = from, NEW l, Goto(t, l),
         l \in Setup => from \in Setup,
         from \in Tallied => l \in Tallied,
         l \in CreateLabels => from \in CreateLabels,
         l \in {"delete", "exithook"} \cup DeletedLabels => "delete" \in Workload[t],
         l = "exithook" => pc[t].tcb \in s.g_pidhash
  PROVE  Calm(t) /\ pc'[t].at = l /\ pc'[t].tcb = pc[t].tcb
<1>1. pc \in [Tasks -> Calls]
  BY NInvParts
<1>2. pc'[t].at = l /\ pc'[t].tcb = pc[t].tcb /\ \A u \in Tasks \ {t} : pc'[u] = pc[u]
  BY <1>1 DEF Goto, Calls
<1> QED BY <1>2 DEF Calm

(* The labels of a call that returns.                                      *)
LEMMA ReturnCalm ==
  ASSUME NInv, NEW t \in Tasks, pc[t].at \notin Tallied, Return(t)
  PROVE  Calm(t) /\ pc'[t].at = "user"
<1>1. pc'[t] = User /\ \A u \in Tasks \ {t} : pc'[u] = pc[u]
  BY NInvParts DEF Return
<1>2. User.at = "user" /\ "user" \notin Setup \cup CreateLabels \cup {"delete", "exithook"} \cup DeletedLabels
  BY DEF User, Setup, CreateLabels, DeletedLabels
<1> QED BY <1>1, <1>2 DEF Calm

(* The labels of a call that begins, other than task_create.               *)
LEMMA CallCalm ==
  ASSUME NInv, NEW t \in Tasks, pc[t].at = "user", NEW c, pc' = [pc EXCEPT ![t] = c],
         c.at \notin CreateLabels \cup {"exithook"},
         c.at \in {"delete", "exithook"} \cup DeletedLabels => "delete" \in Workload[t]
  PROVE  Calm(t) /\ pc'[t] = c
<1>1. pc'[t] = c /\ \A u \in Tasks \ {t} : pc'[u] = pc[u]
  BY NInvParts
<1>2. "user" \notin Tallied /\ Setup \subseteq CreateLabels
  BY DEF Tallied, Setup, DeletedLabels, CreateLabels
<1> QED BY <1>1, <1>2 DEF Calm


(* The steps of the running task that start or end no task.                *)
LEMMA LockCounts ==
  ASSUME NInv, Careful, NEW t \in Tasks, Lock(t) \/ Unlock(t)
  PROVE  s'.panic = {} /\ Counts(pc', s')
<1>1. /\ Running(s) = t /\ pc[t].at = "user" /\ pc' = pc
      /\ "user" \notin HoldLabels \cup Setup \cup Tallied \cup CreateLabels \cup {"delete", "exithook"} \cup DeletedLabels
  BY DEF Lock, Unlock, Makes, At, HoldLabels, LockedLabels, Setup, Tallied, CreateLabels, DeletedLabels
<1>2. Calm(t)
  BY <1>1 DEF Calm
<1>3. Mild(t) /\ s'.lockcount[t] \in Nat /\ s'.lockcount[t] <= MaxNest + 1
  <2>1. CASE Lock(t)
    <3>1. s.lockcount[t] <= MaxNest /\ s' = sched_lock(s)
      <4>1. s.lockcount[t] < MaxNest /\ s.lockcount[t] \in Nat /\ MaxNest \in Nat
        BY <2>1, NInvParts DEF Lock
      <4> QED BY <4>1, <2>1 DEF Lock
    <3> QED BY <3>1, <1>1, LockMild
  <2>2. CASE Unlock(t)
    BY <2>2, <1>1, UnlockMild DEF Unlock
  <2> QED BY <2>1, <2>2
<1>4. s'.lockcount[t] <= MaxNest + 2
  BY <1>3, NInvParts
<1> QED BY <1>1, <1>2, <1>3, <1>4, MildStep DEF Mild

(* A call begins without a lock: sched_yield, sched_setscheduler.          *)
LEMMA UnlockedCallCounts ==
  ASSUME NInv, NEW t \in Tasks,
         \/ YieldRead(t)
         \/ \E x \in Tasks, pri \in SetPriorities, rr \in BOOLEAN : SetScheduler(t, x, pri, rr)
  PROVE  s'.panic = {} /\ Counts(pc', s')
<1>1. PICK c : /\ Running(s) = t /\ pc[t].at = "user" /\ s' = s
               /\ pc' = [pc EXCEPT ![t] = c] /\ c.at \in {"yield", "setscheduler_lock"}
  <2>1. CASE YieldRead(t)
    <3> DEFINE c == [User EXCEPT !.at = "yield", !.tcb = t, !.pri = s.sched_priority[t]]
    <3>1. c.at = "yield"
      BY DEF User
    <3>2. Running(s) = t /\ pc[t].at = "user" /\ s' = s /\ pc' = [pc EXCEPT ![t] = c]
      BY <2>1 DEF YieldRead, Makes, At
    <3> HIDE DEF c
    <3> QED BY <3>1, <3>2
  <2>2. ASSUME NEW x \in Tasks, NEW pri \in SetPriorities, NEW rr \in BOOLEAN, SetScheduler(t, x, pri, rr)
        PROVE  \E c : /\ Running(s) = t /\ pc[t].at = "user" /\ s' = s
                      /\ pc' = [pc EXCEPT ![t] = c] /\ c.at \in {"yield", "setscheduler_lock"}
    <3> DEFINE c == [at |-> "setscheduler_lock", tcb |-> x, pri |-> pri, rr |-> rr]
    <3>1. c.at = "setscheduler_lock"
      OBVIOUS
    <3>2. Running(s) = t /\ pc[t].at = "user" /\ s' = s /\ pc' = [pc EXCEPT ![t] = c]
      BY <2>2 DEF SetScheduler, Makes, At
    <3> HIDE DEF c
    <3> QED BY <3>1, <3>2
  <2> QED BY <2>1, <2>2
<1>2. c.at \notin CreateLabels \cup {"delete", "exithook"} \cup DeletedLabels \cup {"restart"}
  BY <1>1 DEF CreateLabels, DeletedLabels
<1>3. Calm(t) /\ pc'[t].at = c.at
  BY <1>1, <1>2, CallCalm
<1>4. Mild(t)
  BY <1>1, SameMild DEF UnreadyStay
<1>5. s'.lockcount[t] <= MaxNest + 2 /\ s'.lockcount[t] <= MaxNest + 1
  <2>1. pc[t].at \notin HoldLabels
    BY <1>1 DEF HoldLabels, LockedLabels
  <2> QED BY <2>1, <1>1, FewLocks
<1> QED BY <1>1, <1>2, <1>3, <1>4, <1>5, MildStep DEF Mild

(* A call begins with sched_lock.                                          *)
LEMMA LockedCallCounts ==
  ASSUME NInv, Careful, NEW t \in Tasks, NEW x \in Tasks, NEW c,
         At(t, "user"), c.tcb = x, c.at \in {"setparam", "delete", "restart"},
         c.at = "delete" => "delete" \in Workload[t],
         c.at = "restart" =>
           /\ s.lockcount[t] <= MaxNest /\ s.lockcount[x] <= MaxNest
           /\ "restart" \in Workload[t] \/ x = t \/ x \notin s.g_pidhash,
         s' = sched_lock(s), pc' = [pc EXCEPT ![t] = c]
  PROVE  s'.panic = {} /\ Counts(pc', s')
<1>1. Running(s) = t /\ pc[t].at = "user" /\ pc[t].at \notin HoldLabels
  BY DEF At, HoldLabels, LockedLabels
<1>2. c.at \notin CreateLabels \cup DeletedLabels
  BY DEF CreateLabels, DeletedLabels
<1>3. Calm(t) /\ pc'[t] = c
  BY <1>1, <1>2, CallCalm
<1>4. s.lockcount[t] <= MaxNest + 1 /\ MaxNest \in Nat /\ s.lockcount[x] \in Nat
  BY <1>1, FewLocks, NInvParts
<1>5. Mild(t) /\ s'.lockcount[t] <= MaxNest + 2
  BY <1>1, <1>4, LockMild
<1>6. c.at = "restart" => s'.lockcount[t] <= MaxNest + 1 /\ s'.lockcount[x] <= MaxNest + 1
  <2> SUFFICES ASSUME c.at = "restart"
               PROVE  s'.lockcount[t] <= MaxNest + 1 /\ s'.lockcount[x] <= MaxNest + 1
    OBVIOUS
  <2>1. s'.lockcount[t] <= MaxNest + 1
    BY <1>1, LockMild
  <2>2. x # t => s'.lockcount[x] <= MaxNest + 1
    BY <1>4, <1>5 DEF Mild
  <2> QED BY <2>1, <2>2
<1>7. c.at \in HoldLabels
  BY DEF HoldLabels, LockedLabels
<1>8. pc'[t].at = "restart" =>
        /\ s'.lockcount[t] <= MaxNest + 1 /\ s'.lockcount[pc'[t].tcb] <= MaxNest + 1
        /\ "restart" \in Workload[t] \/ pc'[t].tcb = t \/ pc'[t].tcb \notin s.g_pidhash
  BY <1>3, <1>6
<1>9. Counts(pc', s')
  BY <1>1, <1>3, <1>5, <1>7, <1>8, MildStep, ZenonT(30)
<1> QED BY <1>5, <1>9 DEF Mild

(* sched_setscheduler's sched_lock.                                        *)
LEMMA SetSchedulerLockCounts ==
  ASSUME NInv, Careful, NEW t \in Tasks, SetSchedulerLock(t)
  PROVE  s'.panic = {} /\ Counts(pc', s')
<1>1. /\ Running(s) = t /\ pc[t].at = "setscheduler_lock" /\ Goto(t, "policy") /\ s' = sched_lock(s)
      /\ "setscheduler_lock" \notin HoldLabels \cup Tallied
      /\ "policy" \notin Setup \cup CreateLabels \cup DeletedLabels \cup {"delete", "restart"}
      /\ "policy" \in HoldLabels
  BY DEF SetSchedulerLock, At, HoldLabels, LockedLabels, Tallied, Setup, CreateLabels, DeletedLabels
<1>2. Calm(t) /\ pc'[t].at = "policy"
  BY <1>1, GotoCalm
<1>3. Mild(t) /\ s'.lockcount[t] <= MaxNest + 2
  <2>1. s.lockcount[t] <= MaxNest + 1 /\ MaxNest \in Nat
    BY <1>1, FewLocks, NInvParts
  <2> QED BY <1>1, <2>1, LockMild
<1> QED BY <1>1, <1>2, <1>3, MildStep DEF Mild

(* A call unlocks.                                                         *)
LEMMA UnlockCounts ==
  ASSUME NInv, NEW t \in Tasks,
         CallUnlock(t) \/ AssignPidUnlock(t) \/ SchedSetupUnlock(t) \/ DeleteUnlock(t)
  PROVE  s'.panic = {} /\ Counts(pc', s')
<1>1. Running(s) = t /\ s' = sched_unlock(s)
  BY DEF CallUnlock, AssignPidUnlock, SchedSetupUnlock, DeleteUnlock, At
<1>2. Mild(t) /\ s'.lockcount[t] <= MaxNest + 1 /\ s'.lockcount[t] <= MaxNest + 2
  BY <1>1, UnlockMild, NInvParts
<1>3. Calm(t) /\ pc'[t].at # "restart"
  <2>1. CASE CallUnlock(t)
    <3>1. pc[t].at \notin Tallied /\ Return(t)
      BY <2>1 DEF CallUnlock, At, Tallied, Setup, DeletedLabels
    <3> QED BY <3>1, ReturnCalm
  <2>2. CASE AssignPidUnlock(t)
    <3>1. /\ pc[t].at = "assignpid_unlock" /\ Goto(t, "schedsetup_lock")
          /\ "schedsetup_lock" \in Tallied /\ "assignpid_unlock" \in Setup /\ "assignpid_unlock" \in CreateLabels
          /\ "schedsetup_lock" \notin {"delete", "exithook", "restart"} \cup DeletedLabels
      BY <2>2 DEF AssignPidUnlock, At, Tallied, Setup, DeletedLabels, CreateLabels
    <3> QED BY <3>1, GotoCalm
  <2>3. CASE SchedSetupUnlock(t)
    <3>1. /\ pc[t].at = "schedsetup_unlock" /\ Goto(t, "activate")
          /\ "schedsetup_unlock" \notin Tallied /\ "schedsetup_unlock" \in CreateLabels
          /\ "activate" \notin {"delete", "exithook", "restart"} \cup DeletedLabels \cup Setup
      BY <2>3 DEF SchedSetupUnlock, At, Tallied, Setup, DeletedLabels, CreateLabels
    <3> QED BY <3>1, GotoCalm
  <2>4. CASE DeleteUnlock(t)
    <3>1. /\ pc[t].at = "delete_unlock" /\ Goto(t, "release")
          /\ "release" \in Tallied /\ "delete_unlock" \in DeletedLabels
          /\ "release" \notin {"restart"} \cup CreateLabels \cup Setup
      BY <2>4 DEF DeleteUnlock, At, Tallied, Setup, DeletedLabels, CreateLabels
    <3>2. "delete" \in Workload[t]
      BY <3>1, NInvParts DEF Programs
    <3> QED BY <3>1, <3>2, GotoCalm
  <2> QED BY <2>1, <2>2, <2>3, <2>4
<1> QED BY <1>1, <1>2, <1>3, MildStep DEF Mild


(* A step in the middle of a call that leaves the lock counts alone.       *)
LEMMA MiddleCounts ==
  ASSUME NInv, NEW t \in Tasks,
         SetParamPriority(t) \/ SetPolicy(t) \/ SetPriority(t) \/ RestartActivate(t)
  PROVE  s'.panic = {} /\ Counts(pc', s')
<1>1. /\ Running(s) = t /\ pc[t].at \in {"setparam", "policy", "setpriority", "restart_activate"}
      /\ Goto(t, "setpriority") \/ Goto(t, "unlock")
  BY DEF SetParamPriority, SetPolicy, SetPriority, RestartActivate, At
<1>2. /\ pc[t].at \notin Tallied
      /\ \A l \in {"setpriority", "unlock"} :
           l \in HoldLabels /\ l \notin Setup \cup CreateLabels \cup {"delete", "exithook", "restart"} \cup DeletedLabels
  BY <1>1 DEF Tallied, Setup, DeletedLabels, CreateLabels, HoldLabels, LockedLabels
<1>3. Calm(t) /\ pc'[t].at \in {"setpriority", "unlock"}
  <2>1. PICK l \in {"setpriority", "unlock"} : Goto(t, l)
    BY <1>1
  <2> QED BY <2>1, <1>1, <1>2, GotoCalm
<1>4. /\ Sound(s) /\ IInv /\ s \in SchedStates /\ pc \in [Tasks -> Calls] /\ s.panic = {}
      /\ pc[t].tcb \in Tasks \ {Idle} /\ pc[t].pri \in Int
  <2>1. pc[t].at # "user" /\ IInv
    BY <1>1, NInvParts
  <2> QED BY <2>1, NInvParts, IInvParts, CallTypes DEF CallInv
<1>5. Mild(t) /\ s'.lockcount = s.lockcount
  <2>1. CASE s' = s
    BY <2>1, SameMild DEF UnreadyStay
  <2>2. CASE s' = sched_setpriority(s, pc[t].tcb, pc[t].pri)
    <3>1. SameRest(s', s) /\ UnreadyStay(s', s) /\ s'.lockcount = s.lockcount
      BY <2>2, <1>4, SetPrioritySound
    <3> QED BY <3>1, SameMild DEF SameRest
  <2>3. CASE SetPolicy(t)
    <3>1. /\ s'.g_pidhash = s.g_pidhash /\ s'.task_state = s.task_state
          /\ s'.lockcount = s.lockcount /\ s'.panic = s.panic
      BY <2>3, <1>4 DEF SetPolicy, SchedStates
    <3> QED BY <3>1, SameMild DEF UnreadyStay
  <2>4. CASE RestartActivate(t)
    <3>1. s' = up_unblock_task(s, pc[t].tcb) /\ pc[t].at = "restart_activate"
      BY <2>4 DEF RestartActivate, At
    <3>2. s.task_state[pc[t].tcb] = "INACTIVE" /\ s.task_state[pc[t].tcb] \in BlockedStates
      BY <3>1, NInvParts DEF Control, Renewed, BlockedStates
    <3>3. /\ SameTcbs(s', s) /\ SameRest(s', s) /\ OthersStay(s', s, pc[t].tcb)
          /\ s'.task_state[pc[t].tcb] \notin Unready
      BY <3>1, <3>2, <1>4, UnblockSound
    <3>4. s'.task_state[pc[t].tcb] # "INVALID"
      BY <3>3 DEF Unready
    <3> QED BY <3>2, <3>3, <3>4, <1>4, SameMild DEF SameTcbs, SameRest
  <2> QED BY <2>1, <2>2, <2>3, <2>4 DEF SetParamPriority, SetPriority
<1>6. s'.lockcount[t] <= MaxNest + 2
  BY <1>1, <1>5, FewLocks
<1> QED BY <1>1, <1>2, <1>3, <1>5, <1>6, MildStep DEF Mild

(* A call returns without an unlock: sched_yield, task_create, a failing   *)
(* task_restart.                                                           *)
LEMMA ReturnCounts ==
  ASSUME NInv, NEW t \in Tasks, YieldSet(t) \/ Activate(t) \/ RestartFails(t)
  PROVE  s'.panic = {} /\ Counts(pc', s')
<1>1. Running(s) = t /\ pc[t].at \in {"yield", "activate", "restart"} /\ Return(t)
  BY DEF YieldSet, Activate, RestartFails, At
<1>2. pc[t].at \notin Tallied
  BY <1>1 DEF Tallied, Setup, DeletedLabels
<1>3. Calm(t) /\ pc'[t].at = "user"
  BY <1>1, <1>2, ReturnCalm
<1>4. /\ Sound(s) /\ IInv /\ pc \in [Tasks -> Calls] /\ s.panic = {} /\ MaxNest \in Nat
      /\ pc[t].tcb \in Tasks \ {Idle} /\ pc[t].pri \in Int /\ s.lockcount[t] \in Nat
  <2>1. pc[t].at # "user" /\ IInv
    BY <1>1, NInvParts
  <2> QED BY <2>1, NInvParts, IInvParts, CallTypes DEF CallInv
<1>5. Mild(t) /\ s'.lockcount = s.lockcount
  <2>1. CASE RestartFails(t)
    <3>1. s' = s
      BY <2>1 DEF RestartFails
    <3> QED BY <3>1, SameMild DEF UnreadyStay
  <2>2. CASE YieldSet(t)
    <3>1. s' = sched_setpriority(s, t, pc[t].pri) /\ t \in Tasks \ {Idle}
      BY <2>2, <1>4, IdleLabels DEF YieldSet, CreateLabels
    <3>2. SameRest(s', s) /\ UnreadyStay(s', s) /\ s'.lockcount = s.lockcount
      BY <3>1, <1>4, SetPrioritySound
    <3> QED BY <3>2, SameMild DEF SameRest
  <2>3. CASE Activate(t)
    <3>1. s' = up_unblock_task(s, pc[t].tcb) /\ pc[t].at = "activate"
      BY <2>3 DEF Activate, At
    <3>2. s.task_state[pc[t].tcb] = "INACTIVE" /\ s.task_state[pc[t].tcb] \in BlockedStates
      BY <3>1, <1>4, IInvParts DEF CreateInv, CreateLabels, BlockedStates
    <3>3. /\ SameTcbs(s', s) /\ SameRest(s', s) /\ OthersStay(s', s, pc[t].tcb)
          /\ s'.task_state[pc[t].tcb] \notin Unready
      BY <3>1, <3>2, <1>4, UnblockSound
    <3>4. s'.task_state[pc[t].tcb] # "INVALID"
      BY <3>3 DEF Unready
    <3> QED BY <3>2, <3>3, <3>4, <1>4, SameMild DEF SameTcbs, SameRest
  <2> QED BY <2>1, <2>2, <2>3
<1>6. s.lockcount[t] <= MaxNest + 1
  <2>1. CASE pc[t].at = "restart"
    <3>1. RestartFails(t)
      BY <2>1 DEF YieldSet, Activate, RestartFails, At
    <3>2. s.lockcount[t] <= MaxNest + 1
      BY <2>1, NInvParts DEF Limits
    <3> QED BY <3>2
  <2>2. CASE pc[t].at # "restart"
    <3>1. pc[t].at \notin HoldLabels
      BY <2>2, <1>1 DEF HoldLabels, LockedLabels
    <3> QED BY <3>1, <1>1, FewLocks
  <2> QED BY <2>1, <2>2
<1> QED BY <1>1, <1>3, <1>4, <1>5, <1>6, MildStep DEF Mild

(* A task blocks.                                                          *)
LEMMA BlockCounts ==
  ASSUME NInv, NEW t \in Tasks, NEW st \in UsedWaits, Block(t, st)
  PROVE  s'.panic = {} /\ Counts(pc', s')
<1>1. /\ Running(s) = t /\ pc[t].at = "user" /\ pc' = pc /\ s' = up_block_task(s, t, st)
      /\ t \in Tasks \ {Idle} /\ st \in BlockedStates
      /\ "user" \notin HoldLabels \cup Setup \cup Tallied \cup CreateLabels \cup {"delete", "exithook"} \cup DeletedLabels
  BY IdleCalls, InputsAssumption DEF Block, Makes, At, BlockedStates, HoldLabels, LockedLabels, Setup,
     Tallied, CreateLabels, DeletedLabels
<1>2. Calm(t)
  BY <1>1 DEF Calm
<1>3. Sound(s) /\ s.panic = {} /\ s.task_state[t] = "RUNNING" /\ MaxNest \in Nat /\ s.lockcount[t] \in Nat
  BY <1>1, NInvParts
<1>4. SameTcbs(s', s) /\ SameRest(s', s) /\ OthersStay(s', s, t) /\ s'.task_state[t] = st
  <2>1. /\ Sound(s) /\ t \in Tasks \ {Idle} /\ Running(s) = t /\ st \in BlockedStates
        /\ s' = up_block_task(s, t, st)
    BY <1>1, <1>3
  <2> QED BY <2>1, BlockSound, ZenonT(30)
<1>5. Mild(t)
  <2>1. st # "INVALID"
    BY <1>1 DEF BlockedStates, WaitStates
  <2> QED BY <2>1, <1>3, <1>4, SameMild DEF SameTcbs, SameRest
<1>6. s'.lockcount[t] <= MaxNest + 1 /\ s'.lockcount[t] <= MaxNest + 2
  BY <1>1, <1>3, <1>4, FewLocks DEF SameTcbs
<1> QED BY <1>1, <1>2, <1>5, <1>6, MildStep DEF Mild


(* The steps that start or end a task: x, which may be the running task t  *)
(* itself, and nothing else is affected.                                   *)
Affects(t, x) ==
  /\ \A u \in Tasks \ {t, x} :
       /\ pc'[u] = pc[u] /\ s'.lockcount[u] = s.lockcount[u]
       /\ s'.task_state[u] = "INVALID" <=> s.task_state[u] = "INVALID"
  /\ \A u \in Tasks \ {x} : u \in s'.g_pidhash <=> u \in s.g_pidhash
  /\ x # t => /\ pc'[x] = pc[x] \/ pc'[x] = User
              /\ s'.lockcount[x] = s.lockcount[x] \/ s'.lockcount[x] = 0
              /\ s'.task_state[t] # "INVALID"
  /\ s'.g_pidhash \subseteq Tasks

(* The call of t, after such a step, in the bounds of the lock counts.     *)
Bounded(t, x) ==
  /\ s'.lockcount[t] <= MaxNest + 2
  /\ s'.task_state[t] # "INVALID" /\ pc'[t].at \notin HoldLabels => s'.lockcount[t] <= MaxNest + 1
  /\ x # t /\ s'.task_state[x] # "INVALID" => s'.lockcount[x] <= MaxNest + 1
  /\ pc'[t].at \in Setup => pc'[t].tcb = x /\ x # t /\ s'.lockcount[x] = 0
  /\ pc'[t].at \notin {"restart", "exithook"}
  /\ pc'[t].at \in CreateLabels => "create" \in Workload[t]
  /\ pc'[t].at \in {"delete", "exithook"} \cup DeletedLabels => "delete" \in Workload[t]

(* The tasks that are in no list, after such a step.                       *)
Settled(t, x) ==
  /\ s'.task_state[x] = "INVALID" => pc'[x].at = "user"
  /\ OneController =>
       /\ x \in s'.g_pidhash /\ s'.task_state[x] = "INVALID" =>
            pc'[t].tcb = x /\ pc'[t].at \in Tallied
       /\ pc[t].at \in Tallied => pc[t].tcb = x
       /\ x # t => pc[x].at \notin Tallied
       /\ x \notin s'.g_pidhash => \A u \in Tasks \ {t} : pc[u].at = "exithook" => pc[u].tcb # x

(* Such a step.                                                            *)
LEMMA AffectedStep ==
  ASSUME NInv, NEW t \in Tasks, Running(s) = t, NEW x \in Tasks,
         Affects(t, x), Bounded(t, x), Settled(t, x)
  PROVE  Counts(pc', s')
<1>1. /\ Limits(pc, s) /\ Programs(pc, s) /\ Ended(pc, s) /\ (OneController => Accounted(pc, s) /\ Found(pc, s))
      /\ s.task_state[t] # "INVALID" /\ IInv /\ PInv /\ pc \in [Tasks -> Calls]
      /\ MaxNest \in Nat
  BY NInvParts
<1>2. /\ User.at = "user" /\ "user" \notin HoldLabels \cup Setup \cup CreateLabels \cup {"delete", "exithook", "restart"} \cup DeletedLabels
  BY DEF User, HoldLabels, LockedLabels, Setup, CreateLabels, DeletedLabels
<1>3. \A u \in Tasks \ {t} : pc'[u] = pc[u] \/ pc'[u] = User
  BY DEF Affects
<1>4. \A u \in Tasks \ {t} : pc[u].at # "restart"
  BY <1>1, OthersWait DEF LockedLabels
<1>5. Limits(pc', s')
  <2>1. \A u \in Tasks : s'.lockcount[u] <= MaxNest + 2
    <3> TAKE u \in Tasks
    <3>1. CASE u = t
      BY <3>1 DEF Bounded
    <3>2. CASE u # t
      <4>1. s.lockcount[u] <= MaxNest + 2
        BY <1>1 DEF Limits
      <4>2. s'.lockcount[u] = s.lockcount[u] \/ s'.lockcount[u] = 0
        BY <3>2 DEF Affects
      <4> QED BY <4>1, <4>2, <1>1
    <3> QED BY <3>1, <3>2
  <2>2. \A u \in Tasks : s'.task_state[u] # "INVALID" /\ pc'[u].at \notin HoldLabels =>
                           s'.lockcount[u] <= MaxNest + 1
    <3> TAKE u \in Tasks
    <3> HAVE s'.task_state[u] # "INVALID" /\ pc'[u].at \notin HoldLabels
    <3>1. CASE u = t \/ u = x
      BY <3>1 DEF Bounded
    <3>2. CASE u # t /\ u # x
      BY <3>2, <1>1 DEF Affects, Limits
    <3> QED BY <3>1, <3>2
  <2>3. \A u \in Tasks : pc'[u].at \in Setup => s'.lockcount[pc'[u].tcb] <= MaxNest + 1
    <3> TAKE u \in Tasks
    <3> HAVE pc'[u].at \in Setup
    <3>1. CASE u = t
      BY <3>1, <1>1 DEF Bounded
    <3>2. CASE u # t
      <4>1. pc'[u] = pc[u] /\ pc[u].at \in Setup
        BY <3>2, <1>2, <1>3
      <4>2. pc[u].tcb \in Tasks /\ s.task_state[pc[u].tcb] = "INVALID"
        BY <4>1, <1>1, IInvParts, CallTypes DEF CreateInv, Setup, CreateLabels
      <4>3. pc[u].tcb # t /\ s.lockcount[pc[u].tcb] <= MaxNest + 1
        BY <4>1, <4>2, <1>1 DEF Limits
      <4>4. s'.lockcount[pc[u].tcb] = s.lockcount[pc[u].tcb] \/ s'.lockcount[pc[u].tcb] = 0
        BY <4>2, <4>3 DEF Affects
      <4> QED BY <4>1, <4>3, <4>4, <1>1
    <3> QED BY <3>1, <3>2
  <2>4. \A u \in Tasks : pc'[u].at # "restart"
    BY <1>2, <1>3, <1>4 DEF Bounded
  <2> QED BY <2>1, <2>2, <2>3, <2>4 DEF Limits
<1>6. Programs(pc', s')
  <2> SUFFICES ASSUME NEW u \in Tasks
               PROVE  /\ pc'[u].at \in CreateLabels => "create" \in Workload[u]
                      /\ pc'[u].at \in {"delete", "exithook"} \cup DeletedLabels => "delete" \in Workload[u]
                      /\ pc'[u].at # "restart"
    BY DEF Programs
  <2>1. CASE u = t
    BY <2>1 DEF Bounded
  <2>2. CASE u # t
    BY <2>2, <1>1, <1>2, <1>3, <1>4 DEF Programs
  <2> QED BY <2>1, <2>2
<1>7. Ended(pc', s')
  <2> SUFFICES ASSUME NEW u \in Tasks, s'.task_state[u] = "INVALID" PROVE pc'[u].at = "user"
    BY DEF Ended
  <2>1. CASE u = x
    BY <2>1 DEF Settled
  <2>2. CASE u # x
    <3>1. u # t
      BY <2>2 DEF Affects
    <3> QED BY <2>2, <3>1, <1>1 DEF Affects, Ended
  <2> QED BY <2>1, <2>2
<1>8. ASSUME OneController PROVE Accounted(pc', s') /\ Found(pc', s')
  <2>0. Found(pc', s')
    <3> SUFFICES ASSUME NEW u \in Tasks, pc'[u].at = "exithook" PROVE pc'[u].tcb \in s'.g_pidhash
      BY DEF Found
    <3>1. u # t
      BY DEF Bounded
    <3>2. pc'[u] = pc[u]
      BY <3>1, <1>2, <1>3
    <3>3. pc[u].tcb \in s.g_pidhash /\ pc[u].tcb \in Tasks
      BY <3>2, <1>1, <1>8, CallTypes DEF Found
    <3>5. CASE pc[u].tcb = x
      BY <3>1, <3>2, <3>5, <1>8 DEF Settled
    <3>6. CASE pc[u].tcb # x
      BY <3>2, <3>3, <3>6 DEF Affects
    <3> QED BY <3>5, <3>6
  <2> SUFFICES ASSUME NEW y \in s'.g_pidhash, s'.task_state[y] = "INVALID"
               PROVE  \E u \in Tasks : pc'[u].tcb = y /\ pc'[u].at \in Tallied
    BY <2>0 DEF Accounted
  <2>1. CASE y = x
    BY <2>1, <1>8 DEF Settled
  <2>2. CASE y # x
    <3>1. y # t /\ y \in Tasks
      BY <2>2 DEF Affects
    <3>2. y \in s.g_pidhash /\ s.task_state[y] = "INVALID"
      BY <2>2, <3>1 DEF Affects
    <3>3. PICK u \in Tasks : pc[u].tcb = y /\ pc[u].at \in Tallied
      BY <3>2, <1>1, <1>8 DEF Accounted
    <3>4. u # t /\ u # x
      BY <3>3, <2>2, <1>8 DEF Settled
    <3> QED BY <3>3, <3>4 DEF Affects
  <2> QED BY <2>1, <2>2
<1> QED BY <1>5, <1>6, <1>7, <1>8 DEF Counts


(* task_assignpid: x gets a pid, and is in no list yet.                    *)
LEMMA AssignPidCounts ==
  ASSUME NInv, Careful, NEW t \in Tasks, NEW x \in Tasks, NEW pri \in CreatePriorities, AssignPid(t, x, pri)
  PROVE  s'.panic = {} /\ Counts(pc', s')
<1> DEFINE zl == sched_lock(s)
           c == [User EXCEPT !.at = "assignpid_unlock", !.tcb = x, !.pri = pri]
<1>1. /\ Running(s) = t /\ pc[t].at = "user" /\ "create" \in Workload[t] /\ x \notin s.g_pidhash
      /\ s' = [zl EXCEPT !.g_pidhash = @ \cup {x},
                         !.sched_priority[x] = 0, !.init_priority[x] = 0,
                         !.lockcount[x] = 0, !.timeslice[x] = 0,
                         !.round_robin[x] = FALSE]
      /\ pc' = [pc EXCEPT ![t] = c, ![x] = User]
  BY DEF AssignPid, Makes, At
<1>2. /\ Sound(s) /\ Shaped(s) /\ s \in SchedStates /\ s.panic = {} /\ MaxNest \in Nat
      /\ s.lockcount[t] \in Nat /\ IInv /\ PInv /\ pc \in [Tasks -> Calls] /\ Ended(pc, s)
      /\ s.task_state[t] = "RUNNING"
  BY <1>1, NInvParts, WellFormedIsShaped DEF Sound
<1>3. /\ "user" \notin HoldLabels \cup Setup \cup Tallied \cup CreateLabels
      /\ "assignpid_unlock" \in Setup \cap Tallied \cap HoldLabels
      /\ "assignpid_unlock" \notin {"delete", "exithook", "restart"} \cup DeletedLabels
      /\ User.at = "user"
  BY DEF HoldLabels, LockedLabels, Setup, Tallied, DeletedLabels, CreateLabels, User
<1>4. s.task_state[x] = "INVALID" /\ x # t
  BY <1>1, <1>2, IInvParts DEF SchedInv
<1>5. s.lockcount[t] <= MaxNest + 1 /\ s.lockcount[Running(s)] < MAX_LOCK_COUNT
  <2>1. s.lockcount[t] <= MaxNest + 1
    BY <1>1, <1>3, FewLocks
  <2> QED BY <2>1, <1>1, <1>2, BoundsAssumption DEF Careful, ShallowLocks
<1>6. /\ Shaped(zl) /\ zl.panic = s.panic /\ zl.g_pidhash = s.g_pidhash /\ zl.task_state = s.task_state
      /\ zl.lockcount[t] = s.lockcount[t] + 1
      /\ \A u \in Tasks \ {t} : zl.lockcount[u] = s.lockcount[u]
  BY <1>1, <1>2, <1>5, LockShaped
<1> HIDE DEF zl
<1>7. /\ s'.panic = {} /\ s'.g_pidhash = s.g_pidhash \cup {x} /\ s'.task_state = s.task_state
      /\ s'.lockcount = [zl.lockcount EXCEPT ![x] = 0]
  <2>1. zl \in SchedStates
    BY <1>6 DEF Shaped
  <2> QED BY <2>1, <1>1, <1>2, <1>6 DEF SchedStates
<1>8. /\ s'.lockcount[x] = 0 /\ s'.lockcount[t] = s.lockcount[t] + 1
      /\ \A u \in Tasks \ {t, x} : s'.lockcount[u] = s.lockcount[u]
  <2>1. zl.lockcount \in [Tasks -> Nat]
    BY <1>6 DEF Shaped, SchedStates
  <2> QED BY <2>1, <1>4, <1>6, <1>7
<1>9. c.at = "assignpid_unlock" /\ c.tcb = x
  BY DEF User
<1> HIDE DEF c
<1>10. pc'[t] = c /\ pc'[x] = User /\ \A u \in Tasks \ {t, x} : pc'[u] = pc[u]
  BY <1>1, <1>2, <1>4
<1>11. Affects(t, x)
  <2>1. s'.g_pidhash \subseteq Tasks
    BY <1>2, <1>7 DEF SchedStates
  <2> QED BY <2>1, <1>2, <1>4, <1>7, <1>8, <1>10 DEF Affects
<1>12. Bounded(t, x)
  <2>1. s'.lockcount[t] <= MaxNest + 2
    BY <1>2, <1>5, <1>8
  <2> QED BY <2>1, <1>1, <1>3, <1>4, <1>7, <1>8, <1>9, <1>10 DEF Bounded
<1>13. Settled(t, x)
  <2>1. pc[x].at = "user"
    BY <1>2, <1>4 DEF Ended
  <2> QED BY <2>1, <1>1, <1>3, <1>9, <1>10 DEF Settled
<1> QED BY <1>1, <1>7, <1>11, <1>12, <1>13, AffectedStep

(* task_schedsetup: x goes to g_inactivetasks.                             *)
LEMMA SchedSetupCounts ==
  ASSUME NInv, Careful, NEW t \in Tasks, SchedSetup(t)
  PROVE  s'.panic = {} /\ Counts(pc', s')
<1> DEFINE x == pc[t].tcb
           zl == sched_lock(s)
<1>1. /\ Running(s) = t /\ pc[t].at = "schedsetup_lock" /\ Goto(t, "schedsetup_unlock")
      /\ s' = [zl EXCEPT !.sched_priority[x] = pc[t].pri, !.init_priority[x] = pc[t].pri,
                         !.list["g_inactivetasks"] = dq_addfirst(@, x),
                         !.task_state[x] = "INACTIVE"]
  BY DEF SchedSetup, At
<1>2. /\ Sound(s) /\ Shaped(s) /\ s \in SchedStates /\ s.panic = {} /\ MaxNest \in Nat
      /\ s.lockcount[t] \in Nat /\ IInv /\ PInv /\ pc \in [Tasks -> Calls] /\ Limits(pc, s) /\ Programs(pc, s)
      /\ s.task_state[t] = "RUNNING" /\ Ended(pc, s)
  BY <1>1, NInvParts, WellFormedIsShaped DEF Sound
<1>3. /\ "schedsetup_lock" \in CreateLabels \cap Setup \cap Tallied /\ "schedsetup_lock" \notin HoldLabels
      /\ "schedsetup_unlock" \in CreateLabels \cap HoldLabels
      /\ "schedsetup_unlock" \notin Setup \cup {"delete", "exithook", "restart"} \cup DeletedLabels
      /\ "user" \notin Tallied
  BY DEF HoldLabels, LockedLabels, Setup, Tallied, DeletedLabels, CreateLabels
<1>4. /\ x \in Tasks /\ s.task_state[x] = "INVALID" /\ x # t /\ s.lockcount[x] <= MaxNest + 1
      /\ "create" \in Workload[t]
  <2>1. x \in Tasks /\ s.task_state[x] = "INVALID"
    BY <1>1, <1>2, <1>3, IInvParts, CallTypes DEF CreateInv
  <2>2. s.lockcount[x] <= MaxNest + 1 /\ "create" \in Workload[t]
    BY <1>1, <1>2, <1>3 DEF Limits, Programs
  <2> QED BY <2>1, <2>2, <1>2
<1>5. s.lockcount[t] <= MaxNest + 1 /\ s.lockcount[Running(s)] < MAX_LOCK_COUNT
  <2>1. s.lockcount[t] <= MaxNest + 1
    BY <1>1, <1>3, FewLocks
  <2> QED BY <2>1, <1>1, <1>2, BoundsAssumption DEF Careful, ShallowLocks
<1>6. /\ Shaped(zl) /\ zl.panic = s.panic /\ zl.g_pidhash = s.g_pidhash /\ zl.task_state = s.task_state
      /\ zl.lockcount[t] = s.lockcount[t] + 1
      /\ \A u \in Tasks \ {t} : zl.lockcount[u] = s.lockcount[u]
  BY <1>1, <1>2, <1>5, LockShaped
<1>x. x = pc[t].tcb
  OBVIOUS
<1> HIDE DEF zl, x
<1>7. /\ s'.panic = {} /\ s'.g_pidhash = s.g_pidhash /\ s'.task_state = [s.task_state EXCEPT ![x] = "INACTIVE"]
      /\ s'.lockcount = zl.lockcount
  <2>1. zl \in SchedStates
    BY <1>6 DEF Shaped
  <2> QED BY <2>1, <1>1, <1>2, <1>6 DEF SchedStates
<1>8. s'.task_state[x] = "INACTIVE" /\ \A u \in Tasks \ {x} : s'.task_state[u] = s.task_state[u]
  BY <1>2, <1>4, <1>7 DEF SchedStates
<1>10. /\ pc'[t].at = "schedsetup_unlock" /\ pc'[t].tcb = x
       /\ \A u \in Tasks \ {t} : pc'[u] = pc[u]
  BY <1>1, <1>2, <1>x DEF Goto, Calls
<1>11. Affects(t, x)
  <2>1. s'.g_pidhash \subseteq Tasks
    BY <1>2, <1>7 DEF SchedStates
  <2> QED BY <2>1, <1>2, <1>4, <1>6, <1>7, <1>8, <1>10 DEF Affects
<1>12. Bounded(t, x)
  <2>1. s'.lockcount[t] <= MaxNest + 2 /\ s'.lockcount[x] <= MaxNest + 1
    BY <1>2, <1>4, <1>5, <1>6, <1>7
  <2> QED BY <2>1, <1>3, <1>4, <1>10 DEF Bounded
<1>13. Settled(t, x)
  <2>1. pc[x].at = "user"
    BY <1>2, <1>4 DEF Ended
  <2>2. \A u \in Tasks : pc[u].at = "exithook" => pc[u].tcb # x
    BY <1>1, <1>3, <1>x, NInvParts DEF Control, Apart, NamingLabels
  <2> QED BY <2>1, <2>2, <1>3, <1>8, <1>x DEF Settled
<1> QED BY <1>1, <1>4, <1>7, <1>11, <1>12, <1>13, AffectedStep


(* A task exits.                                                           *)
LEMMA ExitCounts ==
  ASSUME NInv, Careful, NEW t \in Tasks, Exit(t)
  PROVE  s'.panic = {} /\ Counts(pc', s')
<1>1. /\ Running(s) = t /\ pc[t].at = "user" /\ Return(t) /\ s' = task_deletecurrent(s)
      /\ s.lockcount[t] = 0 /\ t \in Tasks \ {Idle}
  <2>1. s.lockcount[t] = 0
    BY DEF Exit, Makes, Careful, ExitsUnlocked
  <2>2. t # Idle
    BY WorkloadAssumption DEF Exit, Makes
  <2> QED BY <2>1, <2>2 DEF Exit, Makes, At
<1>2. /\ Sound(s) /\ s \in SchedStates /\ s.panic = {} /\ MaxNest \in Nat /\ pc \in [Tasks -> Calls]
      /\ \A u \in Tasks : s.lockcount[u] \in Nat /\ s.lockcount[u] <= MaxNest + 2
  BY NInvParts DEF Limits
<1>3. s.list["g_pendingtasks"] = <<>>
  BY <1>1, <1>2 DEF Sound, PendingIsLocked
<1>4. \A u \in Tasks : s.lockcount[u] + 1 < MAX_LOCK_COUNT
  BY <1>2, BoundsAssumption DEF Careful, ShallowLocks
<1>5. /\ s'.panic = s.panic /\ s'.g_pidhash = s.g_pidhash \ {t}
      /\ s'.task_state[t] = "INVALID" /\ OthersStay(s', s, t)
      /\ \A u \in Tasks : s'.lockcount[u] = s.lockcount[u]
  <2>1. /\ Sound(s) /\ Running(s) # Idle /\ Running(s) = t /\ s' = task_deletecurrent(s)
        /\ s.list["g_pendingtasks"] = <<>>
        /\ \A u \in Tasks : s.lockcount[u] + 1 < MAX_LOCK_COUNT
    BY <1>1, <1>2, <1>3, <1>4
  <2> QED BY <2>1, DeleteCurrentSound, ZenonT(30)
<1>6. \A u \in Tasks \ {t} : s'.task_state[u] = "INVALID" <=> s.task_state[u] = "INVALID"
  BY <1>5, UnreadyStates DEF OthersStay
<1>7. pc'[t] = User /\ \A u \in Tasks \ {t} : pc'[u] = pc[u]
  BY <1>1, <1>2 DEF Return
<1>8. /\ User.at = "user" /\ "user" \notin Setup \cup Tallied \cup CreateLabels \cup {"delete", "exithook", "restart"} \cup DeletedLabels
  BY DEF User, Setup, Tallied, CreateLabels, DeletedLabels
<1>9. Affects(t, t)
  <2>1. s'.g_pidhash \subseteq Tasks
    BY <1>2, <1>5 DEF SchedStates
  <2> QED BY <2>1, <1>5, <1>6, <1>7 DEF Affects
<1>10. Bounded(t, t)
  BY <1>2, <1>5, <1>7, <1>8 DEF Bounded
<1>11. ASSUME OneController, NEW u \in Tasks \ {t}, pc[u].at = "exithook"
       PROVE  pc[u].tcb # t
  <2>1. ~Protected(pc, u)
    BY <1>1, NInvParts, ExclusiveMeans DEF PInv
  <2>2. pc[u].tcb \in SlowToClose
    BY <1>11, <2>1 DEF Protected
  <2>3. "exit" \in Workload[t]
    BY DEF Exit, Makes, Careful, ExitsUnlocked
  <2> QED BY <1>11, <2>2, <2>3 DEF OneController
<1>12. Settled(t, t)
  BY <1>1, <1>5, <1>7, <1>8, <1>11 DEF Settled
<1> QED BY <1>1, <1>2, <1>5, <1>9, <1>10, <1>12, AffectedStep

(* The task that a call removes from its list is in one: with one task     *)
(* that deletes and restarts, nobody else can have removed it.             *)
LEMMA RemovedIsListed ==
  ASSUME NInv, Careful, NEW t \in Tasks, NEW l \in {"exithook", "restart"}, At(t, l),
         pc[t].tcb \in s.g_pidhash, pc[t].tcb # t
  PROVE  /\ OneController /\ Controls(t) /\ s.task_state[pc[t].tcb] # "INVALID"
         /\ pc[pc[t].tcb].at \notin Tallied
         /\ pc[t].tcb \in Tasks \ {Idle} /\ (l = "exithook" => "delete" \in Workload[t])
<1> DEFINE x == pc[t].tcb
<1>1. /\ PInv /\ Control(pc, s) /\ Programs(pc, s) /\ Running(s) = t /\ pc[t].at = l
      /\ OneController => Accounted(pc, s) /\ Found(pc, s)
  BY NInvParts DEF At
<1>2. x \in Tasks \ {Idle} /\ l \in NamingLabels /\ l \notin Tallied
  BY <1>1, NamedTask DEF Tallied, Setup, DeletedLabels, NamingLabels
<1>3. (l = "exithook" => "delete" \in Workload[t]) /\ Controls(t)
  BY <1>1 DEF Programs, Controls
<1>4. OneController
  BY <1>3 DEF Careful, NoController
<1>5. \A u \in Tasks \ {Idle} : pc[u].at \notin Setup
  BY <1>1, <1>4 DEF Programs, OneController, Setup, CreateLabels
<1>6. \A u \in Tasks \ {t} : pc[u].at \notin DeletedLabels
  BY <1>1, <1>3, <1>4 DEF Programs, OneController, Controls
<1>7. pc[x].at \notin Tallied
  BY <1>2, <1>5, <1>6 DEF Tallied
<1>8. s.task_state[x] # "INVALID"
  <2> SUFFICES ASSUME s.task_state[x] = "INVALID" PROVE FALSE
    OBVIOUS
  <2>1. PICK u \in Tasks : pc[u].tcb = x /\ pc[u].at \in Tallied
    BY <1>1, <1>4 DEF Accounted
  <2>2. u # t
    BY <1>1, <1>2, <2>1
  <2>3. pc[u].at \in CreateLabels
    BY <1>6, <2>1, <2>2 DEF Tallied, Setup, CreateLabels
  <2> QED BY <2>1, <2>3, <1>1, <1>2 DEF Control, Apart
<1> QED BY <1>2, <1>3, <1>4, <1>7, <1>8


(* task_delete and task_restart take x out of its list.                    *)
LEMMA RemovedCounts ==
  ASSUME NInv, Careful, NEW t \in Tasks, NEW l \in {"exithook", "restart"}, At(t, l),
         NEW x, x = pc[t].tcb, x \in s.g_pidhash, x # t,
         NEW m, m = IF l = "exithook" THEN "delete_unlock" ELSE "restart_activate",
         pc' = Strike(pc, t, m, x),
         s'.panic = s.panic, s'.g_pidhash = s.g_pidhash, s'.lockcount = s.lockcount,
         OthersStay(s', s, x),
         s'.task_state[x] = IF l = "exithook" THEN "INVALID" ELSE "INACTIVE"
  PROVE  s'.panic = {} /\ Counts(pc', s')
<1>1. /\ PInv /\ Running(s) = t /\ pc[t].at = l /\ s \in SchedStates /\ pc \in [Tasks -> Calls]
      /\ s.panic = {} /\ Limits(pc, s) /\ s.task_state[t] = "RUNNING" /\ IInv
  BY NInvParts DEF At
<1>2. /\ OneController /\ (l = "exithook" => "delete" \in Workload[t]) /\ pc[x].at \notin Tallied /\ x \in Tasks \ {Idle}
      /\ s.task_state[x] # "INVALID"
  BY RemovedIsListed
<1>3. /\ m \in Labels \ CreateLabels /\ m \in HoldLabels /\ m \notin Setup \cup {"restart", "delete", "exithook"}
      /\ m \in DeletedLabels => l = "exithook" /\ m \in Tallied
      /\ l = "exithook" => m \in Tallied
      /\ l \notin Tallied /\ l \notin {"user"} \cup CreateLabels
      /\ User.at = "user"
  BY DEF Labels, CreateLabels, HoldLabels, LockedLabels, Setup, DeletedLabels, Tallied, User
<1>4. t # Idle
  BY NInvParts, NamedTask
<1>5. /\ pc'[t].at = m /\ pc'[t].tcb = x /\ pc'[x] = User
      /\ \A u \in Tasks \ {t, x} : pc'[u] = pc[u]
  BY <1>1, <1>2 DEF Strike, Calls
<1>6. \A u \in Tasks \ {x} : s'.task_state[u] = "INVALID" <=> s.task_state[u] = "INVALID"
  BY UnreadyStates DEF OthersStay
<1>7. Affects(t, x)
  <2>1. s'.g_pidhash \subseteq Tasks /\ s'.task_state[t] # "INVALID"
    BY <1>1, <1>6 DEF SchedStates
  <2> QED BY <2>1, <1>5, <1>6 DEF Affects
<1>8. Bounded(t, x)
  <2>1. s'.lockcount[t] <= MaxNest + 2
    BY <1>1 DEF Limits
  <2>2. s'.task_state[x] # "INVALID" => s'.lockcount[x] <= MaxNest + 1
    BY <1>1 DEF Limits
  <2> QED BY <2>1, <2>2, <1>2, <1>3, <1>5 DEF Bounded
<1>9. Settled(t, x)
  BY <1>1, <1>2, <1>3, <1>5 DEF Settled
<1> QED BY <1>1, <1>2, <1>7, <1>8, <1>9, AffectedStep

(* task_delete finds the task, or finds that its pid is gone.              *)
LEMMA DeleteFindsCounts ==
  ASSUME NInv, NEW t \in Tasks, DeleteFinds(t)
  PROVE  s'.panic = {} /\ Counts(pc', s')
<1>1. /\ PInv /\ Control(pc, s) /\ At(t, "delete") /\ Running(s) = t /\ pc[t].at = "delete"
      /\ "delete" \in {"delete", "exithook", "restart", "restart_activate"} /\ "delete" \in NamingLabels \ {"restart"}
      /\ s.panic = {} /\ Sound(s) /\ Programs(pc, s)
  BY NInvParts DEF DeleteFinds, At, NamingLabels
<1>2. pc[t].tcb \in Tasks \ {Idle} /\ pc[t].tcb # t
  BY <1>1, NamedTask DEF Control, Other
<1>3. s' = s
  <2>1. s.task_state[pc[t].tcb] # "RUNNING"
    BY <1>1, <1>2 DEF Sound, WellFormed, HeadRuns
  <2> QED BY <2>1 DEF DeleteFinds, PanicUnless
<1>4. PICK l \in {"exithook", "unlock"} : Goto(t, l) /\ (l = "exithook" => pc[t].tcb \in s.g_pidhash)
  BY DEF DeleteFinds
<1>5. /\ l \in HoldLabels /\ "delete" \notin Tallied /\ "delete" \in Workload[t]
      /\ l \notin Setup \cup CreateLabels \cup {"restart"}
  BY <1>1 DEF HoldLabels, Tallied, Setup, CreateLabels, DeletedLabels, Programs
<1>6. Calm(t) /\ pc'[t].at = l
  BY <1>1, <1>4, <1>5, GotoCalm
<1>7. Mild(t) /\ s'.lockcount[t] <= MaxNest + 2
  BY <1>1, <1>3, SameMild, FewLocks DEF UnreadyStay
<1> QED BY <1>1, <1>3, <1>5, <1>6, <1>7, MildStep

(* The exit hook waits.                                                    *)
LEMMA ExitHookBlocksCounts ==
  ASSUME NInv, Careful, NEW t \in Tasks, ExitHookBlocks(t)
  PROVE  s'.panic = {} /\ Counts(pc', s')
<1>1. /\ Running(s) = t /\ At(t, "exithook") /\ pc[t].at = "exithook" /\ pc' = pc /\ s' = up_block_task(s, t, "WAIT_SEM")
      /\ "exithook" \in {"delete", "exithook", "restart", "restart_activate"}
      /\ "exithook" \in HoldLabels /\ "exithook" \notin Setup \cup Tallied \cup CreateLabels
      /\ "WAIT_SEM" \in BlockedStates /\ "WAIT_SEM" # "INVALID"
  BY DEF ExitHookBlocks, At, BlockedStates, WaitStates, HoldLabels, LockedLabels, Setup, Tallied, CreateLabels,
     DeletedLabels
<1>2. /\ Sound(s) /\ s.panic = {} /\ s.task_state[t] = "RUNNING" /\ Programs(pc, s) /\ Limits(pc, s)
      /\ PInv /\ Control(pc, s) /\ (OneController => Found(pc, s))
  BY <1>1, NInvParts
<1>3. t \in Tasks \ {Idle}
  BY <1>1, <1>2, NamedTask
<1>4. SameTcbs(s', s) /\ SameRest(s', s) /\ OthersStay(s', s, t) /\ s'.task_state[t] = "WAIT_SEM"
  <2>1. /\ Sound(s) /\ t \in Tasks \ {Idle} /\ Running(s) = t /\ "WAIT_SEM" \in BlockedStates
        /\ s' = up_block_task(s, t, "WAIT_SEM")
    BY <1>1, <1>2, <1>3
  <2> QED BY <2>1, BlockSound, ZenonT(30)
<1>5. Mild(t)
  BY <1>1, <1>2, <1>4, SameMild DEF SameTcbs, SameRest
<1>6. s'.lockcount[t] <= MaxNest + 2
  BY <1>2, <1>4 DEF SameTcbs, Limits
<1>7. pc[t].tcb \in s.g_pidhash /\ "delete" \in Workload[t]
  <2>1. "delete" \in Workload[t]
    BY <1>1, <1>2 DEF Programs
  <2>2. OneController
    BY <2>1 DEF Careful, NoController, Controls
  <2> QED BY <1>1, <1>2, <2>1, <2>2 DEF Found
<1>8. Calm(t)
  BY <1>1, <1>7 DEF Calm
<1> QED BY <1>1, <1>5, <1>6, <1>8, MildStep DEF Mild

(* task_delete removes the task.                                           *)
LEMMA DeleteRemoveCounts ==
  ASSUME NInv, Careful, NEW t \in Tasks, DeleteRemove(t)
  PROVE  s'.panic = {} /\ Counts(pc', s')
<1> DEFINE x == pc[t].tcb
<1>1. /\ PInv /\ Control(pc, s) /\ At(t, "exithook") /\ Running(s) = t /\ pc[t].at = "exithook"
      /\ "exithook" \in {"exithook", "restart"} /\ "exithook" \in {"delete", "exithook", "restart", "restart_activate"}
      /\ "exithook" \in NamingLabels \ {"restart"}
      /\ s.panic = {} /\ Sound(s) /\ Programs(pc, s) /\ (OneController => Found(pc, s))
      /\ s' = RemoveFromList(s, x) /\ pc' = Strike(pc, t, "delete_unlock", x)
  BY NInvParts DEF DeleteRemove, At, NamingLabels, Strike
<1>2. x \in Tasks \ {Idle} /\ x # t
  BY <1>1, NamedTask DEF Control, Other
<1>3. x \in s.g_pidhash
  <2>1. "delete" \in Workload[t]
    BY <1>1 DEF Programs
  <2>2. OneController
    BY <2>1 DEF Careful, NoController, Controls
  <2> QED BY <1>1, <2>2 DEF Found
<1>4. s.task_state[x] # "INVALID"
  BY <1>1, <1>2, <1>3, RemovedIsListed
<1>5. x = pc[t].tcb
  OBVIOUS
<1> HIDE DEF x
<1>6. /\ SameTcbs(s', s) /\ s'.panic = s.panic
      /\ s'.task_state[x] = "INVALID" /\ OthersStay(s', s, x)
  BY <1>1, <1>2, <1>4, RemoveAny
<1>7. "delete_unlock" = IF "exithook" = "exithook" THEN "delete_unlock" ELSE "restart_activate"
  OBVIOUS
<1> QED BY <1>1, <1>2, <1>3, <1>5, <1>6, <1>7, RemovedCounts DEF SameTcbs

(* task_restart makes the task inactive.                                   *)
LEMMA RestartResetCounts ==
  ASSUME NInv, Careful, NEW t \in Tasks, RestartReset(t)
  PROVE  s'.panic = {} /\ Counts(pc', s')
<1> DEFINE x == pc[t].tcb
           z == RemoveFromList(s, x)
           y == [z EXCEPT !.sched_priority[x] = s.init_priority[x],
                          !.list["g_inactivetasks"] = dq_addfirst(@, x),
                          !.task_state[x] = "INACTIVE"]
<1>1. /\ PInv /\ Control(pc, s) /\ At(t, "restart") /\ Running(s) = t /\ pc[t].at = "restart"
      /\ "restart" \in {"exithook", "restart"} /\ "restart" \in {"delete", "exithook", "restart", "restart_activate"}
      /\ s.panic = {} /\ Sound(s) /\ s \in SchedStates
      /\ x # t /\ x \in s.g_pidhash /\ pc' = Strike(pc, t, "restart_activate", x)
      /\ s' = IF s.task_state[x] = "INVALID" THEN z ELSE y
  BY NInvParts DEF RestartReset, At, Strike
<1>2. x \in Tasks \ {Idle} /\ s.task_state[x] # "INVALID"
  BY <1>1, RemovedIsListed
<1>3. x = pc[t].tcb /\ s' = y
  BY <1>1, <1>2
<1>4. /\ Sound(z) /\ SameTcbs(z, s) /\ z.panic = s.panic /\ OthersStay(z, s, x)
  BY <1>1, <1>2, RemoveAny
<1>z. z \in SchedStates
  BY <1>4 DEF Sound, WellFormed
<1> HIDE DEF z, x
<1>5. /\ s'.panic = z.panic /\ s'.g_pidhash = z.g_pidhash /\ s'.lockcount = z.lockcount
      /\ s'.task_state = [z.task_state EXCEPT ![x] = "INACTIVE"]
  BY <1>3, <1>z DEF SchedStates
<1> HIDE DEF y
<1>6. s'.task_state[x] = "INACTIVE" /\ \A u \in Tasks \ {x} : s'.task_state[u] = z.task_state[u]
  BY <1>2, <1>5, <1>z DEF SchedStates
<1>7. OthersStay(s', s, x)
  BY <1>4, <1>6 DEF OthersStay
<1>8. s'.panic = s.panic /\ s'.g_pidhash = s.g_pidhash /\ s'.lockcount = s.lockcount
  BY <1>4, <1>5 DEF SameTcbs
<1>9. "restart_activate" = IF "restart" = "exithook" THEN "delete_unlock" ELSE "restart_activate"
  OBVIOUS
<1> QED BY <1>1, <1>3, <1>6, <1>7, <1>8, <1>9, RemovedCounts

(* sched_releasetcb: the pid is free again.                                *)
LEMMA DeleteReleaseCounts ==
  ASSUME NInv, Careful, NEW t \in Tasks, DeleteRelease(t)
  PROVE  s'.panic = {} /\ Counts(pc', s')
<1> DEFINE x == pc[t].tcb
<1>1. /\ PInv /\ Control(pc, s) /\ Running(s) = t /\ pc[t].at = "release" /\ Return(t)
      /\ s' = sched_releasetcb(s, x)
      /\ s.panic = {} /\ s \in SchedStates /\ pc \in [Tasks -> Calls] /\ Ended(pc, s)
      /\ Programs(pc, s) /\ s.task_state[t] = "RUNNING" /\ MaxNest \in Nat /\ s.lockcount[t] \in Nat
  BY NInvParts DEF DeleteRelease, At
<1>2. /\ "release" \in DeletedLabels /\ "release" \notin HoldLabels
      /\ User.at = "user"
      /\ "user" \notin Setup \cup Tallied \cup CreateLabels \cup {"delete", "exithook", "restart"} \cup DeletedLabels
  BY DEF DeletedLabels, HoldLabels, LockedLabels, User, Setup, Tallied, CreateLabels
<1>3. x \in Tasks /\ s.task_state[x] = "INVALID" /\ x # t /\ pc[x].at = "user"
  BY <1>1, <1>2, CallTypes DEF Control, Gone, Ended
<1>4. /\ s'.panic = s.panic /\ s'.g_pidhash = s.g_pidhash \ {x} /\ s'.lockcount = s.lockcount
      /\ s'.task_state = s.task_state
  BY <1>1 DEF sched_releasetcb, SchedStates
<1>5. pc'[t] = User /\ \A u \in Tasks \ {t} : pc'[u] = pc[u]
  BY <1>1 DEF Return
<1>6. s.lockcount[t] <= MaxNest + 1 /\ s.lockcount[t] <= MaxNest + 2
  BY <1>1, <1>2, FewLocks
<1>7. Affects(t, x)
  <2>1. s'.g_pidhash \subseteq Tasks
    BY <1>1, <1>4 DEF SchedStates
  <2> QED BY <2>1, <1>1, <1>3, <1>4, <1>5 DEF Affects
<1>8. Bounded(t, x)
  BY <1>2, <1>3, <1>4, <1>5, <1>6 DEF Bounded
<1>9. OneController => \A u \in Tasks \ {t} : pc[u].at # "exithook"
  BY <1>1, <1>2 DEF Programs, OneController, Controls
<1>10. Settled(t, x)
  BY <1>2, <1>3, <1>4, <1>5, <1>9 DEF Settled
<1> QED BY <1>1, <1>3, <1>4, <1>7, <1>8, <1>10, AffectedStep


(* The handlers change no call, no lock count and no pid.                  *)
LEMMA HandlerCounts ==
  ASSUME NInv, pc' = pc, s'.lockcount = s.lockcount, s'.g_pidhash = s.g_pidhash, s'.panic = s.panic,
         \A u \in Tasks : s'.task_state[u] = "INVALID" <=> s.task_state[u] = "INVALID"
  PROVE  s'.panic = {} /\ Counts(pc', s')
<1>1. /\ s.panic = {} /\ Limits(pc, s) /\ Programs(pc, s) /\ Ended(pc, s)
      /\ OneController => Accounted(pc, s) /\ Found(pc, s)
      /\ s.g_pidhash \subseteq Tasks
  BY NInvParts DEF SchedStates
<1>2. Limits(pc, s')
  BY <1>1 DEF Limits
<1>3. Programs(pc, s') /\ Ended(pc, s')
  BY <1>1 DEF Programs, Ended
<1>4. OneController => Accounted(pc, s') /\ Found(pc, s')
  BY <1>1 DEF Accounted, Found
<1> QED BY <1>1, <1>2, <1>3, <1>4 DEF Counts

(* Every step but those of the running task.                               *)
LEMMA OtherCounts ==
  ASSUME NInv, (\E x \in Tasks : Unblock(x)) \/ Tick \/ UNCHANGED vars
  PROVE  s'.panic = {} /\ Counts(pc', s')
<1>1. Sound(s) /\ IInv /\ PInv
  BY NInvParts
<1>2. ASSUME NEW x \in Tasks, Unblock(x)
      PROVE  s'.panic = {} /\ Counts(pc', s')
  <2>1. /\ s' = up_unblock_task(s, x) /\ pc' = pc /\ s.task_state[x] \in BlockedStates
        /\ s.task_state[x] # "INVALID" /\ s.task_state[x] # "RUNNING" /\ s.task_state[x] # "INACTIVE"
        /\ s.task_state[x] # "READYTORUN"
    BY <1>2 DEF Unblock, BlockedStates, WaitStates
  <2>2. x # Idle
    BY <1>1, <2>1, ReadyList DEF Sound
  <2>3. /\ SameTcbs(s', s) /\ SameRest(s', s) /\ OthersStay(s', s, x)
        /\ s'.task_state[x] \notin Unready
    BY <1>1, <2>1, <2>2, UnblockSound
  <2>4. \A u \in Tasks : s'.task_state[u] = "INVALID" <=> s.task_state[u] = "INVALID"
    BY <2>1, <2>3, UnreadyStates DEF OthersStay, Unready
  <2> QED BY <2>1, <2>3, <2>4, HandlerCounts DEF SameTcbs, SameRest
<1>3. CASE Tick
  <2>1. s' = sched_process_timeslice(s) /\ pc' = pc
    BY <1>3 DEF Tick
  <2>2. SameRest(s', s) /\ UnreadyStay(s', s) /\ s'.lockcount = s.lockcount
    BY <1>1, <2>1, TimesliceSound
  <2>3. \A u \in Tasks : s'.task_state[u] = "INVALID" <=> s.task_state[u] = "INVALID"
    BY <2>2, UnreadyStates DEF UnreadyStay
  <2> QED BY <2>1, <2>2, <2>3, HandlerCounts DEF SameRest
<1>4. CASE UNCHANGED vars
  BY <1>4, HandlerCounts DEF vars
<1> QED BY <1>2, <1>3, <1>4

(* The calls that begin with sched_lock.                                   *)
LEMMA BeginCounts ==
  ASSUME NInv, Careful, NEW t \in Tasks, NEW x \in Tasks,
         \/ \E pri \in SetPriorities : SetParam(t, x, pri)
         \/ Delete(t, x) \/ Restart(t, x)
  PROVE  s'.panic = {} /\ Counts(pc', s')
<1>1. ASSUME NEW pri \in SetPriorities, SetParam(t, x, pri)
      PROVE  s'.panic = {} /\ Counts(pc', s')
  <2> DEFINE c == [User EXCEPT !.at = "setparam", !.tcb = x, !.pri = pri]
  <2>1. c.at = "setparam" /\ c.tcb = x /\ c.at \in {"setparam", "delete", "restart"}
    BY DEF User
  <2>2. At(t, "user") /\ s' = sched_lock(s) /\ pc' = [pc EXCEPT ![t] = c]
    BY <1>1 DEF SetParam, Makes
  <2> HIDE DEF c
  <2> QED BY <2>1, <2>2, LockedCallCounts
<1>2. CASE Delete(t, x)
  <2> DEFINE c == [User EXCEPT !.at = "delete", !.tcb = x]
  <2>1. c.at = "delete" /\ c.tcb = x /\ c.at \in {"setparam", "delete", "restart"}
    BY DEF User
  <2>2. At(t, "user") /\ s' = sched_lock(s) /\ pc' = [pc EXCEPT ![t] = c] /\ "delete" \in Workload[t]
    BY <1>2 DEF Delete, Makes
  <2> HIDE DEF c
  <2> QED BY <2>1, <2>2, LockedCallCounts
<1>3. CASE Restart(t, x)
  <2> DEFINE c == [User EXCEPT !.at = "restart", !.tcb = x]
  <2>1. c.at = "restart" /\ c.tcb = x /\ c.at \in {"setparam", "delete", "restart"}
    BY DEF User
  <2>2. /\ At(t, "user") /\ s' = sched_lock(s) /\ pc' = [pc EXCEPT ![t] = c]
        /\ s.lockcount[t] <= MaxNest /\ s.lockcount[x] <= MaxNest
        /\ "restart" \in Workload[t] \/ x = t \/ x \notin s.g_pidhash
    BY <1>3 DEF Restart, Makes
  <2> HIDE DEF c
  <2> QED BY <2>1, <2>2, LockedCallCounts
<1> QED BY <1>1, <1>2, <1>3

(* NInv is inductive.                                                      *)
LEMMA NextCounts ==
  ASSUME NInv, Careful, [ControlNext]_vars
  PROVE  NInv'
<1> SUFFICES s'.panic = {} /\ Counts(pc', s')
  BY CountsSuffice
<1>1. ASSUME NEW t \in Tasks, TaskStep(t)
      PROVE  s'.panic = {} /\ Counts(pc', s')
  <2>1. CASE Lock(t) \/ Unlock(t)
    BY <2>1, LockCounts
  <2>2. CASE YieldRead(t) \/ \E x \in Tasks, pri \in SetPriorities, rr \in BOOLEAN : SetScheduler(t, x, pri, rr)
    BY <2>2, UnlockedCallCounts
  <2>3. CASE \E x \in Tasks, pri \in SetPriorities : SetParam(t, x, pri)
    BY <2>3, BeginCounts
  <2>4. CASE SetSchedulerLock(t)
    BY <2>4, SetSchedulerLockCounts
  <2>5. CASE CallUnlock(t) \/ AssignPidUnlock(t) \/ SchedSetupUnlock(t)
    BY <2>5, UnlockCounts
  <2>6. CASE SetParamPriority(t) \/ SetPolicy(t) \/ SetPriority(t)
    BY <2>6, MiddleCounts
  <2>7. CASE YieldSet(t) \/ Activate(t)
    BY <2>7, ReturnCounts
  <2>8. CASE \E x \in Tasks, pri \in CreatePriorities : AssignPid(t, x, pri)
    BY <2>8, AssignPidCounts
  <2>9. CASE SchedSetup(t)
    BY <2>9, SchedSetupCounts
  <2>10. CASE \E st \in UsedWaits : Block(t, st)
    BY <2>10, BlockCounts
  <2>11. CASE Exit(t)
    BY <2>11, ExitCounts
  <2> QED BY <1>1, <2>1, <2>2, <2>3, <2>4, <2>5, <2>6, <2>7, <2>8, <2>9, <2>10, <2>11 DEF TaskStep
<1>2. ASSUME NEW t \in Tasks, ControlStep(t)
      PROVE  s'.panic = {} /\ Counts(pc', s')
  <2>1. CASE \E x \in Tasks : Delete(t, x) \/ Restart(t, x)
    BY <2>1, BeginCounts
  <2>2. CASE DeleteRemove(t)
    BY <2>2, DeleteRemoveCounts
  <2>8. CASE DeleteFinds(t)
    BY <2>8, DeleteFindsCounts
  <2>9. CASE ExitHookBlocks(t)
    BY <2>9, ExitHookBlocksCounts
  <2>3. CASE DeleteUnlock(t)
    BY <2>3, UnlockCounts
  <2>4. CASE DeleteRelease(t)
    BY <2>4, DeleteReleaseCounts
  <2>5. CASE RestartFails(t)
    BY <2>5, ReturnCounts
  <2>6. CASE RestartReset(t)
    BY <2>6, RestartResetCounts
  <2>7. CASE RestartActivate(t)
    BY <2>7, MiddleCounts
  <2> QED BY <1>2, <2>1, <2>2, <2>3, <2>4, <2>5, <2>6, <2>7, <2>8, <2>9 DEF ControlStep
<1> QED BY <1>1, <1>2, OtherCounts DEF ControlNext, Next

(* At the start only the idle task exists, and it has a pid and a list.    *)
LEMMA InitNInv == Init => NInv
<1> SUFFICES ASSUME Init PROVE NInv
  OBVIOUS
<1>1. TInv /\ s.panic = {} /\ ~Halted
  BY InitTInv DEF Init, InitSched, Halted
<1>2. /\ \A t \in Tasks : pc[t].at = "user" /\ s.lockcount[t] = 0
      /\ \A t \in Tasks \ {Idle} : s.task_state[t] = "INVALID"
      /\ s.task_state[Idle] = "RUNNING" /\ s.g_pidhash = {Idle}
  BY IdleAssumption DEF Init, InitSched, User
<1>3. "user" \notin Setup \cup CreateLabels \cup {"delete", "exithook", "restart"} \cup DeletedLabels
  BY DEF Setup, CreateLabels, DeletedLabels
<1>4. Counts(pc, s)
  BY <1>2, <1>3, InputsAssumption DEF Counts, Limits, Programs, Ended, Accounted, Found
<1> QED BY <1>1, <1>4 DEF NInv, TInv

(* No ASSERT fails and no PANIC is reached, whatever the tasks, the        *)
(* handlers and the clock do, as long as a task that exits has released    *)
(* pre-emption, locks nest less deep than the counter allows, and one task *)
(* deletes and restarts the others.                                        *)
THEOREM NoAssertionFails ==
  ASSUME Careful
  PROVE  ControlSpec => []NoPanic
<1>1. Init => NInv
  BY InitNInv
<1>2. NInv /\ [ControlNext]_vars => NInv'
  BY NextCounts
<1>3. NInv => NoPanic
  BY DEF NInv, NoPanic
<1> QED BY <1>1, <1>2, <1>3, PTL DEF ControlSpec

(* In particular for a system in which nobody deletes or restarts another. *)
THEOREM SchedulerDoesNotPanic ==
  ASSUME Careful
  PROVE  Spec => []NoPanic
<1>1. [Next]_vars => [ControlNext]_vars
  BY DEF ControlNext
<1>2. NInv /\ [ControlNext]_vars => NInv'
  BY NextCounts
<1>3. NInv => NoPanic
  BY DEF NInv, NoPanic
<1> QED BY <1>1, <1>2, <1>3, InitNInv, PTL DEF Spec
=============================================================================
