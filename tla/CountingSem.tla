---------------------------- MODULE CountingSem -----------------------------
(***************************************************************************)
(* What semaphores promise (the headers of sem_wait, sem_post, sem_trywait *)
(* and sem_timedwait).  A count is either available or taken by exactly    *)
(* one call; a task waits only while none is available; a post goes to a   *)
(* waiting task if there is one; a wait that is given up takes nothing;    *)
(* and a call reports success if and only if it took a count.              *)
(***************************************************************************)
EXTENDS Integers

CONSTANTS Tasks, Sems, InitCount

VARIABLES avail,      \* the counts available
          call,       \* per task: "out" of any wait, the semaphore it waits
                      \* for, or how its wait ended: "granted", "failed"
          ret         \* what each task's last call returned

cvars == <<avail, call, ret>>

CInit ==
  /\ avail = InitCount
  /\ call = [t \in Tasks |-> "out"]
  /\ ret = [t \in Tasks |-> "none"]

Take(t, m) ==
  /\ call[t] = "out" /\ avail[m] > 0
  /\ avail' = [avail EXCEPT ![m] = @ - 1]
  /\ ret' = [ret EXCEPT ![t] = "OK"]
  /\ UNCHANGED call

(* sem_trywait, a timeout that is over, or no watchdog for a timed wait.   *)
Refuse(t) ==
  /\ call[t] = "out"
  /\ ret' = [ret EXCEPT ![t] = "ERROR"]
  /\ UNCHANGED <<avail, call>>

Queue(t, m) ==
  /\ call[t] = "out" /\ avail[m] = 0
  /\ call' = [call EXCEPT ![t] = m]
  /\ UNCHANGED <<avail, ret>>

Post(m) ==
  /\ UNCHANGED ret
  /\ \/ /\ \A t \in Tasks : call[t] # m
        /\ avail' = [avail EXCEPT ![m] = @ + 1]
        /\ UNCHANGED call
     \/ /\ \E t \in Tasks : call[t] = m /\ call' = [call EXCEPT ![t] = "granted"]
        /\ UNCHANGED avail

GiveUp(t) ==
  /\ call[t] \in Sems
  /\ call' = [call EXCEPT ![t] = "failed"]
  /\ UNCHANGED <<avail, ret>>

Report(t) ==
  /\ call[t] \in {"granted", "failed"}
  /\ ret' = [ret EXCEPT ![t] = IF call[t] = "granted" THEN "OK" ELSE "ERROR"]
  /\ call' = [call EXCEPT ![t] = "out"]
  /\ UNCHANGED avail

CNext ==
  \/ \E t \in Tasks, m \in Sems : Take(t, m) \/ Queue(t, m)
  \/ \E t \in Tasks : Refuse(t) \/ GiveUp(t) \/ Report(t)
  \/ \E m \in Sems : Post(m)

CSpec == CInit /\ [][CNext]_cvars
=============================================================================
