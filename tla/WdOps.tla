------------------------------- MODULE WdOps --------------------------------
(***************************************************************************)
(* The watchdog timers (sched/wd_*.c): operators from a watchdog state to  *)
(* the one an operation leaves.  g_wdactivelist is a delta list: the lag   *)
(* of an entry counts the ticks that remain once the entry before it has   *)
(* expired, so that the timer interrupt only counts the head down.         *)
(*                                                                         *)
(* A watchdog state z is a record:                                         *)
(*   z.g_wdactivelist, z.g_wdfreelist   singly linked lists, as sequences  *)
(*   z.lag, z.active                    the fields of the watchdogs        *)
(*   z.wdnotfound                       PANIC(OSERR_WDOGNOTFOUND) was met  *)
(* The function and the parameters of a watchdog are its own and are left  *)
(* out.                                                                    *)
(***************************************************************************)
EXTENDS TaskList

CONSTANT Wdogs            \* g_wdpool

ASSUME PoolAssumption == IsFiniteSet(Wdogs)

(* wd_initialize: the whole pool is free.                                  *)
wd_initialize ==
  [g_wdactivelist |-> <<>>,
   g_wdfreelist   |-> SetToSeq(Wdogs),
   lag            |-> [w \in Wdogs |-> 0],
   active         |-> [w \in Wdogs |-> FALSE],
   wdnotfound     |-> FALSE]

(* The `now' of the walks along the list: the lags summed up to an entry.  *)
Elapsed(z) ==
  LET q == z.g_wdactivelist
      now[i \in 0 .. Len(q)] == IF i = 0 THEN 0 ELSE now[i-1] + z.lag[q[i]]
  IN  now

(* wd_create: NULL when the pool is exhausted is left to the caller.       *)
wd_create(z) ==
  LET w == Head(z.g_wdfreelist)
  IN  [z EXCEPT !.g_wdfreelist = Tail(@), !.active[w] = FALSE]

(* A variant: the entry behind does not inherit the remaining ticks.       *)
wd_cancel_NoInherit(z, w) ==
  IF ~z.active[w] THEN z
  ELSE [z EXCEPT !.g_wdactivelist = dq_rem(@, w), !.active[w] = FALSE]

(* wd_cancel: the entry behind the watchdog inherits its remaining ticks.  *)
wd_cancel(z, w) ==
  LET q == z.g_wdactivelist
      i == CHOOSE n \in DOMAIN q : q[n] = w
  IN  IF ~z.active[w] THEN z
      ELSE IF ~Linked(q, w) THEN [z EXCEPT !.wdnotfound = TRUE, !.active[w] = FALSE]
      ELSE [z EXCEPT !.lag = IF i < Len(q) THEN [z.lag EXCEPT ![q[i+1]] = @ + z.lag[w]] ELSE z.lag,
                     !.g_wdactivelist = dq_rem(@, w),
                     !.active[w] = FALSE]

(* wd_delete: stop the watchdog and return it to the pool.                 *)
wd_delete(z, w) ==
  LET z1 == IF z.active[w] THEN wd_cancel(z, w) ELSE z
  IN  [z1 EXCEPT !.g_wdfreelist = Append(@, w)]

(* A variant: the delay as it is given.                                    *)
AtLeast_Exact(delay) == delay

(* delay+1, because part of the current tick is over; zero is one tick.    *)
(* INT_MAX, for which ++delay overflows, is not an input of the model.     *)
AtLeast(delay) == IF delay <= 0 THEN 1 ELSE delay + 1

(* Where the walk of wd_start ends: over the entries whose time is         *)
(* negative, then over those due no later than d, but not past the tail.   *)
StartPosition(now, n, d) ==
  LET positive == CHOOSE i \in 1 .. n : /\ i = n \/ now[i] >= 0
                                        /\ \A j \in 1 .. i - 1 : now[j] < 0
  IN  CHOOSE i \in positive .. n : /\ i = n \/ now[i] > d
                                   /\ \A j \in positive .. i - 1 : now[j] <= d

(* A variant: the lag of the entry behind the new one stays.               *)
Insert_KeepsLag(z, w, d) ==
  LET q   == z.g_wdactivelist
      now == Elapsed(z)
      i   == StartPosition(now, Len(q), d)
  IN  IF q = <<>> THEN [z EXCEPT !.g_wdactivelist = <<w>>, !.lag[w] = d]
      ELSE IF d < now[i]
      THEN [z EXCEPT !.g_wdactivelist = InsertAt(q, i, w), !.lag[w] = d - now[i-1]]
      ELSE [z EXCEPT !.g_wdactivelist = Append(q, w), !.lag[w] = d - now[i]]

(* The insertion of wd_start, in front of the entry where the walk ends or *)
(* behind it.                                                              *)
Insert(z, w, d) ==
  LET q      == z.g_wdactivelist
      now    == Elapsed(z)
      i      == StartPosition(now, Len(q), d)
      before == d - (now[i] - z.lag[q[i]])
      after  == d - now[i]
  IN  IF q = <<>> THEN [z EXCEPT !.g_wdactivelist = <<w>>, !.lag[w] = d]
      ELSE IF d < now[i]
      THEN [z EXCEPT !.g_wdactivelist = InsertAt(q, i, w),
                     !.lag = [z.lag EXCEPT ![q[i]] = @ - before, ![w] = before]]
      ELSE [z EXCEPT !.g_wdactivelist = InsertAt(q, i + 1, w),
                     !.lag = [x \in Wdogs |->
                                IF x = w THEN after
                                ELSE IF i < Len(q) /\ x = q[i+1] THEN z.lag[x] - after
                                ELSE z.lag[x]]]

(* wd_start: a negative delay is EINVAL; an active watchdog is stopped     *)
(* first.                                                                  *)
wd_start(z, w, delay) ==
  LET z1 == IF z.active[w] THEN wd_cancel(z, w) ELSE z
  IN  IF delay < 0 THEN z
      ELSE [Insert(z1, w, AtLeast(delay)) EXCEPT !.active[w] = TRUE]

(* wd_gettime: the ticks that remain, zero for a watchdog not active.      *)
wd_gettime(z, w) ==
  LET q == z.g_wdactivelist
  IN  IF z.active[w] /\ Linked(q, w)
      THEN Elapsed(z)[CHOOSE i \in DOMAIN q : q[i] = w] ELSE 0

(* wd_timer counts the head down.                                          *)
TimerCounts(z) ==
  IF z.g_wdactivelist = <<>> THEN z
  ELSE [z EXCEPT !.lag[Head(z.g_wdactivelist)] = @ - 1]

(* The condition of wd_timer's loop.                                       *)
Expired(z) ==
  z.g_wdactivelist # <<>> /\ z.lag[Head(z.g_wdactivelist)] <= 0

(* A variant: the watchdog stays marked as active.                         *)
TimerRemoves_StaysActive(z) ==
  [z EXCEPT !.g_wdactivelist = Tail(@)]

(* A turn of the loop, up to the call of the watchdog's function.          *)
TimerRemoves(z) ==
  LET w    == Head(z.g_wdactivelist)
      rest == Tail(z.g_wdactivelist)
  IN  [z EXCEPT !.g_wdactivelist = rest,
                !.lag = IF rest = <<>> THEN z.lag ELSE [z.lag EXCEPT ![Head(rest)] = @ + z.lag[w]],
                !.active[w] = FALSE]
=============================================================================
