------------------------------ MODULE Watchdog ------------------------------
(***************************************************************************)
(* Tasks and interrupt handlers that use watchdog timers, and the timer    *)
(* interrupt that runs wd_timer.  Each wd_ call disables interrupts from   *)
(* beginning to end, so it is one step.  wd_timer is several: it calls the *)
(* function of each expired watchdog, and such a function may itself       *)
(* create, start, cancel and delete watchdogs, its own included, while     *)
(* wd_timer is in the middle of its loop.                                  *)
(***************************************************************************)
EXTENDS WdOps

CONSTANT Delays           \* the delays passed to wd_start

ASSUME DelaysAssumption == Delays \subseteq Int

(* The values of isr that are not watchdogs.                               *)
ASSUME IsrAssumption == "none" \notin Wdogs /\ "loop" \notin Wdogs

VARIABLES g,              \* the watchdog state of WdOps
          isr             \* where wd_timer is: "none", "loop", or the
                          \* watchdog whose function it calls

vars == <<g, isr>>

Init ==
  /\ g = wd_initialize
  /\ isr = "none"

(* A wd_ call of a task, of an interrupt handler or of a watchdog function. *)
Caller == isr # "loop" /\ ~g.wdnotfound

(* A caller uses a WDOG_ID between wd_create and wd_delete: "The caller    *)
(* has assured that the watchdog is no longer in use".                     *)
Created(w) == ~Linked(g.g_wdfreelist, w)

Create ==
  /\ Caller
  /\ g.g_wdfreelist # <<>>
  /\ g' = wd_create(g)
  /\ UNCHANGED isr

Start(w, delay) ==
  /\ Caller /\ Created(w)
  /\ g' = wd_start(g, w, delay)
  /\ UNCHANGED isr

Cancel(w) ==
  /\ Caller /\ Created(w)
  /\ g' = wd_cancel(g, w)
  /\ UNCHANGED isr

Delete(w) ==
  /\ Caller /\ Created(w)
  /\ g' = wd_delete(g, w)
  /\ UNCHANGED isr

(* wd_timer is called from the timer interrupt.                            *)
Tick ==
  /\ isr = "none" /\ ~g.wdnotfound
  /\ g' = TimerCounts(g)
  /\ isr' = "loop"

Expire ==
  /\ isr = "loop"
  /\ Expired(g)
  /\ g' = TimerRemoves(g)
  /\ isr' = Head(g.g_wdactivelist)

FuncReturn ==
  /\ isr \in Wdogs /\ ~g.wdnotfound
  /\ isr' = "loop"
  /\ UNCHANGED g

TimerReturn ==
  /\ isr = "loop"
  /\ ~Expired(g)
  /\ isr' = "none"
  /\ UNCHANGED g

Next ==
  \/ Create
  \/ \E w \in Wdogs : (\E d \in Delays : Start(w, d)) \/ Cancel(w) \/ Delete(w)
  \/ Tick \/ Expire \/ FuncReturn \/ TimerReturn

Spec == Init /\ [][Next]_vars

(* The timer interrupt keeps coming, the handler runs to its end, and the  *)
(* function of a watchdog returns.                                         *)
FairSpec == Spec /\ WF_vars(Tick) /\ WF_vars(Expire \/ TimerReturn) /\ WF_vars(FuncReturn)

-----------------------------------------------------------------------------
(* A watchdog is marked active exactly while it is linked in the timer     *)
(* queue, and then it is linked once and is not free: wd_start, wd_cancel  *)
(* and wd_delete look at the mark only, whoever starts, stops, deletes or  *)
(* recycles watchdogs and from wherever.  OSERR_WDOGNOTFOUND stays away.   *)
MarkedIsLinked ==
  /\ ~g.wdnotfound
  /\ Distinct(g.g_wdactivelist) /\ Distinct(g.g_wdfreelist)
  /\ \A w \in Wdogs : g.active[w] <=> Linked(g.g_wdactivelist, w)
  /\ \A w \in Wdogs : ~(g.active[w] /\ Linked(g.g_wdfreelist, w))

(* The lags never go negative: the "this shouldn't be necessary" of        *)
(* wd_timer and the walk "to positive time" of wd_start are indeed so.     *)
(* Outside the timer interrupt nothing is due.                             *)
LagsAreCounts ==
  /\ \A w \in Wdogs : g.active[w] => g.lag[w] >= 0
  /\ isr = "none" => ~Expired(g)

(* Every watchdog is a countdown of its own: the delta list implements     *)
(* Timers, with wd_gettime telling the ticks that remain.                  *)
T == INSTANCE Timers WITH
       left <- [w \in Wdogs |-> IF g.active[w] THEN wd_gettime(g, w) ELSE -1]

OwnCountdown == T!TSpec

(* wd_timer comes to an end, even when the functions it calls start their  *)
(* own watchdog again with no delay.                                       *)
InterruptEnds == isr # "none" ~> isr = "none"

(* A watchdog does not stay active for ever, unless it is started again    *)
(* and again: others that are started ahead of it do not hold it back.     *)
ExpiresUnlessRestarted ==
  \A w \in Wdogs :
    <>[](g.active[w]) => []<><<\E d \in Delays : Start(w, d)>>_vars
=============================================================================
