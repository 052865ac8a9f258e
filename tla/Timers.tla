------------------------------- MODULE Timers -------------------------------
(***************************************************************************)
(* What the watchdog timers promise (include/wdog.h and the headers of     *)
(* wd_start, wd_cancel and wd_gettime): each timer is a countdown of its   *)
(* own.  A started timer's function is called once, in the interrupt of    *)
(* the tick in which its count reaches zero, unless it is stopped or       *)
(* started again first; nothing that happens to another timer matters.     *)
(***************************************************************************)
EXTENDS Integers

CONSTANTS Wdogs, Delays

VARIABLES left,       \* the ticks that remain, or Stopped
          isr         \* "none", "loop" in the interrupt, or the timer whose
                      \* function runs

tvars == <<left, isr>>

Stopped == -1

(* The count of a timer started with a delay: at least delay whole ticks.  *)
Count(delay) == IF delay = 0 THEN 1 ELSE delay + 1

TInit ==
  /\ left = [w \in Wdogs |-> Stopped]
  /\ isr = "none"

(* A task, an interrupt handler, or the function of a timer.               *)
CallerRuns == isr # "loop"

TStart(w, delay) ==
  /\ CallerRuns /\ delay >= 0
  /\ left' = [left EXCEPT ![w] = Count(delay)]
  /\ UNCHANGED isr

TStop(w) ==
  /\ CallerRuns
  /\ left' = [left EXCEPT ![w] = Stopped]
  /\ UNCHANGED isr

(* A tick counts every started timer down.                                 *)
TTick ==
  /\ isr = "none"
  /\ left' = [w \in Wdogs |-> IF left[w] = Stopped THEN Stopped ELSE left[w] - 1]
  /\ isr' = "loop"

TCall(w) ==
  /\ isr = "loop" /\ left[w] = 0
  /\ left' = [left EXCEPT ![w] = Stopped]
  /\ isr' = w

TFuncReturn ==
  /\ isr \in Wdogs
  /\ isr' = "loop"
  /\ UNCHANGED left

(* The interrupt is over when no timer is due any more.                    *)
TTimerReturn ==
  /\ isr = "loop"
  /\ \A w \in Wdogs : left[w] # 0
  /\ isr' = "none"
  /\ UNCHANGED left

TNext ==
  \/ \E w \in Wdogs : (\E d \in Delays : TStart(w, d)) \/ TStop(w) \/ TCall(w)
  \/ TTick \/ TFuncReturn \/ TTimerReturn

TSpec == TInit /\ [][TNext]_tvars
=============================================================================
