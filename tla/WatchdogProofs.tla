--------------------------- MODULE WatchdogProofs ---------------------------
(***************************************************************************)
(* The watchdog timers, whoever calls them and from wherever: the marks    *)
(* and the lists agree, the lags are counts, and every watchdog is a       *)
(* countdown of its own.  The steps rest on WdOpsProofs.                   *)
(***************************************************************************)
EXTENDS Watchdog, WdOpsProofs

(* Between the steps the watchdogs are sound, and nothing is due outside   *)
(* the timer interrupt.                                                    *)
WdInv ==
  /\ WdSound(g)
  /\ isr \in {"none", "loop"} \cup Wdogs
  /\ isr = "none" => ~Expired(g)

(* The mapping of the refinement gives the abstract timers the ticks that  *)
(* remain.                                                                 *)
LEMMA Mapping ==
  /\ T!TInit <=> Left(g) = [w \in Wdogs |-> -1] /\ isr = "none"
  /\ \A w \in Wdogs, d \in Delays :
       T!TStart(w, d) <=> /\ isr # "loop" /\ d >= 0
                          /\ Left(g)' = [Left(g) EXCEPT ![w] = IF d = 0 THEN 1 ELSE d + 1]
                          /\ UNCHANGED isr
  /\ \A w \in Wdogs :
       T!TStop(w) <=> isr # "loop" /\ Left(g)' = [Left(g) EXCEPT ![w] = -1] /\ UNCHANGED isr
  /\ T!TTick <=> /\ isr = "none" /\ isr' = "loop"
                 /\ Left(g)' = [w \in Wdogs |-> IF Left(g)[w] = -1 THEN -1 ELSE Left(g)[w] - 1]
  /\ \A w \in Wdogs :
       T!TCall(w) <=> /\ isr = "loop" /\ Left(g)[w] = 0 /\ isr' = w
                      /\ Left(g)' = [Left(g) EXCEPT ![w] = -1]
  /\ T!TFuncReturn <=> isr \in Wdogs /\ isr' = "loop" /\ UNCHANGED Left(g)
  /\ T!TTimerReturn <=> /\ isr = "loop" /\ isr' = "none" /\ UNCHANGED Left(g)
                        /\ \A w \in Wdogs : Left(g)[w] # 0
BY DEF T!TInit, T!TStart, T!TStop, T!TTick, T!TCall, T!TFuncReturn, T!TTimerReturn, T!Stopped, T!Count, T!CallerRuns, Left

(* Every step keeps the invariant, and is a step of the abstract timers or *)
(* none.                                                                   *)
LEMMA StepSound ==
  ASSUME WdInv, Next
  PROVE  WdInv' /\ (T!TNext \/ UNCHANGED <<Left(g), isr>>)
<1>1. CASE Create
  <2>1. WdSound(g') /\ Left(g') = Left(g) /\ isr' = isr
    BY <1>1, CreateSound DEF Create, WdInv
  <2>2. Expired(g') <=> Expired(g)
    BY <2>1, ExpiredIsDue DEF WdInv
  <2> QED BY <2>1, <2>2 DEF WdInv
<1>2. ASSUME NEW w \in Wdogs, NEW d \in Delays, Start(w, d)
      PROVE  WdInv' /\ (T!TNext \/ UNCHANGED <<Left(g), isr>>)
  <2>0. d \in Int /\ ~Linked(g.g_wdfreelist, w) /\ isr' = isr /\ isr # "loop" /\ WdSound(g)
    BY <1>2, DelaysAssumption DEF Start, Created, Caller, WdInv
  <2>1. CASE d < 0
    <3>1. g' = g
      BY <1>2, <2>1 DEF Start, wd_start
    <3> QED BY <2>0, <3>1 DEF WdInv
  <2>2. CASE ~(d < 0)
    <3>0. d \in Nat /\ d >= 0 /\ AtLeast(d) = (IF d = 0 THEN 1 ELSE d + 1)
      BY <2>0, <2>2 DEF AtLeast
    <3>1. WdSound(g') /\ Left(g') = [Left(g) EXCEPT ![w] = AtLeast(d)]
      <4>1. g' = wd_start(g, w, d)
        BY <1>2 DEF Start
      <4> QED BY <4>1, <2>0, <3>0, StartSound
    <3>2. AtLeast(d) \in Int /\ AtLeast(d) # 0
      BY <3>0
    <3>3. ~Expired(g) => ~Expired(g')
      BY <2>0, <3>1, <3>2, NotDueStays
    <3>4. T!TStart(w, d)
      BY <2>0, <3>0, <3>1, Mapping
    <3> QED BY <2>0, <3>1, <3>3, <3>4 DEF WdInv, T!TNext
  <2> QED BY <2>1, <2>2
<1>3. ASSUME NEW w \in Wdogs, Cancel(w) \/ Delete(w)
      PROVE  WdInv' /\ (T!TNext \/ UNCHANGED <<Left(g), isr>>)
  <2>0. ~Linked(g.g_wdfreelist, w) /\ isr' = isr /\ isr # "loop" /\ WdSound(g)
    BY <1>3 DEF Cancel, Delete, Created, Caller, WdInv
  <2>1. WdSound(g') /\ Left(g') = [Left(g) EXCEPT ![w] = -1]
    <3>1. CASE Cancel(w)
      BY <2>0, <3>1, CancelSound DEF Cancel
    <3>2. CASE Delete(w)
      BY <2>0, <3>2, DeleteSound DEF Delete
    <3> QED BY <1>3, <3>1, <3>2
  <2>2. ~Expired(g) => ~Expired(g')
    BY <2>0, <2>1, NotDueStays
  <2>3. T!TStop(w)
    BY <2>0, <2>1, Mapping
  <2> QED BY <2>0, <2>1, <2>2, <2>3 DEF WdInv, T!TNext
<1>4. CASE Tick
  <2>0. isr = "none" /\ isr' = "loop" /\ WdSound(g) /\ ~Expired(g)
    BY <1>4 DEF Tick, WdInv
  <2>1. /\ WdSound(g')
        /\ Left(g') = [w \in Wdogs |-> IF Left(g)[w] = -1 THEN -1 ELSE Left(g)[w] - 1]
    BY <1>4, <2>0, CountsSound DEF Tick
  <2>2. T!TTick
    BY <2>0, <2>1, Mapping
  <2> QED BY <2>0, <2>1, <2>2 DEF WdInv, T!TNext
<1>5. CASE Expire
  <2>0. isr = "loop" /\ isr' = Head(g.g_wdactivelist) /\ WdSound(g) /\ Expired(g)
    BY <1>5 DEF Expire, WdInv
  <2>1. Head(g.g_wdactivelist) \in Wdogs /\ Left(g)[Head(g.g_wdactivelist)] = 0
    BY <2>0, ExpiredIsDue
  <2>2. /\ WdSound(g')
        /\ Left(g') = [Left(g) EXCEPT ![Head(g.g_wdactivelist)] = -1]
    BY <1>5, <2>0, RemovesSound DEF Expire
  <2>3. PICK w \in Wdogs : w = Head(g.g_wdactivelist)
    BY <2>1
  <2>4. T!TCall(w)
    BY <2>0, <2>1, <2>2, <2>3, Mapping
  <2>5. w # "none"
    BY IsrAssumption
  <2>6. WdInv'
    BY <2>0, <2>2, <2>3, <2>5 DEF WdInv
  <2> QED BY <2>4, <2>6 DEF T!TNext
<1>6. CASE FuncReturn
  <2>1. T!TFuncReturn
    BY <1>6, Mapping DEF FuncReturn
  <2> QED BY <1>6, <2>1 DEF FuncReturn, WdInv, T!TNext
<1>7. CASE TimerReturn
  <2>1. \A w \in Wdogs : Left(g)[w] # 0
    BY <1>7, ExpiredIsDue DEF TimerReturn, WdInv
  <2>2. T!TTimerReturn
    BY <1>7, <2>1, Mapping DEF TimerReturn
  <2> QED BY <1>7, <2>2 DEF TimerReturn, WdInv, T!TNext
<1> QED BY <1>1, <1>2, <1>3, <1>4, <1>5, <1>6, <1>7 DEF Next

(* The invariant holds throughout.                                         *)
LEMMA WdInvariant == Spec => []WdInv
<1>1. Init => WdInv
  BY InitSound DEF Init, WdInv
<1>2. WdInv /\ [Next]_vars => WdInv'
  <2>1. CASE Next
    BY <2>1, StepSound
  <2>2. CASE UNCHANGED vars
    BY <2>2 DEF vars, WdInv
  <2> QED BY <2>1, <2>2
<1> QED BY <1>1, <1>2, PTL DEF Spec

-----------------------------------------------------------------------------
(* For every pool and all delays: a watchdog is marked active exactly      *)
(* while it is linked, once, in the timer queue, and then it is not free;  *)
(* wd_cancel never meets OSERR_WDOGNOTFOUND.                               *)
THEOREM MarkedIsLinkedAlways == Spec => []MarkedIsLinked
<1>1. WdInv => MarkedIsLinked
  BY DEF WdInv, WdSound, MarkedIsLinked
<1> QED BY <1>1, WdInvariant, PTL

(* For every pool and all delays: no lag of an active watchdog is ever     *)
(* negative, and outside the timer interrupt none is due: the walk "to     *)
(* positive time" of wd_start has nothing to skip.                         *)
THEOREM LagsAreCountsAlways == Spec => []LagsAreCounts
<1>1. WdInv => LagsAreCounts
  BY DEF WdInv, WdSound, LagsAreCounts
<1> QED BY <1>1, WdInvariant, PTL

(* For every pool and all delays: the delta list of wd_start, wd_cancel,   *)
(* wd_delete and wd_timer implements one countdown per watchdog, which     *)
(* what happens to the others does not change.                             *)
THEOREM CountdownsOfTheirOwn == Spec => OwnCountdown
<1>1. Init => T!TInit
  BY InitSound, Mapping DEF Init
<1>2. WdInv /\ [Next]_vars => [T!TNext]_(T!tvars)
  <2>0. UNCHANGED <<Left(g), isr>> => UNCHANGED T!tvars
    BY DEF T!tvars, Left
  <2>1. CASE Next
    BY <2>0, <2>1, StepSound
  <2>2. CASE UNCHANGED vars
    BY <2>0, <2>2 DEF vars
  <2> QED BY <2>1, <2>2
<1> QED BY <1>1, <1>2, WdInvariant, PTL DEF Spec, OwnCountdown, T!TSpec
=============================================================================
