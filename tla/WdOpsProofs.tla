---------------------------- MODULE WdOpsProofs -----------------------------
(***************************************************************************)
(* The delta list of the watchdog timers: what each operation of WdOps     *)
(* does to the ticks that remain to every watchdog, for a pool of any      *)
(* size, any delays and any list that the operations can leave.            *)
(***************************************************************************)
EXTENDS WdOps, TaskListProofs, FiniteSetTheorems

WdStates ==
  [g_wdactivelist : Seq(Wdogs), g_wdfreelist : Seq(Wdogs), lag : [Wdogs -> Int],
   active : [Wdogs -> BOOLEAN], wdnotfound : BOOLEAN]

(* The mark, the lists and the lags of a watchdog agree.                   *)
WdSound(z) ==
  /\ z \in WdStates
  /\ ~z.wdnotfound
  /\ Distinct(z.g_wdactivelist) /\ Distinct(z.g_wdfreelist)
  /\ \A w \in Wdogs : z.active[w] <=> Linked(z.g_wdactivelist, w)
  /\ \A w \in Wdogs : ~(z.active[w] /\ Linked(z.g_wdfreelist, w))
  /\ \A w \in Wdogs : z.active[w] => z.lag[w] >= 0

(* The ticks that remain to each watchdog, -1 for one that is not active.  *)
Left(z) == [w \in Wdogs |-> IF z.active[w] THEN wd_gettime(z, w) ELSE -1]

(* f sums the lags up along the list.                                      *)
SumsLags(f, z) ==
  /\ f[0] = 0
  /\ \A k \in 1 .. Len(z.g_wdactivelist) : f[k] = f[k-1] + z.lag[z.g_wdactivelist[k]]

-----------------------------------------------------------------------------
(* The walk along the list is well defined, entry by entry.                *)
LEMMA ElapsedTurns ==
  ASSUME NEW z \in WdStates
  PROVE  SumsLags(Elapsed(z), z)
<1> DEFINE q == z.g_wdactivelist
           one(f, k) == f[k-1] + z.lag[q[k]]
           turns(f, n) == [k \in 0 .. n |-> IF k = 0 THEN 0 ELSE one(f, k)]
           Upto(n) == \E f : f = turns(f, n)
           T == {n \in Nat : ~Upto(n)}
<1>0. q \in Seq(Wdogs) /\ Len(q) \in Nat
  BY LenProperties DEF WdStates
<1> HIDE DEF q
<1>1. Upto(0)
  <2>1. [k \in 0 .. 0 |-> 0] = turns([k \in 0 .. 0 |-> 0], 0)
    OBVIOUS
  <2> QED BY <2>1
<1>2. ASSUME NEW n \in Nat, Upto(n) PROVE Upto(n + 1)
  <2>1. PICK f : f = turns(f, n)
    BY <1>2
  <2> DEFINE h == [k \in 0 .. n + 1 |-> IF k <= n THEN f[k] ELSE one(f, k)]
  <2>2. \A k \in 0 .. n : f[k] = IF k = 0 THEN 0 ELSE one(f, k)
    BY <2>1
  <2>3. ASSUME NEW k \in 0 .. n + 1 PROVE h[k] = IF k = 0 THEN 0 ELSE one(h, k)
    <3>1. CASE k = 0
      BY <3>1, <2>2
    <3>2. CASE k # 0
      <4>1. k - 1 \in 0 .. n /\ h[k - 1] = f[k - 1]
        BY <3>2
      <4>2. h[k] = one(f, k)
        BY <3>2, <2>2
      <4> HIDE DEF h
      <4> QED BY <3>2, <4>1, <4>2
    <3> QED BY <3>1, <3>2
  <2>4. h = [k \in 0 .. n + 1 |-> h[k]]
    OBVIOUS
  <2>5. h = turns(h, n + 1)
    <3> HIDE DEF h
    <3> QED BY <2>3, <2>4
  <2> HIDE DEF h, turns
  <2> QED BY <2>5
<1>3. T = {}
  <2> HIDE DEF Upto
  <2> SUFFICES ASSUME T # {} PROVE FALSE
    OBVIOUS
  <2>1. T \in SUBSET Nat
    OBVIOUS
  <2>2. PICK n \in T : \A k \in T : n <= k
    <3> HIDE DEF T
    <3> QED BY <2>1, LeastNatural
  <2>3. n # 0 /\ n \in Nat
    BY <1>1
  <2>4. n - 1 \in Nat /\ n - 1 \notin T
    BY <2>2, <2>3
  <2>5. Upto((n - 1) + 1)
    BY <1>2, <2>4
  <2> QED BY <2>2, <2>3, <2>5
<1>4. Upto(Len(q))
  <2> HIDE DEF Upto
  <2> QED BY <1>0, <1>3
<1> DEFINE m == CHOOSE f : f = turns(f, Len(q))
<1>5. m = turns(m, Len(q))
  <2> HIDE DEF turns
  <2> QED BY <1>4
<1>6. Elapsed(z) = m
  BY DEF Elapsed, q
<1> HIDE DEF m
<1>7. m[0] = 0 /\ \A k \in 1 .. Len(q) : m[k] = one(m, k)
  BY <1>0, <1>5
<1> QED BY <1>6, <1>7 DEF q, SumsLags

(* Nothing else sums the lags up: two walks agree at every entry.          *)
LEMMA ElapsedUnique ==
  ASSUME NEW z \in WdStates, NEW f, SumsLags(f, z)
  PROVE  \A k \in 0 .. Len(z.g_wdactivelist) : f[k] = Elapsed(z)[k]
<1> DEFINE q == z.g_wdactivelist
           e == Elapsed(z)
           T == {n \in Nat : n <= Len(q) /\ f[n] # e[n]}
<1>0. Len(q) \in Nat
  BY LenProperties DEF WdStates
<1>1. SumsLags(e, z)
  BY ElapsedTurns
<1> HIDE DEF e
<1>2. ASSUME T # {} PROVE FALSE
  <2>1. PICK n \in T : \A k \in T : n <= k
    <3>1. T \in SUBSET Nat
      OBVIOUS
    <3> HIDE DEF T
    <3> QED BY <1>2, <3>1, LeastNatural
  <2>2. n \in Nat /\ n <= Len(q) /\ f[n] # e[n]
    OBVIOUS
  <2>3. n # 0
    BY <2>2, <1>1 DEF SumsLags
  <2>4. n - 1 \in Nat /\ n - 1 \notin T
    BY <2>1, <2>2, <2>3
  <2>5. f[n - 1] = e[n - 1] /\ n \in 1 .. Len(q)
    BY <2>2, <2>3, <2>4, <1>0
  <2>6. f[n] = f[n-1] + z.lag[q[n]] /\ e[n] = e[n-1] + z.lag[q[n]]
    BY <2>5, <1>1 DEF SumsLags
  <2> QED BY <2>2, <2>5, <2>6
<1>3. \A k \in 0 .. Len(q) : f[k] = e[k]
  BY <1>0, <1>2
<1> QED BY <1>3 DEF e

(* The sums are integers, and never decrease when no lag is negative.      *)
LEMMA ElapsedGrows ==
  ASSUME NEW z, WdSound(z)
  PROVE  LET q == z.g_wdactivelist
             e == Elapsed(z)
         IN  /\ \A k \in 0 .. Len(q) : e[k] \in Int /\ e[k] >= 0
             /\ \A k \in 1 .. Len(q) : z.lag[q[k]] \in Int /\ z.lag[q[k]] >= 0
             /\ \A j, k \in 0 .. Len(q) : j <= k => e[j] <= e[k]
<1> DEFINE q == z.g_wdactivelist
           e == Elapsed(z)
           T == {n \in Nat : n <= Len(q) /\ ~(/\ e[n] \in Int
                                              /\ \A j \in 0 .. n : e[j] \in Int /\ e[j] <= e[n])}
<1>0. z \in WdStates /\ q \in Seq(Wdogs) /\ Len(q) \in Nat /\ DOMAIN q = 1 .. Len(q)
  BY LenProperties DEF WdStates, WdSound
<1>1. SumsLags(e, z)
  BY <1>0, ElapsedTurns
<1>2. \A k \in 1 .. Len(q) : z.lag[q[k]] \in Int /\ z.lag[q[k]] >= 0
  <2> TAKE k \in 1 .. Len(q)
  <2>1. q[k] \in Wdogs /\ Linked(q, q[k])
    BY <1>0, ElementOfSeq DEF Linked
  <2> QED BY <2>1, <1>0 DEF WdSound, WdStates
<1> HIDE DEF e
<1>3. ASSUME T # {} PROVE FALSE
  <2>1. PICK n \in T : \A k \in T : n <= k
    <3>1. T \in SUBSET Nat
      OBVIOUS
    <3> HIDE DEF T
    <3> QED BY <1>3, <3>1, LeastNatural
  <2>2. n \in Nat /\ n <= Len(q)
    OBVIOUS
  <2>3. n # 0
    <3> SUFFICES ASSUME n = 0 PROVE FALSE
      OBVIOUS
    <3>1. e[0] = 0
      BY <1>1 DEF SumsLags
    <3>2. \A j \in 0 .. 0 : j = 0
      OBVIOUS
    <3> QED BY <3>1, <3>2
  <2>4. n - 1 \in Nat /\ n - 1 \notin T
    BY <2>1, <2>2, <2>3
  <2>5. n \in 1 .. Len(q) /\ e[n-1] \in Int /\ \A j \in 0 .. n - 1 : e[j] \in Int /\ e[j] <= e[n-1]
    BY <2>2, <2>3, <2>4, <1>0
  <2>6. e[n] = e[n-1] + z.lag[q[n]]
    BY <2>5, <1>1 DEF SumsLags
  <2>7. e[n] \in Int /\ e[n-1] <= e[n]
    BY <2>5, <2>6, <1>2
  <2>8. ASSUME NEW j \in 0 .. n PROVE e[j] \in Int /\ e[j] <= e[n]
    <3>1. CASE j = n
      BY <3>1, <2>7
    <3>2. CASE j # n
      BY <3>2, <2>2, <2>5, <2>7
    <3> QED BY <3>1, <3>2
  <2> QED BY <2>2, <2>7, <2>8
<1>4. ASSUME NEW k \in 0 .. Len(q)
      PROVE  e[k] \in Int /\ \A j \in 0 .. k : e[j] \in Int /\ e[j] <= e[k]
  BY <1>0, <1>3
<1>5. e[0] = 0
  BY <1>1 DEF SumsLags
<1>6. ASSUME NEW k \in 0 .. Len(q) PROVE e[k] >= 0
  <2>1. 0 \in 0 .. k
    BY <1>0
  <2> QED BY <2>1, <1>4, <1>5
<1> HIDE DEF q, T
<1>7. ASSUME NEW j \in 0 .. Len(q), NEW k \in 0 .. Len(q), j <= k PROVE e[j] <= e[k]
  <2>1. j \in 0 .. k
    BY <1>0, <1>7
  <2> QED BY <2>1, <1>4
<1> QED BY <1>2, <1>4, <1>6, <1>7 DEF q, e

(* A sound state, field by field.                                          *)
LEMMA WdTypes ==
  ASSUME NEW z, WdSound(z)
  PROVE  /\ z \in WdStates
         /\ z.g_wdactivelist \in Seq(Wdogs) /\ z.g_wdfreelist \in Seq(Wdogs)
         /\ Len(z.g_wdactivelist) \in Nat
         /\ DOMAIN z.g_wdactivelist = 1 .. Len(z.g_wdactivelist)
         /\ \A k \in 1 .. Len(z.g_wdactivelist) :
              /\ z.g_wdactivelist[k] \in Wdogs
              /\ z.active[z.g_wdactivelist[k]]
         /\ \A j, k \in 1 .. Len(z.g_wdactivelist) :
              z.g_wdactivelist[j] = z.g_wdactivelist[k] => j = k
         /\ \A w \in Wdogs : z.active[w] =>
              \E k \in 1 .. Len(z.g_wdactivelist) : z.g_wdactivelist[k] = w
         /\ z.lag \in [Wdogs -> Int] /\ z.active \in [Wdogs -> BOOLEAN]
<1> DEFINE q == z.g_wdactivelist
<1>1. /\ z \in WdStates /\ q \in Seq(Wdogs) /\ z.g_wdfreelist \in Seq(Wdogs)
      /\ z.lag \in [Wdogs -> Int] /\ z.active \in [Wdogs -> BOOLEAN]
  BY DEF WdSound, WdStates
<1>2. Len(q) \in Nat /\ DOMAIN q = 1 .. Len(q)
  BY <1>1, LenProperties
<1>3. \A k \in 1 .. Len(q) : q[k] \in Wdogs /\ Linked(q, q[k])
  BY <1>1, <1>2, ElementOfSeq DEF Linked
<1>4. \A w \in Wdogs : z.active[w] <=> Linked(q, w)
  BY DEF WdSound
<1>5. \A w \in Wdogs : z.active[w] => \E k \in 1 .. Len(q) : q[k] = w
  BY <1>2, <1>4 DEF Linked
<1>6. \A j, k \in 1 .. Len(q) : q[j] = q[k] => j = k
  BY <1>2 DEF WdSound, Distinct
<1> QED BY <1>1, <1>2, <1>3, <1>4, <1>5, <1>6

(* Whatever sums the lags up tells the ticks that remain.                  *)
LEMMA LeftIsSum ==
  ASSUME NEW z, WdSound(z), NEW f, SumsLags(f, z)
  PROVE  /\ \A k \in 1 .. Len(z.g_wdactivelist) : Left(z)[z.g_wdactivelist[k]] = f[k]
         /\ \A w \in Wdogs : ~z.active[w] => Left(z)[w] = -1
<1> DEFINE q == z.g_wdactivelist
<1>1. /\ z \in WdStates /\ Len(q) \in Nat /\ DOMAIN q = 1 .. Len(q)
      /\ \A k \in 1 .. Len(q) : q[k] \in Wdogs /\ z.active[q[k]]
      /\ \A j, k \in 1 .. Len(q) : q[j] = q[k] => j = k
  BY WdTypes
<1>2. ASSUME NEW k \in 1 .. Len(q) PROVE Left(z)[q[k]] = f[k]
  <2>1. q[k] \in Wdogs /\ z.active[q[k]] /\ Linked(q, q[k])
    BY <1>1 DEF Linked
  <2>2. (CHOOSE i \in DOMAIN q : q[i] = q[k]) = k
    BY <1>1
  <2>3. wd_gettime(z, q[k]) = Elapsed(z)[k]
    BY <2>1, <2>2 DEF wd_gettime
  <2>4. f[k] = Elapsed(z)[k]
    BY <1>1, ElapsedUnique
  <2> QED BY <2>1, <2>3, <2>4 DEF Left
<1>3. \A w \in Wdogs : ~z.active[w] => Left(z)[w] = -1
  BY DEF Left
<1> QED BY <1>2, <1>3

(* An active watchdog has ticks left or is due, and the head is due when   *)
(* any watchdog is: the condition of wd_timer's loop looks at all of them. *)
LEMMA ExpiredIsDue ==
  ASSUME NEW z, WdSound(z)
  PROVE  /\ Expired(z) <=> \E w \in Wdogs : Left(z)[w] = 0
         /\ Expired(z) => Left(z)[Head(z.g_wdactivelist)] = 0 /\ Head(z.g_wdactivelist) \in Wdogs
         /\ \A w \in Wdogs : /\ Left(z)[w] \in Int
                             /\ z.active[w] => Left(z)[w] >= 0
                             /\ ~z.active[w] => Left(z)[w] = -1
<1> DEFINE q == z.g_wdactivelist
           e == Elapsed(z)
<1>1. /\ z \in WdStates /\ q \in Seq(Wdogs) /\ Len(q) \in Nat
      /\ \A k \in 1 .. Len(q) : q[k] \in Wdogs /\ z.active[q[k]]
      /\ \A w \in Wdogs : z.active[w] => \E k \in 1 .. Len(q) : q[k] = w
  BY WdTypes
<1>2. SumsLags(e, z)
  BY <1>1, ElapsedTurns
<1>3. /\ \A k \in 1 .. Len(q) : Left(z)[q[k]] = e[k]
      /\ \A w \in Wdogs : ~z.active[w] => Left(z)[w] = -1
  BY <1>2, LeftIsSum
<1>4. /\ \A k \in 0 .. Len(q) : e[k] \in Int /\ e[k] >= 0
      /\ \A k \in 1 .. Len(q) : z.lag[q[k]] \in Int /\ z.lag[q[k]] >= 0
      /\ \A j, k \in 0 .. Len(q) : j <= k => e[j] <= e[k]
  BY ElapsedGrows
<1> HIDE DEF e
<1>5. ASSUME NEW w \in Wdogs
      PROVE  Left(z)[w] \in Int /\ (z.active[w] => Left(z)[w] >= 0) /\ (~z.active[w] => Left(z)[w] = -1)
  <2>1. CASE z.active[w]
    <3>1. PICK k \in 1 .. Len(q) : q[k] = w
      BY <2>1, <1>1
    <3>2. k \in 0 .. Len(q)
      BY <1>1
    <3>3. e[k] \in Int /\ e[k] >= 0 /\ Left(z)[w] = e[k]
      BY <3>1, <3>2, <1>3, <1>4
    <3> QED BY <3>3, <2>1
  <2>2. CASE ~z.active[w]
    BY <2>2, <1>3
  <2> QED BY <2>1, <2>2
<1>6. ASSUME q # <<>>
      PROVE  /\ Head(q) = q[1] /\ 1 \in 1 .. Len(q) /\ q[1] \in Wdogs
             /\ e[1] = z.lag[q[1]] /\ Left(z)[q[1]] = z.lag[q[1]]
  <2>1. Len(q) > 0
    BY <1>1, <1>6, EmptySeq
  <2>2. 1 \in 1 .. Len(q) /\ Head(q) = q[1]
    BY <2>1, <1>1
  <2>3. e[1] = e[0] + z.lag[q[1]] /\ e[0] = 0
    BY <2>2, <1>2 DEF SumsLags
  <2> QED BY <2>2, <2>3, <1>1, <1>3, <1>4
<1>7. ASSUME Expired(z) PROVE Left(z)[Head(q)] = 0 /\ Head(q) \in Wdogs
  BY <1>4, <1>6, <1>7 DEF Expired
<1>8. ASSUME NEW w \in Wdogs, Left(z)[w] = 0 PROVE Expired(z)
  <2>1. PICK k \in 1 .. Len(q) : q[k] = w
    BY <1>1, <1>5, <1>8
  <2>2. q # <<>>
    BY <2>1, <1>1, EmptySeq
  <2>3. e[k] = 0 /\ 1 \in 0 .. Len(q) /\ k \in 0 .. Len(q) /\ 1 <= k
    BY <2>1, <1>1, <1>3, <1>8
  <2>4. e[1] <= 0
    BY <2>3, <1>4
  <2> QED BY <2>2, <2>4, <1>6 DEF Expired
<1> QED BY <1>5, <1>7, <1>8

(* wd_cancel, on a watchdog that runs or not: no other watchdog gains or   *)
(* loses a tick, and OSERR_WDOGNOTFOUND stays away.                        *)
LEMMA CancelSound ==
  ASSUME NEW z, WdSound(z), NEW w \in Wdogs
  PROVE  LET y == wd_cancel(z, w)
         IN  /\ WdSound(y)
             /\ y.active = [z.active EXCEPT ![w] = FALSE]
             /\ y.g_wdfreelist = z.g_wdfreelist
             /\ Left(y) = [Left(z) EXCEPT ![w] = -1]
<1> DEFINE q == z.g_wdactivelist
           r == dq_rem(q, w)
           e == Elapsed(z)
           y == wd_cancel(z, w)
           i == CHOOSE n \in DOMAIN q : q[n] = w
           lg == IF i < Len(q) THEN [z.lag EXCEPT ![q[i+1]] = @ + z.lag[w]] ELSE z.lag
           f == [k \in 0 .. Len(q) - 1 |-> IF k < i THEN e[k] ELSE e[k+1]]
<1>1. /\ z \in WdStates /\ q \in Seq(Wdogs) /\ Len(q) \in Nat /\ DOMAIN q = 1 .. Len(q)
      /\ \A k \in 1 .. Len(q) : q[k] \in Wdogs /\ z.active[q[k]]
      /\ \A j, k \in 1 .. Len(q) : q[j] = q[k] => j = k
      /\ \A x \in Wdogs : z.active[x] => \E k \in 1 .. Len(q) : q[k] = x
      /\ z.lag \in [Wdogs -> Int] /\ z.active \in [Wdogs -> BOOLEAN]
      /\ Distinct(q) /\ \A x \in Wdogs : z.active[x] <=> Linked(q, x)
  BY WdTypes DEF WdSound
<1>2. CASE ~z.active[w]
  <2>1. y = z
    BY <1>2 DEF wd_cancel
  <2>2. z.active = [z.active EXCEPT ![w] = FALSE]
    <3>1. z.active[w] = FALSE /\ z.active = [x \in Wdogs |-> z.active[x]]
      BY <1>1, <1>2
    <3> QED BY <3>1
  <2>3. Left(z) = [Left(z) EXCEPT ![w] = -1]
    BY <1>2 DEF Left
  <2> QED BY <2>1, <2>2, <2>3
<1>3. CASE z.active[w]
  <2>2. y = [z EXCEPT !.lag = lg, !.g_wdactivelist = r, !.active[w] = FALSE]
    <3>1. Linked(q, w)
      BY <1>1, <1>3
    <3> QED BY <3>1, <1>3 DEF wd_cancel
  <2>3. r = RemoveAt(q, i)
    BY DEF dq_rem
  <2> HIDE DEF q
  <2>1. i \in 1 .. Len(q) /\ q[i] = w /\ Linked(q, w) /\ Distinct(q)
    BY <1>1, <1>3 DEF Linked
  <2> HIDE DEF i, r, y
  <2>4. /\ r \in Seq(Wdogs) /\ Len(r) = Len(q) - 1
        /\ \A k \in 1 .. Len(q) - 1 : r[k] = IF k < i THEN q[k] ELSE q[k+1]
    <3>1. q \in Seq(Wdogs) /\ i \in 1 .. Len(q)
      BY <2>1, <1>1
    <3> QED BY <3>1, <2>3, RemoveAtPositions
  <2>5. Distinct(r) /\ \A x \in Wdogs : Linked(r, x) <=> Linked(q, x) /\ x # w
    BY <2>1, <1>1, DqRemUnlinks DEF r
  <2>6. /\ \A k \in 0 .. Len(q) : e[k] \in Int /\ e[k] >= 0
        /\ \A k \in 1 .. Len(q) : z.lag[q[k]] \in Int /\ z.lag[q[k]] >= 0
    BY ElapsedGrows DEF q
  <2>7. /\ SumsLags(e, z) /\ e[0] = 0
        /\ \A k \in 1 .. Len(q) : e[k] = e[k-1] + z.lag[q[k]]
    BY <1>1, ElapsedTurns DEF SumsLags, q
  <2> HIDE DEF e
  <2>8. /\ lg \in [Wdogs -> Int]
        /\ i < Len(q) => lg[q[i+1]] = z.lag[q[i+1]] + z.lag[w]
        /\ \A k \in 1 .. Len(q) : k # i + 1 => lg[q[k]] = z.lag[q[k]]
        /\ \A k \in 1 .. Len(q) : lg[q[k]] >= 0
    <3>1. CASE i < Len(q)
      <4>1. i + 1 \in 1 .. Len(q) /\ q[i+1] \in Wdogs
        BY <3>1, <2>1, <1>1
      <4>2. lg = [z.lag EXCEPT ![q[i+1]] = z.lag[q[i+1]] + z.lag[w]]
        BY <3>1
      <4>3. z.lag[q[i+1]] + z.lag[w] \in Int /\ z.lag[q[i+1]] + z.lag[w] >= 0
        BY <4>1, <2>1, <2>6
      <4> HIDE DEF lg
      <4>4. lg \in [Wdogs -> Int] /\ lg[q[i+1]] = z.lag[q[i+1]] + z.lag[w]
        BY <4>1, <4>2, <4>3, <1>1
      <4>5. \A k \in 1 .. Len(q) : k # i + 1 => lg[q[k]] = z.lag[q[k]]
        BY <4>1, <4>2, <1>1
      <4> QED BY <4>3, <4>4, <4>5, <2>6
    <3>2. CASE ~(i < Len(q))
      BY <3>2, <2>6, <1>1
    <3> QED BY <3>1, <3>2
  <2> HIDE DEF lg
  <2>9. /\ y \in WdStates /\ y.g_wdactivelist = r /\ y.lag = lg
        /\ y.active = [z.active EXCEPT ![w] = FALSE]
        /\ y.g_wdfreelist = z.g_wdfreelist /\ y.wdnotfound = z.wdnotfound
    BY <2>2, <2>4, <2>8, <1>1 DEF WdStates
  <2>10. WdSound(y)
    <3>1. ~y.wdnotfound /\ Distinct(y.g_wdactivelist) /\ Distinct(y.g_wdfreelist)
      BY <2>5, <2>9 DEF WdSound
    <3>2. \A x \in Wdogs : y.active[x] <=> z.active[x] /\ x # w
      BY <2>9, <1>1
    <3>3. \A x \in Wdogs : y.active[x] <=> Linked(y.g_wdactivelist, x)
      BY <3>2, <2>5, <2>9, <1>1
    <3>4. \A x \in Wdogs : ~(y.active[x] /\ Linked(y.g_wdfreelist, x))
      BY <3>2, <2>9 DEF WdSound
    <3>5. ASSUME NEW x \in Wdogs, y.active[x] PROVE y.lag[x] >= 0
      <4>1. PICK k \in 1 .. Len(q) : q[k] = x
        BY <3>2, <3>5, <1>1
      <4> QED BY <4>1, <2>8, <2>9
    <3> QED BY <2>9, <3>1, <3>3, <3>4, <3>5 DEF WdSound
  <2>11. SumsLags(f, y)
    <3>0. f[0] = 0
      BY <2>1, <2>7, <1>1
    <3>1. ASSUME NEW k \in 1 .. Len(q) - 1 PROVE f[k] = f[k-1] + lg[r[k]]
      <4>1. k \in 1 .. Len(q) /\ k + 1 \in 1 .. Len(q) /\ k - 1 \in 0 .. Len(q) - 1
            /\ k \in 0 .. Len(q) - 1
        BY <1>1
      <4>2. CASE k < i
        <5>1. f[k] = e[k] /\ f[k-1] = e[k-1] /\ r[k] = q[k]
          BY <4>1, <4>2, <2>1, <2>4, SMTT(30)
        <5>2. lg[q[k]] = z.lag[q[k]]
          BY <4>1, <4>2, <2>1, <2>8
        <5> QED BY <4>1, <5>1, <5>2, <2>7
      <4>3. CASE k = i
        <5>1. f[k] = e[i+1] /\ f[k-1] = e[i-1] /\ r[k] = q[i+1]
          BY <4>1, <4>3, <2>1, <2>4
        <5>2. lg[q[i+1]] = z.lag[q[i+1]] + z.lag[w] /\ z.lag[q[i+1]] \in Int /\ z.lag[w] \in Int
          BY <4>1, <4>3, <2>1, <2>6, <2>8
        <5>3. e[i+1] = e[i] + z.lag[q[i+1]] /\ e[i] = e[i-1] + z.lag[q[i]]
          <6>1. (i + 1) - 1 = i
            BY <2>1
          <6> QED BY <6>1, <4>1, <4>3, <2>7
        <5>4. e[i-1] \in Int
          BY <2>1, <2>6, <1>1
        <5> HIDE DEF f
        <5> QED BY <5>1, <5>2, <5>3, <5>4, <2>1
      <4>4. CASE k > i
        <5>1. f[k] = e[k+1] /\ f[k-1] = e[k] /\ r[k] = q[k+1]
          BY <4>1, <4>4, <2>1, <2>4
        <5>2. lg[q[k+1]] = z.lag[q[k+1]]
          BY <4>1, <4>4, <2>1, <2>8
        <5>3. e[k+1] = e[k] + z.lag[q[k+1]]
          <6>1. (k + 1) - 1 = k
            BY <4>1
          <6> QED BY <6>1, <4>1, <2>7
        <5> QED BY <5>1, <5>2, <5>3
      <4> QED BY <4>2, <4>3, <4>4, <2>1
    <3> HIDE DEF f
    <3> QED BY <3>0, <3>1, <2>4, <2>9 DEF SumsLags
  <2>12. /\ \A k \in 1 .. Len(q) - 1 : Left(y)[r[k]] = f[k]
         /\ \A x \in Wdogs : ~y.active[x] => Left(y)[x] = -1
    <3> HIDE DEF f
    <3>1. Len(y.g_wdactivelist) = Len(q) - 1 /\ y.g_wdactivelist = r
      BY <2>4, <2>9
    <3> QED BY <3>1, <2>10, <2>11, LeftIsSum
  <2>13. /\ \A k \in 1 .. Len(q) : Left(z)[q[k]] = e[k]
         /\ \A x \in Wdogs : ~z.active[x] => Left(z)[x] = -1
    BY <2>7, LeftIsSum DEF q
  <2>14. ASSUME NEW x \in Wdogs PROVE Left(y)[x] = IF x = w THEN -1 ELSE Left(z)[x]
    <3>1. CASE x = w
      BY <3>1, <2>9, <2>12, <1>1
    <3>2. CASE x # w /\ ~z.active[x]
      BY <3>2, <2>9, <2>12, <2>13, <1>1
    <3>3. CASE x # w /\ z.active[x]
      <4>1. PICK k \in 1 .. Len(q) : q[k] = x
        BY <3>3, <1>1
      <4>2. CASE k < i
        <5>1. k \in 1 .. Len(q) - 1 /\ r[k] = x /\ f[k] = e[k]
          BY <4>1, <4>2, <2>1, <2>4
        <5> QED BY <5>1, <4>1, <2>12, <2>13, <3>3, ZenonT(30)
      <4>3. CASE k > i
        <5>1. k - 1 \in 1 .. Len(q) - 1 /\ r[k-1] = x /\ f[k-1] = e[k]
          BY <4>1, <4>3, <2>1, <2>4
        <5>2. Left(y)[r[k-1]] = f[k-1] /\ Left(z)[q[k]] = e[k]
          BY <5>1, <2>12, <2>13
        <5> QED BY <5>1, <5>2, <4>1, <3>3
      <4> QED BY <4>1, <4>2, <4>3, <3>3, <2>1
    <3> QED BY <3>1, <3>2, <3>3
  <2>15. Left(y) = [Left(z) EXCEPT ![w] = -1]
    BY <2>14 DEF Left
  <2> QED BY <2>9, <2>10, <2>15 DEF y
<1> QED BY <1>2, <1>3

(* The ticks that remain depend on the timer queue only.                   *)
LEMMA SameTimers ==
  ASSUME NEW z, NEW y, y.g_wdactivelist = z.g_wdactivelist, y.lag = z.lag, y.active = z.active
  PROVE  Left(y) = Left(z)
<1>1. Elapsed(y) = Elapsed(z)
  BY DEF Elapsed
<1>2. \A w : wd_gettime(y, w) = wd_gettime(z, w)
  BY <1>1 DEF wd_gettime
<1> QED BY <1>2 DEF Left

(* Taking the head off a list unlinks it and nothing else.                 *)
LEMMA TailUnlinks ==
  ASSUME NEW S, NEW q \in Seq(S), q # <<>>, Distinct(q)
  PROVE  /\ Len(q) \in Nat /\ Len(q) > 0 /\ Head(q) = q[1] /\ q[1] \in S
         /\ Tail(q) \in Seq(S) /\ Len(Tail(q)) = Len(q) - 1
         /\ \A k \in 1 .. Len(q) - 1 : Tail(q)[k] = q[k+1]
         /\ Distinct(Tail(q))
         /\ \A x \in S : Linked(Tail(q), x) <=> Linked(q, x) /\ x # Head(q)
<1> DEFINE r == Tail(q)
<1>1. Len(q) \in Nat /\ Len(q) > 0 /\ DOMAIN q = 1 .. Len(q)
  BY LenProperties, EmptySeq
<1>2. /\ Head(q) = q[1] /\ q[1] \in S /\ r \in Seq(S) /\ Len(r) = Len(q) - 1
      /\ \A k \in 1 .. Len(q) - 1 : r[k] = q[k+1]
  BY <1>1, HeadTailProperties, ElementOfSeq
<1> HIDE DEF r
<1>3. DOMAIN r = 1 .. Len(q) - 1
  BY <1>2, LenProperties
<1>4. Distinct(r)
  <2> SUFFICES ASSUME NEW j \in 1 .. Len(q) - 1, NEW k \in 1 .. Len(q) - 1, r[j] = r[k]
               PROVE  j = k
    BY <1>3 DEF Distinct
  <2>1. j + 1 \in DOMAIN q /\ k + 1 \in DOMAIN q /\ q[j+1] = q[k+1]
    BY <1>1, <1>2
  <2>2. j + 1 = k + 1
    BY <2>1 DEF Distinct
  <2> QED BY <2>2
<1>5. ASSUME NEW x \in S PROVE Linked(r, x) <=> Linked(q, x) /\ x # Head(q)
  <2>1. ASSUME Linked(r, x) PROVE Linked(q, x) /\ x # Head(q)
    <3>1. PICK k \in 1 .. Len(q) - 1 : r[k] = x
      BY <2>1, <1>3 DEF Linked
    <3>2. k + 1 \in DOMAIN q /\ 1 \in DOMAIN q /\ k + 1 # 1 /\ q[k+1] = x
      BY <3>1, <1>1, <1>2
    <3> QED BY <3>2, <1>2 DEF Linked, Distinct
  <2>2. ASSUME Linked(q, x), x # Head(q) PROVE Linked(r, x)
    <3>1. PICK k \in 1 .. Len(q) : q[k] = x
      BY <2>2, <1>1 DEF Linked
    <3>2. k - 1 \in 1 .. Len(q) - 1 /\ r[k-1] = x
      BY <3>1, <2>2, <1>1, <1>2
    <3> QED BY <3>2, <1>3 DEF Linked
  <2> QED BY <2>1, <2>2
<1> QED BY <1>1, <1>2, <1>4, <1>5 DEF r

(* wd_create takes a watchdog that is not active, and no timer notices.    *)
LEMMA CreateSound ==
  ASSUME NEW z, WdSound(z), z.g_wdfreelist # <<>>
  PROVE  /\ WdSound(wd_create(z)) /\ Left(wd_create(z)) = Left(z)
         /\ Head(z.g_wdfreelist) \in Wdogs /\ Linked(z.g_wdfreelist, Head(z.g_wdfreelist))
         /\ \A x \in Wdogs : Linked(wd_create(z).g_wdfreelist, x) <=>
                              Linked(z.g_wdfreelist, x) /\ x # Head(z.g_wdfreelist)
<1> DEFINE q == z.g_wdfreelist
           y == wd_create(z)
           w == Head(q)
<1>1. z \in WdStates /\ q \in Seq(Wdogs) /\ Distinct(q) /\ z.active \in [Wdogs -> BOOLEAN]
  BY WdTypes DEF WdSound
<1>2. /\ w = q[1] /\ q[1] \in Wdogs /\ Len(q) \in Nat /\ Len(q) > 0
      /\ Tail(q) \in Seq(Wdogs) /\ Distinct(Tail(q))
      /\ \A x \in Wdogs : Linked(Tail(q), x) <=> Linked(q, x) /\ x # w
  BY <1>1, TailUnlinks
<1>3. w \in Wdogs /\ Linked(q, w)
  <2>1. DOMAIN q = 1 .. Len(q)
    BY <1>1, LenProperties
  <2> QED BY <2>1, <1>2 DEF Linked
<1>4. z.active[w] = FALSE
  BY <1>1, <1>3 DEF WdSound
<1>5. y = [z EXCEPT !.g_wdfreelist = Tail(q), !.active[w] = FALSE]
  BY DEF wd_create
<1> HIDE DEF q, w, y
<1>6. [z.active EXCEPT ![w] = FALSE] = z.active
  BY <1>1, <1>3, <1>4
<1>7. /\ y \in WdStates /\ y.g_wdactivelist = z.g_wdactivelist /\ y.lag = z.lag
      /\ y.active = z.active /\ y.g_wdfreelist = Tail(q) /\ y.wdnotfound = z.wdnotfound
  <2>1. y.active = [z.active EXCEPT ![w] = FALSE]
    BY <1>1, <1>5 DEF WdStates
  <2> QED BY <2>1, <1>1, <1>2, <1>5, <1>6 DEF WdStates
<1>8. WdSound(y)
  BY <1>2, <1>7 DEF WdSound, q
<1>9. Left(y) = Left(z)
  BY <1>7, SameTimers
<1> QED BY <1>2, <1>3, <1>7, <1>8, <1>9 DEF y, q, w

(* wd_delete stops the watchdog and no other.                              *)
LEMMA DeleteSound ==
  ASSUME NEW z, WdSound(z), NEW w \in Wdogs, ~Linked(z.g_wdfreelist, w)
  PROVE  /\ WdSound(wd_delete(z, w))
         /\ Left(wd_delete(z, w)) = [Left(z) EXCEPT ![w] = -1]
         /\ \A x \in Wdogs : Linked(wd_delete(z, w).g_wdfreelist, x) <=>
                              Linked(z.g_wdfreelist, x) \/ x = w
<1> DEFINE z1 == wd_cancel(z, w)
           y == wd_delete(z, w)
<1>1. /\ WdSound(z1) /\ z1.active = [z.active EXCEPT ![w] = FALSE]
      /\ z1.g_wdfreelist = z.g_wdfreelist
      /\ Left(z1) = [Left(z) EXCEPT ![w] = -1]
  BY CancelSound
<1>2. y = [z1 EXCEPT !.g_wdfreelist = Append(z1.g_wdfreelist, w)]
  <2>1. ~z.active[w] => z1 = z
    BY DEF wd_cancel
  <2>2. (IF z.active[w] THEN z1 ELSE z) = z1
    BY <2>1
  <2> QED BY <2>2 DEF wd_delete
<1> HIDE DEF y, z1
<1>3. /\ z1 \in WdStates /\ z1.g_wdfreelist \in Seq(Wdogs) /\ Distinct(z1.g_wdfreelist)
      /\ z.active \in [Wdogs -> BOOLEAN]
  BY <1>1, WdTypes DEF WdSound
<1>4. /\ Append(z1.g_wdfreelist, w) \in Seq(Wdogs) /\ Distinct(Append(z1.g_wdfreelist, w))
      /\ \A x \in Wdogs : Linked(Append(z1.g_wdfreelist, w), x) <=> Linked(z1.g_wdfreelist, x) \/ x = w
  <2>1. \A n \in DOMAIN z1.g_wdfreelist : z1.g_wdfreelist[n] # w
    BY <1>1 DEF Linked
  <2> QED BY <2>1, <1>3, AddLastLinks DEF dq_addlast
<1>5. /\ y \in WdStates /\ y.g_wdactivelist = z1.g_wdactivelist /\ y.lag = z1.lag
      /\ y.active = z1.active /\ y.wdnotfound = z1.wdnotfound
      /\ y.g_wdfreelist = Append(z1.g_wdfreelist, w)
  BY <1>2, <1>3, <1>4 DEF WdStates
<1>6. ~z1.active[w]
  BY <1>1, <1>3
<1>7. WdSound(y)
  BY <1>1, <1>4, <1>5, <1>6 DEF WdSound
<1>8. Left(y) = Left(z1)
  BY <1>5, SameTimers
<1> QED BY <1>1, <1>4, <1>5, <1>7, <1>8 DEF y

(* wd_timer counts the head down, and with it every watchdog that runs.    *)
LEMMA CountsSound ==
  ASSUME NEW z, WdSound(z), ~Expired(z)
  PROVE  /\ WdSound(TimerCounts(z)) /\ TimerCounts(z).g_wdfreelist = z.g_wdfreelist
         /\ Left(TimerCounts(z)) =
              [w \in Wdogs |-> IF Left(z)[w] = -1 THEN -1 ELSE Left(z)[w] - 1]
<1> DEFINE q == z.g_wdactivelist
           e == Elapsed(z)
           y == TimerCounts(z)
           f == [k \in 0 .. Len(q) |-> IF k = 0 THEN 0 ELSE e[k] - 1]
<1>1. /\ z \in WdStates /\ q \in Seq(Wdogs) /\ Len(q) \in Nat
      /\ \A k \in 1 .. Len(q) : q[k] \in Wdogs /\ z.active[q[k]]
      /\ \A j, k \in 1 .. Len(q) : q[j] = q[k] => j = k
      /\ \A x \in Wdogs : z.active[x] => \E k \in 1 .. Len(q) : q[k] = x
      /\ z.lag \in [Wdogs -> Int] /\ z.active \in [Wdogs -> BOOLEAN]
  BY WdTypes
<1>2. CASE q = <<>>
  <2>1. y = z
    BY <1>2 DEF TimerCounts
  <2>2. ASSUME NEW x \in Wdogs PROVE ~z.active[x] /\ Left(z)[x] = -1
    <3>1. ~z.active[x]
      BY <1>1, <1>2
    <3> QED BY <3>1 DEF Left
  <2>3. Left(z) = [x \in Wdogs |-> Left(z)[x]]
    BY DEF Left
  <2> QED BY <2>1, <2>2, <2>3
<1>3. CASE q # <<>>
  <2>1. 1 \in 1 .. Len(q) /\ Head(q) = q[1]
    BY <1>1, <1>3, EmptySeq
  <2>2. /\ \A k \in 0 .. Len(q) : e[k] \in Int /\ e[k] >= 0
        /\ \A k \in 1 .. Len(q) : z.lag[q[k]] \in Int /\ z.lag[q[k]] >= 0
    BY ElapsedGrows
  <2>3. /\ SumsLags(e, z) /\ e[0] = 0
        /\ \A k \in 1 .. Len(q) : e[k] = e[k-1] + z.lag[q[k]]
    BY <1>1, ElapsedTurns DEF SumsLags
  <2>4. z.lag[q[1]] > 0
    BY <1>3, <2>1, <2>2 DEF Expired
  <2>5. y = [z EXCEPT !.lag = [z.lag EXCEPT ![q[1]] = z.lag[q[1]] - 1]]
    BY <1>3, <2>1 DEF TimerCounts
  <2> HIDE DEF q, y, e
  <2>6. /\ y \in WdStates /\ y.g_wdactivelist = q /\ y.active = z.active
        /\ y.g_wdfreelist = z.g_wdfreelist /\ y.wdnotfound = z.wdnotfound
        /\ y.lag[q[1]] = z.lag[q[1]] - 1
        /\ \A k \in 1 .. Len(q) : k # 1 => y.lag[q[k]] = z.lag[q[k]]
    <3> DEFINE lg == [z.lag EXCEPT ![q[1]] = z.lag[q[1]] - 1]
    <3>1. z.lag[q[1]] - 1 \in Int
      BY <2>1, <2>2
    <3>2. /\ lg \in [Wdogs -> Int] /\ lg[q[1]] = z.lag[q[1]] - 1
          /\ \A k \in 1 .. Len(q) : k # 1 => lg[q[k]] = z.lag[q[k]]
      BY <3>1, <2>1, <1>1
    <3> HIDE DEF lg
    <3>3. y = [z EXCEPT !.lag = lg]
      BY <2>5 DEF lg
    <3> QED BY <3>2, <3>3, <1>1 DEF WdStates, q
  <2>7. WdSound(y)
    <3>1. ASSUME NEW x \in Wdogs, y.active[x] PROVE y.lag[x] >= 0
      <4>1. PICK k \in 1 .. Len(q) : q[k] = x
        BY <3>1, <2>6, <1>1
      <4> QED BY <4>1, <2>1, <2>2, <2>4, <2>6
    <3> QED BY <3>1, <2>6 DEF WdSound, q
  <2>8. SumsLags(f, y)
    <3>1. f[0] = 0
      BY <1>1
    <3>2. ASSUME NEW k \in 1 .. Len(q) PROVE f[k] = f[k-1] + y.lag[q[k]]
      <4>1. k \in 0 .. Len(q) /\ k - 1 \in 0 .. Len(q) /\ f[k] = e[k] - 1
        BY <1>1
      <4>2. CASE k = 1
        BY <4>1, <4>2, <3>1, <2>2, <2>3, <2>6
      <4>3. CASE k # 1
        <5>1. f[k-1] = e[k-1] - 1 /\ y.lag[q[k]] = z.lag[q[k]]
          BY <4>1, <4>3, <2>6
        <5> QED BY <4>1, <5>1, <2>2, <2>3
      <4> QED BY <4>2, <4>3
    <3> HIDE DEF f
    <3> QED BY <3>1, <3>2, <2>6 DEF SumsLags
  <2>9. /\ \A k \in 1 .. Len(q) : Left(y)[q[k]] = f[k]
        /\ \A x \in Wdogs : ~y.active[x] => Left(y)[x] = -1
    <3> HIDE DEF f
    <3> QED BY <2>6, <2>7, <2>8, LeftIsSum
  <2>10. /\ \A k \in 1 .. Len(q) : Left(z)[q[k]] = e[k]
         /\ \A x \in Wdogs : ~z.active[x] => Left(z)[x] = -1
    BY <2>3, LeftIsSum DEF q
  <2>11. ASSUME NEW x \in Wdogs
         PROVE  Left(y)[x] = IF Left(z)[x] = -1 THEN -1 ELSE Left(z)[x] - 1
    <3>1. CASE ~z.active[x]
      BY <3>1, <2>6, <2>9, <2>10
    <3>2. CASE z.active[x]
      <4>1. PICK k \in 1 .. Len(q) : q[k] = x
        BY <3>2, <1>1
      <4>2. k \in 0 .. Len(q) /\ f[k] = e[k] - 1 /\ e[k] \in Int /\ e[k] >= 0
        BY <2>2, <1>1
      <4>3. Left(y)[x] = e[k] - 1 /\ Left(z)[x] = e[k]
        BY <4>1, <4>2, <2>9, <2>10
      <4> QED BY <4>2, <4>3
    <3> QED BY <3>1, <3>2
  <2>12. Left(y) = [x \in Wdogs |-> Left(y)[x]]
    BY DEF Left
  <2> QED BY <2>6, <2>7, <2>11, <2>12 DEF y
<1> QED BY <1>2, <1>3

(* A turn of wd_timer's loop stops the head, which is due, and no other.   *)
LEMMA RemovesSound ==
  ASSUME NEW z, WdSound(z), Expired(z)
  PROVE  /\ WdSound(TimerRemoves(z)) /\ TimerRemoves(z).g_wdfreelist = z.g_wdfreelist
         /\ Left(TimerRemoves(z)) = [Left(z) EXCEPT ![Head(z.g_wdactivelist)] = -1]
<1> DEFINE q == z.g_wdactivelist
           e == Elapsed(z)
           w == Head(q)
           r == Tail(q)
           y == TimerRemoves(z)
           f == [k \in 0 .. Len(q) - 1 |-> e[k+1]]
<1>1. /\ z \in WdStates /\ q \in Seq(Wdogs) /\ Len(q) \in Nat
      /\ \A k \in 1 .. Len(q) : q[k] \in Wdogs /\ z.active[q[k]]
      /\ \A x \in Wdogs : z.active[x] => \E k \in 1 .. Len(q) : q[k] = x
      /\ \A x \in Wdogs : z.active[x] <=> Linked(q, x)
      /\ z.lag \in [Wdogs -> Int] /\ z.active \in [Wdogs -> BOOLEAN]
      /\ Distinct(q)
  BY WdTypes DEF WdSound
<1>2. q # <<>> /\ z.lag[w] <= 0
  BY DEF Expired
<1>3. /\ Len(q) > 0 /\ w = q[1] /\ w \in Wdogs /\ r \in Seq(Wdogs) /\ Len(r) = Len(q) - 1
      /\ \A k \in 1 .. Len(q) - 1 : r[k] = q[k+1]
      /\ Distinct(r) /\ \A x \in Wdogs : Linked(r, x) <=> Linked(q, x) /\ x # w
  BY <1>1, <1>2, TailUnlinks
<1>4. /\ \A k \in 0 .. Len(q) : e[k] \in Int /\ e[k] >= 0
      /\ \A k \in 1 .. Len(q) : z.lag[q[k]] \in Int /\ z.lag[q[k]] >= 0
  BY ElapsedGrows
<1>5. /\ SumsLags(e, z) /\ e[0] = 0
      /\ \A k \in 1 .. Len(q) : e[k] = e[k-1] + z.lag[q[k]]
  BY <1>1, ElapsedTurns DEF SumsLags
<1>6. z.lag[w] = 0 /\ e[1] = 0 /\ 1 \in 1 .. Len(q)
  BY <1>1, <1>2, <1>3, <1>4, <1>5
<1>7. (IF r = <<>> THEN z.lag ELSE [z.lag EXCEPT ![Head(r)] = z.lag[Head(r)] + z.lag[w]]) = z.lag
  <2>1. ASSUME r # <<>> PROVE Head(r) \in Wdogs
    BY <2>1, <1>3, HeadTailProperties
  <2>2. ASSUME r # <<>> PROVE z.lag[Head(r)] + z.lag[w] = z.lag[Head(r)]
    <3> HIDE DEF r, w, q
    <3> QED BY <2>1, <2>2, <1>1, <1>6
  <2> HIDE DEF r, w, q
  <2>3. ASSUME r # <<>> PROVE [z.lag EXCEPT ![Head(r)] = z.lag[Head(r)] + z.lag[w]] = z.lag
    BY <2>1, <2>2, <2>3, <1>1
  <2> QED BY <2>3
<1>8. y = [z EXCEPT !.g_wdactivelist = r, !.lag = z.lag, !.active[w] = FALSE]
  BY <1>7 DEF TimerRemoves
<1> HIDE DEF q, r, w, y, e
<1>9. /\ y \in WdStates /\ y.g_wdactivelist = r /\ y.lag = z.lag
      /\ y.active = [z.active EXCEPT ![w] = FALSE]
      /\ y.g_wdfreelist = z.g_wdfreelist /\ y.wdnotfound = z.wdnotfound
  BY <1>1, <1>3, <1>8 DEF WdStates
<1>10. \A x \in Wdogs : y.active[x] <=> z.active[x] /\ x # w
  BY <1>9, <1>1
<1>11. WdSound(y)
  <2>1. \A x \in Wdogs : y.active[x] <=> Linked(y.g_wdactivelist, x)
    BY <1>1, <1>3, <1>9, <1>10
  <2> QED BY <2>1, <1>3, <1>9, <1>10 DEF WdSound
<1>12. SumsLags(f, y)
  <2>1. f[0] = 0
    BY <1>1, <1>3, <1>6
  <2>2. ASSUME NEW k \in 1 .. Len(q) - 1 PROVE f[k] = f[k-1] + z.lag[r[k]]
    <3>1. k \in 0 .. Len(q) - 1 /\ k - 1 \in 0 .. Len(q) - 1 /\ k + 1 \in 1 .. Len(q)
      BY <1>1
    <3>2. f[k] = e[k+1] /\ f[k-1] = e[k] /\ r[k] = q[k+1]
      BY <3>1, <1>3
    <3>3. e[k+1] = e[k] + z.lag[q[k+1]]
      <4>1. (k + 1) - 1 = k
        BY <3>1
      <4> QED BY <4>1, <3>1, <1>5
    <3> QED BY <3>2, <3>3
  <2> HIDE DEF f
  <2> QED BY <2>1, <2>2, <1>3, <1>9 DEF SumsLags
<1>13. /\ \A k \in 1 .. Len(q) - 1 : Left(y)[r[k]] = f[k]
       /\ \A x \in Wdogs : ~y.active[x] => Left(y)[x] = -1
  <2> HIDE DEF f
  <2>1. Len(y.g_wdactivelist) = Len(q) - 1 /\ y.g_wdactivelist = r
    BY <1>3, <1>9
  <2> QED BY <2>1, <1>11, <1>12, LeftIsSum
<1>14. /\ \A k \in 1 .. Len(q) : Left(z)[q[k]] = e[k]
       /\ \A x \in Wdogs : ~z.active[x] => Left(z)[x] = -1
  BY <1>5, LeftIsSum DEF q
<1>15. ASSUME NEW x \in Wdogs PROVE Left(y)[x] = IF x = w THEN -1 ELSE Left(z)[x]
  <2>1. CASE ~y.active[x]
    BY <2>1, <1>10, <1>13, <1>14
  <2>2. CASE y.active[x]
    <3>1. x # w /\ \E k \in 1 .. Len(q) : q[k] = x
      BY <2>2, <1>1, <1>10
    <3>2. PICK k \in 1 .. Len(q) : q[k] = x
      BY <3>1
    <3>5. k # 1
      BY <3>1, <3>2, <1>3
    <3>6. k - 1 \in 1 .. Len(q) - 1 /\ (k - 1) + 1 = k /\ k - 1 \in 0 .. Len(q) - 1
      BY <3>2, <3>5, <1>1
    <3>3. k - 1 \in 1 .. Len(q) - 1 /\ r[k-1] = x /\ f[k-1] = e[k]
      BY <3>2, <3>6, <1>3
    <3>4. Left(y)[r[k-1]] = f[k-1] /\ Left(z)[q[k]] = e[k]
      BY <3>3, <1>13, <1>14
    <3> QED BY <3>1, <3>2, <3>3, <3>4
  <2> QED BY <2>1, <2>2
<1>16. Left(y) = [Left(z) EXCEPT ![w] = -1]
  BY <1>15 DEF Left
<1> QED BY <1>9, <1>11, <1>16 DEF y, w, q

(* Linking w at position k with the lags lg.                               *)
Linking(z, w, k, lg) ==
  [z EXCEPT !.g_wdactivelist = InsertAt(z.g_wdactivelist, k, w), !.lag = lg, !.active[w] = TRUE]

(* Position k, with the lags lg, is where d ticks from now belong.         *)
Fits(z, w, d, k, lg) ==
  LET q == z.g_wdactivelist
      e == Elapsed(z)
  IN  /\ k \in 1 .. Len(q) + 1
      /\ lg \in [Wdogs -> Int]
      /\ e[k-1] <= d
      /\ k <= Len(q) => d <= e[k] /\ lg[q[k]] = e[k] - d
      /\ lg[w] = d - e[k-1]
      /\ \A j \in 1 .. Len(q) : j # k => lg[q[j]] = z.lag[q[j]]

(* Linking w where it fits gives it d ticks and changes no other timer.    *)
LEMMA InsertedSound ==
  ASSUME NEW z, WdSound(z), NEW w \in Wdogs, ~z.active[w], ~Linked(z.g_wdfreelist, w),
         NEW d \in Nat, NEW k, NEW lg, Fits(z, w, d, k, lg)
  PROVE  LET y == Linking(z, w, k, lg)
         IN  WdSound(y) /\ \A x \in Wdogs : Left(y)[x] = IF x = w THEN d ELSE Left(z)[x]
<1> DEFINE q == z.g_wdactivelist
           e == Elapsed(z)
           r == InsertAt(q, k, w)
           y == Linking(z, w, k, lg)
           f == [j \in 0 .. Len(q) + 1 |-> IF j < k THEN e[j] ELSE IF j = k THEN d ELSE e[j-1]]
<1>1. /\ z \in WdStates /\ q \in Seq(Wdogs) /\ Len(q) \in Nat /\ DOMAIN q = 1 .. Len(q)
      /\ \A j \in 1 .. Len(q) : q[j] \in Wdogs /\ z.active[q[j]]
      /\ \A x \in Wdogs : z.active[x] => \E j \in 1 .. Len(q) : q[j] = x
      /\ \A x \in Wdogs : z.active[x] <=> Linked(q, x)
      /\ z.lag \in [Wdogs -> Int] /\ z.active \in [Wdogs -> BOOLEAN]
      /\ Distinct(q)
  BY WdTypes DEF WdSound
<1>2. /\ \A j \in 0 .. Len(q) : e[j] \in Int /\ e[j] >= 0
      /\ \A j \in 1 .. Len(q) : z.lag[q[j]] \in Int /\ z.lag[q[j]] >= 0
  BY ElapsedGrows
<1>3. /\ SumsLags(e, z) /\ e[0] = 0
      /\ \A j \in 1 .. Len(q) : e[j] = e[j-1] + z.lag[q[j]]
  BY <1>1, ElapsedTurns DEF SumsLags
<1>4. /\ e[k-1] <= d
      /\ k <= Len(q) => d <= e[k] /\ lg[q[k]] = e[k] - d
      /\ lg[w] = d - e[k-1]
      /\ \A j \in 1 .. Len(q) : j # k => lg[q[j]] = z.lag[q[j]]
      /\ k \in 1 .. Len(q) + 1 /\ lg \in [Wdogs -> Int]
  BY DEF Fits
<1>5. y = [z EXCEPT !.g_wdactivelist = r, !.lag = lg, !.active[w] = TRUE]
  BY DEF Linking
<1>6. \A j \in 1 .. Len(q) : q[j] # w
  BY <1>1
<1> HIDE DEF q, e, y
<1>17. Len(q) \in Nat /\ k \in Int /\ 1 <= k /\ k <= Len(q) + 1
  <2> HIDE DEF f
  <2> QED BY <1>1, <1>4
<1>7. /\ r \in Seq(Wdogs) /\ Len(r) = Len(q) + 1
      /\ \A j \in 1 .. Len(q) + 1 : r[j] = IF j < k THEN q[j] ELSE IF j = k THEN w ELSE q[j-1]
  <2>1. q \in Seq(Wdogs) /\ k \in 1 .. Len(q) + 1
    BY <1>1, <1>4
  <2> HIDE DEF f
  <2>2. Inserts(q, r, k, w, Wdogs)
    BY <2>1, InsertedPositions
  <2> HIDE DEF r
  <2> QED BY <2>2, Zenon DEF Inserts
<1>8. Distinct(r) /\ \A x \in Wdogs : Linked(r, x) <=> Linked(q, x) \/ x = w
  <2>1. q \in Seq(Wdogs) /\ k \in 1 .. Len(q) + 1 /\ Distinct(q) /\ \A n \in DOMAIN q : q[n] # w
    BY <1>1, <1>4, <1>6
  <2> QED BY <2>1, InsertLinks
<1> HIDE DEF r
<1>9. /\ y \in WdStates /\ y.g_wdactivelist = r /\ y.lag = lg
      /\ y.active = [z.active EXCEPT ![w] = TRUE]
      /\ y.g_wdfreelist = z.g_wdfreelist /\ y.wdnotfound = z.wdnotfound
  BY <1>1, <1>4, <1>5, <1>7 DEF WdStates
<1>10. \A x \in Wdogs : y.active[x] <=> z.active[x] \/ x = w
  BY <1>9, <1>1
<1>11. WdSound(y)
  <2>1. \A x \in Wdogs : y.active[x] <=> Linked(y.g_wdactivelist, x)
    BY <1>1, <1>8, <1>9, <1>10
  <2>2. lg[w] >= 0
    <3>1. k - 1 \in 0 .. Len(q)
      BY <1>1, <1>4
    <3> QED BY <3>1, <1>2, <1>4
  <2>3. ASSUME NEW j \in 1 .. Len(q) PROVE lg[q[j]] >= 0
    <3>1. CASE j # k
      BY <3>1, <1>2, <1>4
    <3>2. CASE j = k
      <4>1. j \in 0 .. Len(q) /\ j <= Len(q)
        BY <1>1
      <4> QED BY <3>2, <4>1, <1>2, <1>4
    <3> QED BY <3>1, <3>2
  <2>4. ASSUME NEW x \in Wdogs, y.active[x] PROVE y.lag[x] >= 0
    <3>1. CASE x = w
      BY <3>1, <2>2, <1>9
    <3>2. CASE x # w
      BY <3>2, <2>3, <2>4, <1>1, <1>9, <1>10
    <3> QED BY <3>1, <3>2
  <2>5. \A x \in Wdogs : ~(y.active[x] /\ Linked(y.g_wdfreelist, x))
    BY <1>9, <1>10 DEF WdSound
  <2>6. ~y.wdnotfound /\ Distinct(y.g_wdactivelist) /\ Distinct(y.g_wdfreelist)
    BY <1>8, <1>9 DEF WdSound
  <2> QED BY <2>1, <2>4, <2>5, <2>6, <1>9 DEF WdSound
<1>12. SumsLags(f, y)
  <2>1. f[0] = 0
    BY <1>1, <1>3, <1>4
  <2>2. ASSUME NEW j \in 1 .. Len(q) + 1 PROVE f[j] = f[j-1] + lg[r[j]]
    <3>1. j \in 0 .. Len(q) + 1 /\ j - 1 \in 0 .. Len(q) + 1 /\ j - 1 \in 0 .. Len(q)
      BY <1>1
    <3>2. CASE j < k
      <4>1. f[j] = e[j] /\ f[j-1] = e[j-1] /\ r[j] = q[j] /\ j \in 1 .. Len(q)
        BY <3>1, <3>2, <1>17, <1>7, SMTT(30)
      <4> HIDE DEF f
      <4> QED BY <4>1, <3>2, <1>3, <1>4
    <3>3. CASE j = k
      <4>1. f[j] = d /\ f[j-1] = e[k-1] /\ r[j] = w
        BY <3>1, <3>3, <1>4, <1>7
      <4> QED BY <4>1, <3>1, <3>3, <1>2, <1>4
    <3>4. CASE j = k + 1
      <4>1. f[j] = e[k] /\ f[j-1] = d /\ r[j] = q[k] /\ k \in 1 .. Len(q) /\ k \in 0 .. Len(q)
        <5>1. j > k /\ j - 1 = k /\ k \in 1 .. Len(q) /\ k \in 0 .. Len(q)
          <6> HIDE DEF f
          <6> QED BY <3>4, <1>17
        <5>2. f[j] = e[k] /\ f[j-1] = d
          BY <5>1, <3>1
        <5>3. r[j] = q[k]
          BY <5>1, <1>7
        <5> QED BY <5>1, <5>2, <5>3
      <4> HIDE DEF f
      <4> QED BY <4>1, <1>2, <1>4, SMTT(30)
    <3>5. CASE j > k + 1
      <4>1. f[j] = e[j-1] /\ f[j-1] = e[(j-1)-1] /\ r[j] = q[j-1] /\ j - 1 \in 1 .. Len(q) /\ j - 1 # k
        <5>1. j > k /\ j - 1 > k /\ j - 1 \in 1 .. Len(q) /\ j - 1 # k /\ j # k
          <6> HIDE DEF f
          <6> QED BY <3>5, <1>17
        <5>2. f[j] = e[j-1] /\ f[j-1] = e[(j-1)-1]
          BY <5>1, <3>1, <1>17
        <5>3. r[j] = q[j-1]
          <6> HIDE DEF f
          <6> QED BY <5>1, <1>7, <1>17
        <5> HIDE DEF f
        <5> QED BY <5>1, <5>2, <5>3
      <4> HIDE DEF f
      <4> QED BY <4>1, <1>3, <1>4
    <3> HIDE DEF f
    <3> QED BY <3>2, <3>3, <3>4, <3>5, <1>17
  <2> HIDE DEF f
  <2> QED BY <2>1, <2>2, <1>7, <1>9 DEF SumsLags
<1>13. /\ \A j \in 1 .. Len(q) + 1 : Left(y)[r[j]] = f[j]
       /\ \A x \in Wdogs : ~y.active[x] => Left(y)[x] = -1
  <2> HIDE DEF f
  <2>1. Len(y.g_wdactivelist) = Len(q) + 1 /\ y.g_wdactivelist = r
    BY <1>7, <1>9
  <2> QED BY <2>1, <1>11, <1>12, LeftIsSum
<1>14. /\ \A j \in 1 .. Len(q) : Left(z)[q[j]] = e[j]
       /\ \A x \in Wdogs : ~z.active[x] => Left(z)[x] = -1
  BY <1>3, LeftIsSum DEF q
<1>15. ASSUME NEW x \in Wdogs PROVE Left(y)[x] = IF x = w THEN d ELSE Left(z)[x]
  <2>1. CASE x = w
    <3>1. k \in 1 .. Len(q) + 1 /\ k \in 0 .. Len(q) + 1 /\ r[k] = w /\ f[k] = d
      BY <1>1, <1>4, <1>7
    <3>2. Left(y)[r[k]] = f[k]
      BY <3>1, <1>13
    <3> QED BY <2>1, <3>1, <3>2
  <2>2. CASE x # w /\ ~z.active[x]
    BY <2>2, <1>10, <1>13, <1>14
  <2>3. CASE x # w /\ z.active[x]
    <3>1. PICK j \in 1 .. Len(q) : q[j] = x
      BY <2>3, <1>1
    <3>2. CASE j < k
      <4>1. j \in 1 .. Len(q) + 1 /\ r[j] = x /\ f[j] = e[j]
        BY <3>1, <3>2, <1>1, <1>7, SMTT(30)
      <4>2. Left(y)[r[j]] = f[j] /\ Left(z)[q[j]] = e[j]
        BY <4>1, <1>13, <1>14
      <4> QED BY <2>3, <3>1, <4>1, <4>2
    <3>3. CASE ~(j < k)
      <4>1. j + 1 \in 1 .. Len(q) + 1 /\ j + 1 > k /\ (j + 1) - 1 = j /\ j + 1 \in 0 .. Len(q) + 1
        <5> HIDE DEF f
        <5> QED BY <3>1, <3>3, <1>17
      <4>2. r[j+1] = x /\ f[j+1] = e[j]
        <5>1. f[j+1] = e[j]
          BY <4>1, <1>17
        <5>2. r[j+1] = q[j]
          <6> HIDE DEF f
          <6> QED BY <4>1, <1>7, <1>17
        <5> QED BY <5>1, <5>2, <3>1
      <4>3. Left(y)[r[j+1]] = f[j+1] /\ Left(z)[q[j]] = e[j]
        BY <4>1, <1>13, <1>14
      <4> QED BY <2>3, <3>1, <4>2, <4>3
    <3> QED BY <3>2, <3>3
  <2> QED BY <2>1, <2>2, <2>3
<1> QED BY <1>11, <1>15 DEF y

(* The walk of wd_start in a list whose times are not negative ends at the *)
(* first entry that is due after d, or at the tail.                        *)
LEMMA StartPositionStops ==
  ASSUME NEW n \in Nat \ {0}, NEW now, \A j \in 0 .. n : now[j] \in Int /\ now[j] >= 0,
         NEW d \in Nat
  PROVE  LET i == StartPosition(now, n, d)
         IN  /\ i \in 1 .. n
             /\ i = n \/ now[i] > d
             /\ \A j \in 1 .. i - 1 : now[j] <= d
<1> DEFINE pos == CHOOSE i \in 1 .. n : /\ i = n \/ now[i] >= 0
                                        /\ \A j \in 1 .. i - 1 : now[j] < 0
<1>1. pos = 1
  <2>1. 1 \in 1 .. n /\ now[1] \in Int /\ now[1] >= 0
    OBVIOUS
  <2>2. \E i \in 1 .. n : /\ i = n \/ now[i] >= 0
                          /\ \A j \in 1 .. i - 1 : now[j] < 0
    BY <2>1
  <2>3. /\ pos \in 1 .. n
        /\ \A j \in 1 .. pos - 1 : now[j] < 0
    BY <2>2
  <2> HIDE DEF pos
  <2> QED BY <2>1, <2>3
<1> DEFINE T == {m \in Nat : m \in 1 .. n /\ (m = n \/ now[m] > d)}
<1>2. PICK m \in T : \A k \in T : m <= k
  <2>1. T \in SUBSET Nat /\ n \in T
    OBVIOUS
  <2> HIDE DEF T
  <2> QED BY <2>1, LeastNatural
<1>3. \A j \in 1 .. m - 1 : now[j] <= d
  <2> TAKE j \in 1 .. m - 1
  <2>1. j \in Nat /\ j \in 1 .. n /\ j # n /\ j \notin T /\ j \in 0 .. n
    BY <1>2
  <2> QED BY <2>1
<1>4. m \in 1 .. n /\ (m = n \/ now[m] > d)
  BY <1>2
<1>5. StartPosition(now, n, d) =
        CHOOSE i \in pos .. n : /\ i = n \/ now[i] > d
                                /\ \A j \in pos .. i - 1 : now[j] <= d
  BY DEF StartPosition
<1> HIDE DEF pos, T
<1> QED BY <1>1, <1>3, <1>4, <1>5

(* wd_start gives the watchdog its delay and leaves all others alone.      *)
LEMMA StartSound ==
  ASSUME NEW z, WdSound(z), NEW w \in Wdogs, ~Linked(z.g_wdfreelist, w), NEW delay \in Nat
  PROVE  /\ WdSound(wd_start(z, w, delay))
         /\ wd_start(z, w, delay).g_wdfreelist = z.g_wdfreelist
         /\ Left(wd_start(z, w, delay)) = [Left(z) EXCEPT ![w] = AtLeast(delay)]
<1> DEFINE z1 == wd_cancel(z, w)
           d == AtLeast(delay)
           y == wd_start(z, w, delay)
           q == z1.g_wdactivelist
           e == Elapsed(z1)
           i == StartPosition(e, Len(q), d)
<1>1. /\ WdSound(z1) /\ z1.active = [z.active EXCEPT ![w] = FALSE]
      /\ z1.g_wdfreelist = z.g_wdfreelist
      /\ Left(z1) = [Left(z) EXCEPT ![w] = -1]
  BY CancelSound
<1>2. y = [Insert(z1, w, d) EXCEPT !.active[w] = TRUE]
  <2>1. ~z.active[w] => z1 = z
    BY DEF wd_cancel
  <2>2. (IF z.active[w] THEN z1 ELSE z) = z1
    BY <2>1
  <2>3. ~(delay < 0)
    OBVIOUS
  <2> QED BY <2>2, <2>3, Zenon DEF wd_start
<1>3. d \in Nat
  BY DEF AtLeast
<1> HIDE DEF z1, d, y
<1>4. /\ z1 \in WdStates /\ q \in Seq(Wdogs) /\ Len(q) \in Nat /\ DOMAIN q = 1 .. Len(q)
      /\ \A j \in 1 .. Len(q) : q[j] \in Wdogs /\ z1.active[q[j]]
      /\ \A j, k \in 1 .. Len(q) : q[j] = q[k] => j = k
      /\ z1.lag \in [Wdogs -> Int] /\ z1.active \in [Wdogs -> BOOLEAN]
  BY <1>1, WdTypes
<1>5. ~z1.active[w] /\ ~Linked(z1.g_wdfreelist, w)
  <2>1. z.active \in [Wdogs -> BOOLEAN]
    BY WdTypes
  <2> QED BY <2>1, <1>1
<1>6. \A j \in 1 .. Len(q) : q[j] # w
  BY <1>4, <1>5
<1>7. /\ \A j \in 0 .. Len(q) : e[j] \in Int /\ e[j] >= 0
      /\ \A j \in 1 .. Len(q) : z1.lag[q[j]] \in Int /\ z1.lag[q[j]] >= 0
      /\ \A j, k \in 0 .. Len(q) : j <= k => e[j] <= e[k]
  BY <1>1, ElapsedGrows
<1>8. /\ e[0] = 0
      /\ \A j \in 1 .. Len(q) : e[j] = e[j-1] + z1.lag[q[j]]
  BY <1>4, ElapsedTurns DEF SumsLags
<1>9. \E k, lg : y = Linking(z1, w, k, lg) /\ Fits(z1, w, d, k, lg)
  <2>1. CASE q = <<>>
    <3> DEFINE lg == [z1.lag EXCEPT ![w] = d]
    <3>1. InsertAt(q, 1, w) = <<w>>
      <4> HIDE DEF q
      <4>1. Len(q) = 0 /\ q \in Seq(Wdogs)
        BY <2>1, <1>4
      <4>2. PICK n \in 1 .. Len(q) + 1 : n = 1
        BY <4>1
      <4> DEFINE r == InsertAt(q, n, w)
      <4>3. /\ r \in Seq(Wdogs) /\ Len(r) = Len(q) + 1
            /\ \A k \in 1 .. Len(q) + 1 :
                 r[k] = IF k < n THEN q[k] ELSE IF k = n THEN w ELSE q[k-1]
        <5>1. q \in Seq(Wdogs)
          BY <4>1
        <5> HIDE DEF lg
        <5> QED BY <5>1, InsertAtPositions
      <4> HIDE DEF r
      <4>4. Len(r) = 1 /\ r[1] = w
        BY <4>1, <4>2, <4>3
      <4>5. r = <<w>>
        <5>1. <<w>> \in Seq(Wdogs) /\ Len(<<w>>) = 1 /\ <<w>>[1] = w
          OBVIOUS
        <5>2. \A k \in 1 .. Len(r) : r[k] = <<w>>[k]
          BY <4>4
        <5> QED BY <5>1, <5>2, <4>3, <4>4, SeqEqual
      <4> QED BY <4>2, <4>5 DEF r
    <3>2. Insert(z1, w, d) = [z1 EXCEPT !.g_wdactivelist = <<w>>, !.lag = lg]
      BY <2>1, <1>4 DEF Insert, WdStates
    <3>3. y = Linking(z1, w, 1, lg)
      BY <3>1, <3>2, <1>2, <1>4 DEF WdStates, Linking
    <3>4. Len(q) = 0
      BY <2>1
    <3>5. lg \in [Wdogs -> Int] /\ lg[w] = d
      BY <1>3, <1>4
    <3> HIDE DEF lg
    <3>6. Fits(z1, w, d, 1, lg)
      BY <3>4, <3>5, <1>3, <1>8 DEF Fits
    <3> QED BY <3>3, <3>6
  <2>2. CASE q # <<>>
    <3>0. Len(q) \in Nat \ {0}
      BY <2>2, <1>4, EmptySeq
    <3>1. /\ i \in 1 .. Len(q)
          /\ i = Len(q) \/ e[i] > d
          /\ \A j \in 1 .. i - 1 : e[j] <= d
      BY <3>0, <1>3, <1>7, StartPositionStops
    <3>2. e[i-1] <= d /\ e[i-1] \in Int /\ e[i] \in Int /\ z1.lag[q[i]] \in Int
          /\ e[i] = e[i-1] + z1.lag[q[i]] /\ q[i] \in Wdogs /\ q[i] # w
      <4>1. e[i] = e[i-1] + z1.lag[q[i]]
        BY <3>1, <1>8
      <4>2. i - 1 \in 0 .. Len(q) /\ i \in 0 .. Len(q)
        BY <3>1, <1>4
      <4>3. e[i-1] \in Int /\ e[i] \in Int /\ z1.lag[q[i]] \in Int /\ q[i] \in Wdogs /\ q[i] # w
        BY <3>1, <4>2, <1>4, <1>6, <1>7
      <4>4. CASE i = 1
        BY <4>1, <4>3, <4>4, <1>3, <1>8
      <4>5. CASE i # 1
        <5>1. i - 1 \in 1 .. i - 1
          BY <3>1, <4>5
        <5> QED BY <5>1, <4>1, <4>3, <3>1
      <4> QED BY <4>4, <4>5
    <3>3. CASE d < e[i]
      <4> DEFINE before == d - (e[i] - z1.lag[q[i]])
                 lg == [z1.lag EXCEPT ![q[i]] = z1.lag[q[i]] - before, ![w] = before]
      <4>1. Insert(z1, w, d) = [z1 EXCEPT !.g_wdactivelist = InsertAt(q, i, w), !.lag = lg]
        BY <2>2, <3>3 DEF Insert
      <4>2. before = d - e[i-1] /\ before \in Int /\ z1.lag[q[i]] - before = e[i] - d
            /\ e[i] - d \in Int
        BY <3>2, <1>3, SMTT(30)
      <4> HIDE DEF before
      <4>3. /\ lg \in [Wdogs -> Int] /\ lg[w] = before /\ lg[q[i]] = e[i] - d
            /\ \A j \in 1 .. Len(q) : j # i => lg[q[j]] = z1.lag[q[j]]
        <5>1. lg \in [Wdogs -> Int]
          BY <4>2, <3>2, <1>4
        <5>2. \A x \in Wdogs : lg[x] = IF x = w THEN before ELSE IF x = q[i] THEN e[i] - d ELSE z1.lag[x]
          BY <4>2, <3>2, <1>4
        <5> HIDE DEF lg
        <5>3. \A j \in 1 .. Len(q) : j # i => q[j] # q[i] /\ q[j] # w /\ q[j] \in Wdogs
          BY <3>1, <1>4, <1>6
        <5> QED BY <5>1, <5>2, <5>3, <3>2
      <4> HIDE DEF lg, i
      <4>4. y = Linking(z1, w, i, lg)
        BY <4>1, <4>3, <1>2, <1>4 DEF WdStates, Linking
      <4>5. i \in 1 .. Len(q) + 1
        BY <3>1, <1>4
      <4>6. d <= e[i]
        BY <3>2, <3>3, <1>3
      <4>7. Fits(z1, w, d, i, lg)
        BY <4>2, <4>3, <4>5, <4>6, <3>2 DEF Fits
      <4> QED BY <4>4, <4>7
    <3>4. CASE ~(d < e[i])
      <4> DEFINE after == d - e[i]
                 lg == [x \in Wdogs |-> IF x = w THEN after
                                        ELSE IF i < Len(q) /\ x = q[i+1] THEN z1.lag[x] - after
                                        ELSE z1.lag[x]]
      <4>1. Insert(z1, w, d) = [z1 EXCEPT !.g_wdactivelist = InsertAt(q, i + 1, w), !.lag = lg]
        BY <2>2, <3>4 DEF Insert
      <4>2. i = Len(q) /\ after \in Int /\ e[i] <= d
        BY <3>1, <3>2, <3>4, <1>3
      <4>3. /\ lg \in [Wdogs -> Int] /\ lg[w] = after
            /\ \A j \in 1 .. Len(q) : lg[q[j]] = z1.lag[q[j]]
        <5> HIDE DEF after
        <5>1. \A x \in Wdogs : lg[x] = IF x = w THEN after ELSE z1.lag[x]
          BY <4>2, <1>4
        <5>2. lg = [x \in Wdogs |-> lg[x]]
          OBVIOUS
        <5> HIDE DEF lg
        <5>3. lg \in [Wdogs -> Int]
          BY <4>2, <5>1, <5>2, <1>4
        <5> QED BY <5>1, <5>3, <1>4, <1>6
      <4> HIDE DEF lg, i
      <4>4. y = Linking(z1, w, i + 1, lg)
        BY <4>1, <4>3, <1>2, <1>4 DEF WdStates, Linking
      <4>5. i + 1 \in 1 .. Len(q) + 1 /\ (i + 1) - 1 = i /\ ~(i + 1 <= Len(q))
        BY <3>1, <4>2, <1>4
      <4>6. Fits(z1, w, d, i + 1, lg)
        BY <4>2, <4>3, <4>5 DEF Fits
      <4> QED BY <4>4, <4>6
    <3> QED BY <3>3, <3>4
  <2> QED BY <2>1, <2>2
<1>10. PICK k, lg : y = Linking(z1, w, k, lg) /\ Fits(z1, w, d, k, lg)
  BY <1>9
<1>11. WdSound(y) /\ Left(y) = [Left(z1) EXCEPT ![w] = d]
  <2>1. WdSound(z1) /\ Fits(z1, w, d, k, lg)
    BY <1>1, <1>10
  <2>2. WdSound(y) /\ \A x \in Wdogs : Left(y)[x] = IF x = w THEN d ELSE Left(z1)[x]
    BY <2>1, <1>3, <1>5, <1>10, InsertedSound
  <2> QED BY <2>2 DEF Left
<1>12. [Left(z1) EXCEPT ![w] = d] = [Left(z) EXCEPT ![w] = d]
  BY <1>1 DEF Left
<1>13. y.g_wdfreelist = z.g_wdfreelist
  <2>1. Linking(z1, w, k, lg).g_wdfreelist = z1.g_wdfreelist
    BY <1>4 DEF Linking, WdStates
  <2> QED BY <2>1, <1>1, <1>10
<1> QED BY <1>11, <1>12, <1>13 DEF y, d

(* Nothing becomes due by stopping a watchdog, or by starting one.         *)
LEMMA NotDueStays ==
  ASSUME NEW z, NEW y, WdSound(z), WdSound(y), NEW w \in Wdogs, NEW n \in Int, n # 0,
         Left(y) = [Left(z) EXCEPT ![w] = n], ~Expired(z)
  PROVE  ~Expired(y)
<1>1. \A x \in Wdogs : Left(z)[x] # 0
  BY ExpiredIsDue
<1>2. \A x \in Wdogs : Left(y)[x] = IF x = w THEN n ELSE Left(z)[x]
  BY DEF Left
<1>3. \A x \in Wdogs : Left(y)[x] # 0
  BY <1>1, <1>2
<1> QED BY <1>3, ExpiredIsDue

(* The pool after wd_initialize: every watchdog is free, none is active.   *)
LEMMA InitSound ==
  /\ WdSound(wd_initialize)
  /\ Left(wd_initialize) = [w \in Wdogs |-> -1]
  /\ ~Expired(wd_initialize) /\ \A w \in Wdogs : Linked(wd_initialize.g_wdfreelist, w)
<1> DEFINE p == SetToSeq(Wdogs)
           n == Cardinality(Wdogs)
           z == wd_initialize
<1>1. n \in Nat /\ ExistsBijection(1 .. n, Wdogs)
  BY PoolAssumption, FS_CardinalityType
<1>2. PICK b : b \in [1 .. n -> Wdogs] /\ IsInjective(b)
  BY <1>1 DEF ExistsBijection, Bijection, Injection
<1>3. p \in [1 .. n -> Wdogs] /\ IsInjective(p)
  BY <1>2 DEF SetToSeq
<1> HIDE DEF p
<1>4. p \in Seq(Wdogs) /\ Distinct(p)
  BY <1>1, <1>3 DEF IsInjective, Distinct
<1>5. /\ z.g_wdactivelist = <<>> /\ z.g_wdfreelist = p /\ z.lag = [w \in Wdogs |-> 0]
      /\ z.active = [w \in Wdogs |-> FALSE] /\ z.wdnotfound = FALSE
      /\ z \in WdStates
  BY <1>4 DEF wd_initialize, WdStates, p
<1> HIDE DEF z
<1>6. \A w \in Wdogs : ~Linked(<<>>, w)
  BY DEF Linked
<1>7. Distinct(<<>>)
  BY DEF Distinct
<1>8. WdSound(z)
  BY <1>4, <1>5, <1>6, <1>7 DEF WdSound
<1>9. Left(z) = [w \in Wdogs |-> -1]
  BY <1>5 DEF Left
<1>10. ~Expired(z)
  BY <1>5 DEF Expired
<1>11. \A w \in Wdogs : Linked(z.g_wdfreelist, w)
  <2>1. p \in Injection(1 .. n, Wdogs)
    BY <1>3 DEF Injection, IsInjective
  <2>2. IsFiniteSet(1 .. n) /\ Cardinality(1 .. n) = Cardinality(Wdogs)
    BY <1>1, FS_Interval
  <2>3. p \in Surjection(1 .. n, Wdogs)
    BY <2>1, <2>2, PoolAssumption, FS_Injection
  <2>4. \A w \in Wdogs : \E i \in 1 .. n : p[i] = w
    BY <2>3 DEF Surjection
  <2>5. DOMAIN p = 1 .. n
    BY <1>3
  <2> QED BY <2>4, <2>5, <1>5 DEF Linked
<1> QED BY <1>8, <1>9, <1>10, <1>11 DEF z
=============================================================================
