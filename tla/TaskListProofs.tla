--------------------------- MODULE TaskListProofs ---------------------------
(***************************************************************************)
(* What the operations on task lists do to the order, the uniqueness and   *)
(* the ends of a list, for lists of any length over any set of tasks.      *)
(***************************************************************************)
EXTENDS TaskList, SequenceTheorems, WellFoundedInduction, TLAPS

(* Every nonempty set of naturals has a least element.                     *)
LEMMA LeastNatural ==
  ASSUME NEW T \in SUBSET Nat, T # {}
  PROVE  \E n \in T : \A k \in T : n <= k
<1>1. IsWellFoundedOn(OpToRel(<, Nat), Nat)
  BY NatLessThanWellFounded
<1>2. \E n \in T : \A k \in T : ~ (<<k, n>> \in OpToRel(<, Nat))
  BY <1>1, WFMin
<1>3. PICK n \in T : \A k \in T : ~ (<<k, n>> \in OpToRel(<, Nat))
  BY <1>2
<1>4. \A k \in T : n <= k
  <2> TAKE k \in T
  <2>1. ~ (<<k, n>> \in {ss \in Nat \X Nat : ss[1] < ss[2]})
    BY <1>3 DEF OpToRel
  <2> QED BY <2>1
<1> QED BY <1>4

(* The search loop stops, at the first task of lower priority.             *)
LEMMA SearchFromStops ==
  ASSUME NEW S, NEW q \in Seq(S), NEW prio \in [S -> Int], NEW p \in Int,
         NEW from \in 1 .. Len(q) + 1
  PROVE  LET i == SearchFrom(q, prio, p, from)
         IN  /\ i \in from .. Len(q) + 1
             /\ \A j \in from .. i - 1 : p <= prio[q[j]]
             /\ i <= Len(q) => prio[q[i]] < p
<1> DEFINE T == {n \in Nat : n \in from .. Len(q) + 1 /\ (n <= Len(q) => prio[q[n]] < p)}
<1>1. T \in SUBSET Nat /\ T # {}
  <2>1. Len(q) + 1 \in T
    OBVIOUS
  <2> QED BY <2>1
<1>2. PICK n \in T : \A k \in T : n <= k
  <2> HIDE DEF T
  <2> QED BY <1>1, LeastNatural
<1>3. \A j \in from .. n - 1 : p <= prio[q[j]]
  <2> TAKE j \in from .. n - 1
  <2>1. j \in Nat /\ j \in from .. Len(q) + 1 /\ j <= Len(q) /\ j \notin T
    BY <1>2
  <2>2. q[j] \in S
    BY <2>1, ElementOfSeq
  <2> QED BY <2>1, <2>2
<1> QED BY <1>2, <1>3 DEF SearchFrom

(* r is q with t added at position i.                                      *)
Inserts(q, r, i, t, S) ==
  /\ r \in Seq(S) /\ Len(r) = Len(q) + 1
  /\ \A k \in 1 .. Len(q) + 1 : r[k] = IF k < i THEN q[k] ELSE IF k = i THEN t ELSE q[k-1]

(* Inserting at position i moves the rest one position on.                 *)
LEMMA InsertedPositions ==
  ASSUME NEW S, NEW q \in Seq(S), NEW t \in S, NEW i \in 1 .. Len(q) + 1
  PROVE  Inserts(q, InsertAt(q, i, t), i, t, S)
<1> DEFINE l == SubSeq(q, 1, i - 1)
           r == SubSeq(q, i, Len(q))
<1>1. /\ l \in Seq(S) /\ Len(l) = i - 1
      /\ \A k \in 1 .. i - 1 : l[k] = q[k]
  <2>1. \A k \in 1 .. i - 1 : q[k] \in S
    BY ElementOfSeq
  <2> QED BY <2>1, SubSeqProperties
<1>2. /\ r \in Seq(S) /\ Len(r) = Len(q) - i + 1
      /\ \A k \in 1 .. Len(q) - i + 1 : r[k] = q[i + k - 1]
  <2>1. \A k \in i .. Len(q) : q[k] \in S
    BY ElementOfSeq
  <2> QED BY <2>1, SubSeqProperties
<1>3. <<t>> \in Seq(S) /\ Len(<<t>>) = 1 /\ <<t>>[1] = t
  OBVIOUS
<1> HIDE DEF l, r
<1>4. /\ l \o <<t>> \in Seq(S) /\ Len(l \o <<t>>) = i
      /\ \A k \in 1 .. i : (l \o <<t>>)[k] = IF k < i THEN q[k] ELSE t
  BY <1>1, <1>3, ConcatProperties
<1> DEFINE h == l \o <<t>>
<1>5. InsertAt(q, i, t) = h \o r
  BY DEF InsertAt, l, r
<1> HIDE DEF h
<1>6. h \in Seq(S) /\ Len(h) = i /\ \A k \in 1 .. i : h[k] = IF k < i THEN q[k] ELSE t
  BY <1>4 DEF h
<1>7. /\ h \o r \in Seq(S) /\ Len(h \o r) = Len(h) + Len(r)
      /\ \A k \in 1 .. Len(h) + Len(r) : (h \o r)[k] = IF k <= Len(h) THEN h[k] ELSE r[k - Len(h)]
  BY <1>2, <1>6, ConcatProperties
<1> QED BY <1>2, <1>5, <1>6, <1>7 DEF Inserts

(* The same without the name.                                              *)
LEMMA InsertAtPositions ==
  ASSUME NEW S, NEW q \in Seq(S), NEW i \in 1 .. Len(q) + 1, NEW t \in S
  PROVE  /\ InsertAt(q, i, t) \in Seq(S)
         /\ Len(InsertAt(q, i, t)) = Len(q) + 1
         /\ \A k \in 1 .. Len(q) + 1 :
              InsertAt(q, i, t)[k] = IF k < i THEN q[k] ELSE IF k = i THEN t ELSE q[k-1]
BY InsertedPositions DEF Inserts

(* Removing position i moves the rest one position up.                     *)
LEMMA RemoveAtPositions ==
  ASSUME NEW S, NEW q \in Seq(S), NEW i \in 1 .. Len(q)
  PROVE  /\ RemoveAt(q, i) \in Seq(S)
         /\ Len(RemoveAt(q, i)) = Len(q) - 1
         /\ \A k \in 1 .. Len(q) - 1 : RemoveAt(q, i)[k] = IF k < i THEN q[k] ELSE q[k+1]
<1> DEFINE l == SubSeq(q, 1, i - 1)
           r == SubSeq(q, i + 1, Len(q))
<1>1. /\ l \in Seq(S) /\ Len(l) = i - 1
      /\ \A k \in 1 .. i - 1 : l[k] = q[k]
  <2>1. \A k \in 1 .. i - 1 : q[k] \in S
    BY ElementOfSeq
  <2> QED BY <2>1, SubSeqProperties
<1>2. /\ r \in Seq(S) /\ Len(r) = Len(q) - i
      /\ \A k \in 1 .. Len(q) - i : r[k] = q[i + k]
  <2>1. \A k \in i + 1 .. Len(q) : q[k] \in S
    BY ElementOfSeq
  <2> QED BY <2>1, SubSeqProperties
<1>3. RemoveAt(q, i) = l \o r
  BY DEF RemoveAt
<1> HIDE DEF l, r
<1>4. /\ l \o r \in Seq(S) /\ Len(l \o r) = Len(l) + Len(r)
      /\ \A k \in 1 .. Len(l) + Len(r) : (l \o r)[k] = IF k <= Len(l) THEN l[k] ELSE r[k - Len(l)]
  BY <1>1, <1>2, ConcatProperties
<1>5. Len(q) \in Nat /\ Len(l) + Len(r) = Len(q) - 1
  BY <1>1, <1>2
<1>6. ASSUME NEW k \in 1 .. Len(q) - 1
      PROVE  (l \o r)[k] = IF k < i THEN q[k] ELSE q[k+1]
  <2>1. CASE k < i
    BY <2>1, <1>1, <1>4, <1>5
  <2>2. CASE ~(k < i)
    <3>1. k - Len(l) \in 1 .. Len(q) - i /\ k - Len(l) = k - i + 1
      BY <2>2, <1>1, <1>5
    <3>2. (l \o r)[k] = r[k - Len(l)]
      BY <2>2, <1>1, <1>4, <1>5
    <3>3. r[k - Len(l)] = q[i + (k - i + 1)]
      BY <3>1, <1>2
    <3> QED BY <2>2, <3>2, <3>3
  <2> QED BY <2>1, <2>2
<1> QED BY <1>3, <1>4, <1>5, <1>6

(* dq_rem unlinks t and nothing else, and keeps the rest in place.         *)
LEMMA DqRemUnlinks ==
  ASSUME NEW S, NEW q \in Seq(S), NEW t \in S, Distinct(q),
         \E n \in DOMAIN q : q[n] = t
  PROVE  /\ dq_rem(q, t) \in Seq(S)
         /\ Len(q) \in Nat \ {0} /\ Len(dq_rem(q, t)) = Len(q) - 1
         /\ Distinct(dq_rem(q, t))
         /\ \A x \in S : Linked(dq_rem(q, t), x) <=> Linked(q, x) /\ x # t
         /\ q[1] = t /\ Len(q) > 1 => dq_rem(q, t)[1] = q[2]
         /\ q[1] # t => dq_rem(q, t)[1] = q[1]
         /\ q[Len(q)] # t => Len(q) > 1 /\ dq_rem(q, t)[Len(q) - 1] = q[Len(q)]
<1> DEFINE i == CHOOSE n \in DOMAIN q : q[n] = t
           r == dq_rem(q, t)
<1>1. DOMAIN q = 1 .. Len(q) /\ Len(q) \in Nat
  BY LenProperties
<1>2. i \in 1 .. Len(q) /\ q[i] = t
  BY <1>1 DEF Linked
<1>3. r = RemoveAt(q, i)
  BY DEF dq_rem
<1> HIDE DEF i
<1>4. /\ r \in Seq(S) /\ Len(r) = Len(q) - 1
      /\ \A k \in 1 .. Len(q) - 1 : r[k] = IF k < i THEN q[k] ELSE q[k+1]
  BY <1>2, <1>3, RemoveAtPositions
<1> HIDE DEF r
<1>5. DOMAIN r = 1 .. Len(q) - 1
  BY <1>4, LenProperties
<1>6. Distinct(r)
  <2> SUFFICES ASSUME NEW j \in 1 .. Len(q) - 1, NEW k \in 1 .. Len(q) - 1, r[j] = r[k]
               PROVE  j = k
    BY <1>5 DEF Distinct
  <2> DEFINE j2 == IF j < i THEN j ELSE j + 1
             k2 == IF k < i THEN k ELSE k + 1
  <2>1. j2 \in 1 .. Len(q) /\ k2 \in 1 .. Len(q)
    BY <1>1, <1>2
  <2>2. q[j2] = q[k2]
    BY <1>4
  <2>3. j2 = k2
    <3> HIDE DEF j2, k2
    <3> QED BY <2>1, <2>2, <1>1 DEF Distinct
  <2> QED BY <2>3, <1>1, <1>2
<1>7. ASSUME NEW x \in S
      PROVE  Linked(r, x) <=> Linked(q, x) /\ x # t
  <2>1. ASSUME Linked(r, x) PROVE Linked(q, x) /\ x # t
    <3>1. PICK k \in 1 .. Len(q) - 1 : r[k] = x
      BY <2>1, <1>5 DEF Linked
    <3>2. CASE k < i
      <4>1. k \in 1 .. Len(q) /\ q[k] = x /\ k # i
        BY <3>1, <3>2, <1>1, <1>2, <1>4
      <4> QED BY <4>1, <1>1, <1>2 DEF Linked, Distinct
    <3>3. CASE ~(k < i)
      <4>1. k + 1 \in 1 .. Len(q) /\ q[k + 1] = x /\ k + 1 # i
        BY <3>1, <3>3, <1>1, <1>2, <1>4
      <4> QED BY <4>1, <1>1, <1>2 DEF Linked, Distinct
    <3> QED BY <3>2, <3>3
  <2>2. ASSUME Linked(q, x), x # t PROVE Linked(r, x)
    <3>1. PICK k \in 1 .. Len(q) : q[k] = x
      BY <2>2, <1>1 DEF Linked
    <3>2. CASE k < i
      <4>1. k \in 1 .. Len(q) - 1
        BY <3>2, <1>1, <1>2
      <4>2. r[k] = x
        BY <4>1, <3>1, <3>2, <1>4
      <4> QED BY <4>1, <4>2, <1>5 DEF Linked
    <3>3. CASE ~(k < i)
      <4>1. k - 1 \in 1 .. Len(q) - 1 /\ ~(k - 1 < i)
        BY <3>1, <3>3, <2>2, <1>1, <1>2
      <4>2. r[k - 1] = x
        BY <4>1, <3>1, <1>1, <1>4
      <4> QED BY <4>1, <4>2, <1>5 DEF Linked
    <3> QED BY <3>2, <3>3
  <2> QED BY <2>1, <2>2
<1>8. q[1] = t /\ Len(q) > 1 => r[1] = q[2]
  BY <1>1, <1>2, <1>4 DEF Distinct
<1>9. q[1] # t => r[1] = q[1]
  BY <1>1, <1>2, <1>4
<1>10. q[Len(q)] # t => Len(q) > 1 /\ r[Len(q) - 1] = q[Len(q)]
  BY <1>1, <1>2, <1>4
<1> QED BY <1>1, <1>2, <1>4, <1>6, <1>7, <1>8, <1>9, <1>10 DEF r

(* dq_rem keeps a list in priority order.                                  *)
LEMMA DqRemSorted ==
  ASSUME NEW S, NEW q \in Seq(S), NEW t \in S, \E n \in DOMAIN q : q[n] = t,
         NEW prio \in [S -> Int], Sorted(q, prio)
  PROVE  Sorted(dq_rem(q, t), prio)
<1> DEFINE i == CHOOSE n \in DOMAIN q : q[n] = t
           r == dq_rem(q, t)
<1>1. DOMAIN q = 1 .. Len(q) /\ Len(q) \in Nat
  BY LenProperties
<1>2. i \in 1 .. Len(q)
  BY <1>1 DEF Linked
<1>3. r = RemoveAt(q, i)
  BY DEF dq_rem
<1> HIDE DEF i
<1>4. /\ r \in Seq(S) /\ Len(r) = Len(q) - 1
      /\ \A k \in 1 .. Len(q) - 1 : r[k] = IF k < i THEN q[k] ELSE q[k+1]
  BY <1>2, <1>3, RemoveAtPositions, ZenonT(30)
<1> HIDE DEF r
<1>5. DOMAIN r = 1 .. Len(q) - 1
  BY <1>4, LenProperties
<1>6. ASSUME NEW j \in 1 .. Len(q) - 1, NEW k \in 1 .. Len(q) - 1, j < k
      PROVE  prio[r[j]] >= prio[r[k]]
  <2> DEFINE j2 == IF j < i THEN j ELSE j + 1
             k2 == IF k < i THEN k ELSE k + 1
  <2>1. j2 \in 1 .. Len(q) /\ k2 \in 1 .. Len(q) /\ j2 < k2
    BY <1>1, <1>2, <1>6
  <2>2. r[j] = q[j2] /\ r[k] = q[k2]
    BY <1>4
  <2> HIDE DEF j2, k2
  <2>3. prio[q[j2]] >= prio[q[k2]]
    BY <2>1, <1>1 DEF Sorted
  <2> QED BY <2>2, <2>3
<1> QED BY <1>5, <1>6 DEF Sorted, r

(* Inserting links t and nothing else.                                     *)
LEMMA InsertLinks ==
  ASSUME NEW S, NEW q \in Seq(S), NEW t \in S, NEW i \in 1 .. Len(q) + 1,
         Distinct(q), \A n \in DOMAIN q : q[n] # t
  PROVE  /\ Distinct(InsertAt(q, i, t))
         /\ \A x \in S : Linked(InsertAt(q, i, t), x) <=> Linked(q, x) \/ x = t
<1>1. DOMAIN q = 1 .. Len(q) /\ Len(q) \in Nat
  BY LenProperties
<1> DEFINE r == InsertAt(q, i, t)
<1>2. /\ r \in Seq(S) /\ Len(r) = Len(q) + 1
      /\ \A k \in 1 .. Len(q) + 1 : r[k] = IF k < i THEN q[k] ELSE IF k = i THEN t ELSE q[k-1]
  BY InsertAtPositions
<1> HIDE DEF r
<1>3. DOMAIN r = 1 .. Len(q) + 1
  BY <1>2, LenProperties
<1>4. Distinct(r)
  <2> SUFFICES ASSUME NEW j \in 1 .. Len(q) + 1, NEW k \in 1 .. Len(q) + 1, r[j] = r[k]
               PROVE  j = k
    BY <1>3 DEF Distinct
  <2> DEFINE pos(n) == IF n < i THEN n ELSE n - 1
  <2>1. \A n \in 1 .. Len(q) : q[n] # t
    BY <1>1
  <2>2. ASSUME NEW n \in 1 .. Len(q) + 1, n # i
        PROVE  pos(n) \in 1 .. Len(q) /\ r[n] = q[pos(n)]
    BY <2>2, <1>1, <1>2
  <2>3. r[i] = t
    BY <1>2
  <2>4. CASE j = i \/ k = i
    BY <2>1, <2>2, <2>3, <2>4
  <2>5. CASE j # i /\ k # i
    <3>1. pos(j) = pos(k)
      <4> HIDE DEF pos
      <4> QED BY <2>2, <2>5, <1>1 DEF Distinct
    <3> QED BY <3>1, <2>5
  <2> QED BY <2>4, <2>5
<1>5. ASSUME NEW x \in S
      PROVE  Linked(r, x) <=> Linked(q, x) \/ x = t
  <2>1. ASSUME Linked(r, x), x # t PROVE Linked(q, x)
    <3>1. PICK k \in 1 .. Len(q) + 1 : r[k] = x
      BY <2>1, <1>3 DEF Linked
    <3>2. k < i => k \in 1 .. Len(q) /\ q[k] = x
      BY <3>1, <1>1, <1>2
    <3>3. k > i => k - 1 \in 1 .. Len(q) /\ q[k - 1] = x
      BY <3>1, <1>1, <1>2
    <3>4. k # i
      BY <3>1, <2>1, <1>2
    <3> QED BY <3>2, <3>3, <3>4, <1>1 DEF Linked
  <2>2. ASSUME Linked(q, x) PROVE Linked(r, x)
    <3>1. PICK k \in 1 .. Len(q) : q[k] = x
      BY <2>2, <1>1 DEF Linked
    <3>2. CASE k < i
      BY <3>1, <3>2, <1>1, <1>2, <1>3 DEF Linked
    <3>3. CASE ~(k < i)
      <4>1. k + 1 \in 1 .. Len(q) + 1 /\ r[k + 1] = x
        BY <3>1, <3>3, <1>1, <1>2
      <4> QED BY <4>1, <1>3 DEF Linked
    <3> QED BY <3>2, <3>3
  <2>3. ASSUME x = t PROVE Linked(r, x)
    BY <2>3, <1>2, <1>3 DEF Linked
  <2> QED BY <2>1, <2>2, <2>3
<1> QED BY <1>4, <1>5 DEF r

(* Inserting behind tasks of at least and before tasks of lower priority   *)
(* keeps a list in priority order.                                         *)
LEMMA InsertSorted ==
  ASSUME NEW S, NEW q \in Seq(S), NEW t \in S, NEW i \in 1 .. Len(q) + 1,
         NEW prio \in [S -> Int], Sorted(q, prio),
         \A j \in 1 .. i - 1 : prio[t] <= prio[q[j]],
         i <= Len(q) => prio[q[i]] < prio[t]
  PROVE  Sorted(InsertAt(q, i, t), prio)
<1>1. DOMAIN q = 1 .. Len(q) /\ Len(q) \in Nat
  BY LenProperties
<1> DEFINE r == InsertAt(q, i, t)
<1>2. /\ r \in Seq(S) /\ Len(r) = Len(q) + 1
      /\ \A k \in 1 .. Len(q) + 1 : r[k] = IF k < i THEN q[k] ELSE IF k = i THEN t ELSE q[k-1]
  BY InsertAtPositions
<1> HIDE DEF r
<1>3. DOMAIN r = 1 .. Len(q) + 1
  BY <1>2, LenProperties
<1>4. \A k \in 1 .. Len(q) : prio[q[k]] \in Int
  BY ElementOfSeq
<1>5. \A k \in 1 .. Len(q) : k >= i => prio[q[k]] < prio[t]
  <2> TAKE k \in 1 .. Len(q)
  <2> HAVE k >= i
  <2>1. i \in 1 .. Len(q) /\ prio[q[i]] < prio[t]
    BY <1>1
  <2>2. prio[q[i]] >= prio[q[k]]
    BY <2>1, <1>1, <1>4 DEF Sorted
  <2> QED BY <2>1, <2>2, <1>4
<1>6. ASSUME NEW j \in 1 .. Len(q) + 1, NEW k \in 1 .. Len(q) + 1, j < k
      PROVE  prio[r[j]] >= prio[r[k]]
  <2>1. CASE k < i
    <3>1. j \in 1 .. Len(q) /\ k \in 1 .. Len(q) /\ r[j] = q[j] /\ r[k] = q[k]
      BY <2>1, <1>1, <1>2, <1>6
    <3> QED BY <3>1, <1>1, <1>6 DEF Sorted
  <2>2. CASE k = i
    BY <2>2, <1>1, <1>2, <1>4, <1>6
  <2>3. CASE k > i /\ j = i
    <3>1. k - 1 \in 1 .. Len(q) /\ k - 1 >= i /\ r[k] = q[k - 1] /\ r[j] = t
      BY <2>3, <1>1, <1>2
    <3>2. prio[q[k - 1]] < prio[t]
      BY <3>1, <1>5
    <3> QED BY <3>1, <3>2, <1>4
  <2>4. CASE k > i /\ j < i
    <3>1. k - 1 \in 1 .. Len(q) /\ j \in 1 .. Len(q) /\ j < k - 1 /\ r[k] = q[k - 1] /\ r[j] = q[j]
      BY <2>4, <1>1, <1>2
    <3> QED BY <3>1, <1>1 DEF Sorted
  <2>5. CASE j > i
    <3>1. k - 1 \in 1 .. Len(q) /\ j - 1 \in 1 .. Len(q) /\ j - 1 < k - 1
          /\ r[k] = q[k - 1] /\ r[j] = q[j - 1]
      BY <2>5, <1>1, <1>2, <1>6
    <3> QED BY <3>1, <1>1 DEF Sorted
  <2> QED BY <2>1, <2>2, <2>3, <2>4, <2>5, <1>6
<1> QED BY <1>3, <1>6 DEF Sorted, r

(* sched_addprioritized on a list in priority order: the order is kept, t  *)
(* becomes the head exactly when it has more priority than the head, and   *)
(* the tail stays when it has less priority than t.                        *)
LEMMA AddPrioritizedKeeps ==
  ASSUME NEW S, NEW q \in Seq(S), NEW t \in S, NEW prio \in [S -> Int],
         Distinct(q), \A n \in DOMAIN q : q[n] # t, Sorted(q, prio)
  PROVE  LET r == sched_addprioritized(q, prio, t)
         IN  /\ r \in Seq(S)
             /\ Len(r) = Len(q) + 1
             /\ Distinct(r)
             /\ Sorted(r, prio)
             /\ \A x \in S : Linked(r, x) <=> Linked(q, x) \/ x = t
             /\ q = <<>> => r[1] = t
             /\ q # <<>> /\ prio[q[1]] < prio[t] => r[1] = t /\ r[2] = q[1]
             /\ q # <<>> /\ prio[t] <= prio[q[1]] => r[1] = q[1]
             /\ q # <<>> /\ prio[q[Len(q)]] < prio[t] => r[Len(q) + 1] = q[Len(q)]
<1> DEFINE i == SearchFrom(q, prio, prio[t], 1)
           r == InsertAt(q, i, t)
<1>1. DOMAIN q = 1 .. Len(q) /\ Len(q) \in Nat /\ prio[t] \in Int
  BY LenProperties
<1>2. 1 \in 1 .. Len(q) + 1
  BY <1>1
<1>3. /\ i \in 1 .. Len(q) + 1
      /\ \A j \in 1 .. i - 1 : prio[t] <= prio[q[j]]
      /\ i <= Len(q) => prio[q[i]] < prio[t]
  BY <1>1, <1>2, SearchFromStops
<1> HIDE DEF i
<1>4. sched_addprioritized(q, prio, t) = r
  BY DEF sched_addprioritized, i
<1>5. /\ r \in Seq(S) /\ Len(r) = Len(q) + 1
      /\ \A k \in 1 .. Len(q) + 1 : r[k] = IF k < i THEN q[k] ELSE IF k = i THEN t ELSE q[k-1]
  BY <1>3, InsertAtPositions
<1>6. Distinct(r) /\ \A x \in S : Linked(r, x) <=> Linked(q, x) \/ x = t
  BY <1>3, InsertLinks
<1>7. Sorted(r, prio)
  BY <1>3, InsertSorted
<1> HIDE DEF r
<1>8. q = <<>> => r[1] = t
  BY <1>1, <1>3, <1>5
<1>9. ASSUME q # <<>> PROVE Len(q) > 0 /\ q[1] \in S /\ q[Len(q)] \in S
  BY <1>9, <1>1, EmptySeq, ElementOfSeq
<1>10. ASSUME q # <<>>, prio[q[1]] < prio[t] PROVE r[1] = t /\ r[2] = q[1]
  <2>1. i = 1
    BY <1>1, <1>3, <1>9, <1>10
  <2> QED BY <2>1, <1>1, <1>5, <1>9, <1>10
<1>11. ASSUME q # <<>>, prio[t] <= prio[q[1]] PROVE r[1] = q[1]
  <2>1. i # 1
    BY <1>1, <1>3, <1>9, <1>11
  <2> QED BY <2>1, <1>1, <1>3, <1>5
<1>12. ASSUME q # <<>>, prio[q[Len(q)]] < prio[t] PROVE r[Len(q) + 1] = q[Len(q)]
  <2>1. i # Len(q) + 1
    BY <1>1, <1>3, <1>9, <1>12
  <2> QED BY <2>1, <1>1, <1>3, <1>5
<1> QED BY <1>4, <1>5, <1>6, <1>7, <1>8, <1>10, <1>11, <1>12

(* dq_addlast links t and nothing else.                                    *)
LEMMA AddLastLinks ==
  ASSUME NEW S, NEW q \in Seq(S), NEW t \in S, Distinct(q), \A n \in DOMAIN q : q[n] # t
  PROVE  /\ dq_addlast(q, t) \in Seq(S) /\ Distinct(dq_addlast(q, t))
         /\ \A x \in S : Linked(dq_addlast(q, t), x) <=> Linked(q, x) \/ x = t
<1> DEFINE r == dq_addlast(q, t)
<1>1. DOMAIN q = 1 .. Len(q) /\ Len(q) \in Nat
  BY LenProperties
<1>2. /\ r \in Seq(S) /\ Len(r) = Len(q) + 1
      /\ \A k \in 1 .. Len(q) : r[k] = q[k]
      /\ r[Len(q) + 1] = t
  BY AppendProperties DEF dq_addlast
<1> HIDE DEF r
<1>3. DOMAIN r = 1 .. Len(q) + 1
  BY <1>2, LenProperties
<1>4. Distinct(r)
  <2> SUFFICES ASSUME NEW j \in 1 .. Len(q) + 1, NEW k \in 1 .. Len(q) + 1, r[j] = r[k]
               PROVE  j = k
    BY <1>3 DEF Distinct
  <2>1. CASE j \in 1 .. Len(q) /\ k \in 1 .. Len(q)
    BY <2>1, <1>1, <1>2 DEF Distinct
  <2>2. CASE j \in 1 .. Len(q) /\ k = Len(q) + 1
    BY <2>2, <1>1, <1>2
  <2>3. CASE j = Len(q) + 1 /\ k \in 1 .. Len(q)
    BY <2>3, <1>1, <1>2
  <2> QED BY <2>1, <2>2, <2>3, <1>1
<1>5. ASSUME NEW x \in S
      PROVE  Linked(r, x) <=> Linked(q, x) \/ x = t
  <2>1. ASSUME Linked(r, x), x # t PROVE Linked(q, x)
    <3>1. PICK k \in 1 .. Len(q) + 1 : r[k] = x
      BY <2>1, <1>3 DEF Linked
    <3>2. k \in 1 .. Len(q)
      BY <3>1, <2>1, <1>1, <1>2
    <3> QED BY <3>1, <3>2, <1>1, <1>2 DEF Linked
  <2>2. ASSUME Linked(q, x) PROVE Linked(r, x)
    <3>1. PICK k \in 1 .. Len(q) : q[k] = x
      BY <2>2, <1>1 DEF Linked
    <3> QED BY <3>1, <1>1, <1>2, <1>3 DEF Linked
  <2>3. ASSUME x = t PROVE Linked(r, x)
    BY <2>3, <1>1, <1>2, <1>3 DEF Linked
  <2> QED BY <2>1, <2>2, <2>3
<1> QED BY <1>2, <1>4, <1>5 DEF r

(* dq_addfirst links t and nothing else.                                   *)
LEMMA AddFirstLinks ==
  ASSUME NEW S, NEW q \in Seq(S), NEW t \in S, Distinct(q), \A n \in DOMAIN q : q[n] # t
  PROVE  /\ dq_addfirst(q, t) \in Seq(S) /\ Distinct(dq_addfirst(q, t))
         /\ \A x \in S : Linked(dq_addfirst(q, t), x) <=> Linked(q, x) \/ x = t
<1> DEFINE r == dq_addfirst(q, t)
<1>1. DOMAIN q = 1 .. Len(q) /\ Len(q) \in Nat
  BY LenProperties
<1>2. /\ r \in Seq(S) /\ Len(r) = Len(q) + 1
      /\ \A k \in 1 .. Len(q) + 1 : r[k] = IF k = 1 THEN t ELSE q[k - 1]
  <2>1. <<t>> \in Seq(S) /\ Len(<<t>>) = 1 /\ <<t>>[1] = t
    OBVIOUS
  <2>2. /\ <<t>> \o q \in Seq(S) /\ Len(<<t>> \o q) = Len(<<t>>) + Len(q)
        /\ \A k \in 1 .. Len(<<t>>) + Len(q) :
             (<<t>> \o q)[k] = IF k <= Len(<<t>>) THEN <<t>>[k] ELSE q[k - Len(<<t>>)]
    BY <2>1, ConcatProperties
  <2> QED BY <1>1, <2>1, <2>2 DEF dq_addfirst
<1> HIDE DEF r
<1>3. DOMAIN r = 1 .. Len(q) + 1
  BY <1>2, LenProperties
<1>4. Distinct(r)
  <2> SUFFICES ASSUME NEW j \in 1 .. Len(q) + 1, NEW k \in 1 .. Len(q) + 1, r[j] = r[k]
               PROVE  j = k
    BY <1>3 DEF Distinct
  <2>1. \A n \in 2 .. Len(q) + 1 : n - 1 \in DOMAIN q /\ r[n] = q[n - 1]
    BY <1>1, <1>2
  <2>2. CASE j # 1 /\ k # 1
    <3>1. j - 1 \in DOMAIN q /\ k - 1 \in DOMAIN q /\ q[j - 1] = q[k - 1]
      BY <2>1, <2>2, <1>1
    <3>2. j - 1 = k - 1
      BY <3>1 DEF Distinct
    <3> QED BY <3>2
  <2>3. CASE j = 1 \/ k = 1
    BY <2>1, <2>3, <1>1, <1>2, SMTT(30)
  <2> QED BY <2>2, <2>3
<1>5. ASSUME NEW x \in S
      PROVE  Linked(r, x) <=> Linked(q, x) \/ x = t
  <2>1. ASSUME Linked(r, x), x # t PROVE Linked(q, x)
    <3>1. PICK k \in 1 .. Len(q) + 1 : r[k] = x
      BY <2>1, <1>3 DEF Linked
    <3>2. k - 1 \in 1 .. Len(q) /\ q[k - 1] = x
      BY <3>1, <2>1, <1>1, <1>2
    <3> QED BY <3>2, <1>1 DEF Linked
  <2>2. ASSUME Linked(q, x) PROVE Linked(r, x)
    <3>1. PICK k \in 1 .. Len(q) : q[k] = x
      BY <2>2, <1>1 DEF Linked
    <3>2. k + 1 \in 1 .. Len(q) + 1 /\ r[k + 1] = x
      BY <3>1, <1>1, <1>2
    <3> QED BY <3>2, <1>3 DEF Linked
  <2>3. ASSUME x = t PROVE Linked(r, x)
    BY <2>3, <1>1, <1>2, <1>3 DEF Linked
  <2> QED BY <2>1, <2>2, <2>3
<1> QED BY <1>2, <1>4, <1>5 DEF r

-----------------------------------------------------------------------------
(* The order of a list.  In a list of distinct tasks only one of two tasks *)
(* is ahead of the other.                                                  *)
LEMMA AheadOneWay ==
  ASSUME NEW S, NEW q \in Seq(S), Distinct(q), NEW t, NEW u, Ahead(q, t, u)
  PROVE  ~Ahead(q, u, t) /\ Linked(q, t) /\ Linked(q, u) /\ u # q[1]
<1>1. DOMAIN q = 1 .. Len(q) /\ Len(q) \in Nat
  BY LenProperties
<1>2. PICK i \in 1 .. Len(q), j \in 1 .. Len(q) : i < j /\ q[i] = t /\ q[j] = u
  BY <1>1 DEF Ahead
<1>3. ASSUME Ahead(q, u, t) PROVE FALSE
  <2>1. PICK k \in 1 .. Len(q), n \in 1 .. Len(q) : k < n /\ q[k] = u /\ q[n] = t
    BY <1>1, <1>3 DEF Ahead
  <2>2. k = j /\ n = i
    BY <1>1, <1>2, <2>1 DEF Distinct
  <2> QED BY <1>2, <2>1, <2>2
<1>4. u # q[1]
  <2>1. 1 \in 1 .. Len(q)
    BY <1>1
  <2> QED BY <2>1, <1>1, <1>2 DEF Distinct
<1> QED BY <1>1, <1>2, <1>3, <1>4 DEF Linked

(* The tasks of A that are in q are in r, in the order they have in q.     *)
KeepsOrder(q, r, A) == \A t, u \in A : Ahead(q, t, u) => Ahead(r, t, u)

(* dq_rem leaves the other tasks in the order they were in.                *)
LEMMA DqRemOrder ==
  ASSUME NEW S, NEW q \in Seq(S), NEW x \in S, \E n \in DOMAIN q : q[n] = x
  PROVE  KeepsOrder(q, dq_rem(q, x), S \ {x})
<1> DEFINE i == CHOOSE n \in DOMAIN q : q[n] = x
           r == dq_rem(q, x)
<1>1. DOMAIN q = 1 .. Len(q) /\ Len(q) \in Nat
  BY LenProperties
<1>2. i \in 1 .. Len(q) /\ q[i] = x
  BY <1>1
<1>3. r = RemoveAt(q, i)
  BY DEF dq_rem
<1> HIDE DEF i
<1>4. /\ r \in Seq(S) /\ Len(r) = Len(q) - 1
      /\ \A k \in 1 .. Len(q) - 1 : r[k] = IF k < i THEN q[k] ELSE q[k+1]
  BY <1>2, <1>3, RemoveAtPositions
<1> HIDE DEF r
<1>5. DOMAIN r = 1 .. Len(q) - 1
  BY <1>4, LenProperties
<1> SUFFICES ASSUME NEW t \in S \ {x}, NEW u \in S \ {x}, Ahead(q, t, u) PROVE Ahead(r, t, u)
  BY DEF r, KeepsOrder
<1>6. PICK j \in 1 .. Len(q), k \in 1 .. Len(q) : j < k /\ q[j] = t /\ q[k] = u
  BY <1>1 DEF Ahead
<1>7. j # i /\ k # i
  BY <1>2, <1>6
<1> DEFINE j2 == IF j < i THEN j ELSE j - 1
           k2 == IF k < i THEN k ELSE k - 1
<1>8. j2 \in 1 .. Len(q) - 1 /\ k2 \in 1 .. Len(q) - 1 /\ j2 < k2
  BY <1>1, <1>2, <1>6, <1>7
<1>9. r[j2] = t /\ r[k2] = u
  <2>1. CASE j < i /\ k < i
    BY <2>1, <1>1, <1>2, <1>4, <1>6, <1>8
  <2>2. CASE j < i /\ ~(k < i)
    BY <2>2, <1>1, <1>2, <1>4, <1>6, <1>7, <1>8
  <2>3. CASE ~(j < i)
    <3>1. j2 = j - 1 /\ k2 = k - 1 /\ ~(j2 < i) /\ ~(k2 < i)
      BY <2>3, <1>1, <1>2, <1>6, <1>7
    <3> QED BY <3>1, <1>4, <1>6, <1>8
  <2> QED BY <2>1, <2>2, <2>3
<1> HIDE DEF j2, k2
<1> QED BY <1>5, <1>8, <1>9 DEF Ahead

(* Inserting a task leaves the other tasks in the order they were in.      *)
LEMMA InsertOrder ==
  ASSUME NEW S, NEW q \in Seq(S), NEW x \in S, NEW i \in 1 .. Len(q) + 1
  PROVE  KeepsOrder(q, InsertAt(q, i, x), S)
<1> DEFINE r == InsertAt(q, i, x)
<1>1. DOMAIN q = 1 .. Len(q) /\ Len(q) \in Nat
  BY LenProperties
<1>2. /\ r \in Seq(S) /\ Len(r) = Len(q) + 1
      /\ \A k \in 1 .. Len(q) + 1 : r[k] = IF k < i THEN q[k] ELSE IF k = i THEN x ELSE q[k-1]
  BY InsertAtPositions
<1> HIDE DEF r
<1>3. DOMAIN r = 1 .. Len(q) + 1
  BY <1>2, LenProperties
<1> SUFFICES ASSUME NEW t \in S, NEW u \in S, Ahead(q, t, u) PROVE Ahead(r, t, u)
  BY DEF r, KeepsOrder
<1>4. PICK j \in 1 .. Len(q), k \in 1 .. Len(q) : j < k /\ q[j] = t /\ q[k] = u
  BY <1>1 DEF Ahead
<1> DEFINE j2 == IF j < i THEN j ELSE j + 1
           k2 == IF k < i THEN k ELSE k + 1
<1>5. j2 \in 1 .. Len(q) + 1 /\ k2 \in 1 .. Len(q) + 1 /\ j2 < k2
  BY <1>1, <1>4
<1>6. r[j2] = t /\ r[k2] = u
  BY <1>1, <1>2, <1>4, <1>5
<1> HIDE DEF j2, k2
<1> QED BY <1>3, <1>5, <1>6 DEF Ahead

(* sched_addprioritized keeps the order of the tasks already in the list   *)
(* and puts the new one behind every task of its priority.                 *)
LEMMA AddPrioritizedOrder ==
  ASSUME NEW S, NEW q \in Seq(S), NEW x \in S, NEW prio \in [S -> Int],
         \A n \in DOMAIN q : q[n] # x, Sorted(q, prio)
  PROVE  LET r == sched_addprioritized(q, prio, x)
         IN  /\ KeepsOrder(q, r, S)
             /\ \A u \in S : Ahead(r, x, u) => prio[u] < prio[x]
<1> DEFINE i == SearchFrom(q, prio, prio[x], 1)
           r == InsertAt(q, i, x)
<1>1. DOMAIN q = 1 .. Len(q) /\ Len(q) \in Nat /\ 1 \in 1 .. Len(q) + 1 /\ prio[x] \in Int
  BY LenProperties
<1>2. /\ i \in 1 .. Len(q) + 1
      /\ i <= Len(q) => prio[q[i]] < prio[x]
  BY <1>1, SearchFromStops
<1>3. sched_addprioritized(q, prio, x) = r
  BY DEF sched_addprioritized
<1> HIDE DEF i
<1>4. /\ r \in Seq(S) /\ Len(r) = Len(q) + 1
      /\ \A k \in 1 .. Len(q) + 1 : r[k] = IF k < i THEN q[k] ELSE IF k = i THEN x ELSE q[k-1]
  BY <1>2, InsertAtPositions
<1>5. KeepsOrder(q, r, S)
  BY <1>2, InsertOrder
<1> HIDE DEF r
<1>6. DOMAIN r = 1 .. Len(q) + 1
  BY <1>4, LenProperties
<1>7. ASSUME NEW u \in S, Ahead(r, x, u) PROVE prio[u] < prio[x]
  <2>1. PICK j \in 1 .. Len(q) + 1, k \in 1 .. Len(q) + 1 : j < k /\ r[j] = x /\ r[k] = u
    BY <1>6, <1>7 DEF Ahead
  <2>2. j = i
    <3>1. ASSUME j < i PROVE FALSE
      BY <3>1, <2>1, <1>1, <1>2, <1>4, SMTT(30)
    <3>2. ASSUME j > i PROVE FALSE
      <4>1. j - 1 \in 1 .. Len(q) /\ r[j] = q[j - 1]
        BY <3>2, <2>1, <1>1, <1>2, <1>4
      <4> QED BY <4>1, <2>1, <1>1
    <3> QED BY <3>1, <3>2, <1>1, <1>2
  <2>3. /\ k - 1 \in 1 .. Len(q) /\ r[k] = q[k - 1] /\ i \in 1 .. Len(q)
        /\ (i < k - 1 \/ i = k - 1)
    BY <2>1, <2>2, <1>1, <1>2, <1>4, SMTT(30)
  <2>4. q[i] \in S /\ prio[q[i]] \in Int /\ prio[q[k - 1]] \in Int /\ u = q[k - 1]
    BY <2>1, <2>3, <1>1, ElementOfSeq
  <2>5. prio[q[i]] >= prio[q[k - 1]]
    <3>1. CASE i < k - 1
      BY <3>1, <2>3, <1>1 DEF Sorted
    <3>2. CASE i = k - 1
      BY <3>2, <2>4
    <3> QED BY <3>1, <3>2, <2>3
  <2> QED BY <2>3, <2>4, <2>5, <1>1, <1>2
<1> QED BY <1>3, <1>5, <1>7
=============================================================================
