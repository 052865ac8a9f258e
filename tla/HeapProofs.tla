----------------------------- MODULE HeapProofs -----------------------------
(***************************************************************************)
(* The heap, for any size of memory, any number of users, any requests and *)
(* any alignments: headers, free lists and owners agree, malloc finds a    *)
(* smallest chunk that fits, and every user's block keeps its words, in    *)
(* programs that do not use memalign and realloc together.                 *)
(***************************************************************************)
EXTENDS Heap, TaskListProofs, FiniteSetTheorems

Addrs   == 0 .. Top
Classes == 0 .. MM_NNODES - 1

(* A heap: words and lists of free nodes.                                  *)
IsHeap(h) ==
  /\ h \in [mem : {h.mem}, nodelist : [Classes -> Seq(Addrs)]]
  /\ h.mem = [w \in Addrs |-> h.mem[w]]

-----------------------------------------------------------------------------
(* Least and greatest elements.                                            *)
LEMMA MinIs ==
  ASSUME NEW S \in SUBSET Nat, S # {}
  PROVE  Min(S) \in S /\ \A x \in S : Min(S) <= x
<1>1. \E n \in S : \A k \in S : n <= k
  BY LeastNatural
<1> QED BY <1>1 DEF Min

(* The greatest element of a bounded set is in it and not smaller.         *)
LEMMA MaxIs ==
  ASSUME NEW n \in Nat, NEW S \in SUBSET (0 .. n), S # {}
  PROVE  Max(S) \in S /\ \A x \in S : Max(S) >= x
<1> DEFINE T == {n - x : x \in S}
<1>1. T \in SUBSET Nat /\ T # {}
  <2>1. \A x \in S : n - x \in Nat
    OBVIOUS
  <2> QED BY <2>1
<1>2. \E m \in T : \A k \in T : m <= k
  <2> HIDE DEF T
  <2> QED BY <1>1, LeastNatural
<1>3. PICK x \in S : \A k \in T : n - x <= k
  BY <1>2
<1>4. \A y \in S : x >= y
  <2> TAKE y \in S
  <2>1. n - x <= n - y
    BY <1>3
  <2> QED BY <2>1
<1> QED BY <1>4 DEF Max

(* Of two numbers.                                                         *)
LEMMA MinMaxOfTwo ==
  ASSUME NEW x \in Int, NEW y \in Int
  PROVE  /\ Min({x, y}) = IF x <= y THEN x ELSE y
         /\ Max({x, y}) = IF x >= y THEN x ELSE y
<1>1. ASSUME NEW m \in {x, y}, \A z \in {x, y} : m <= z PROVE m = IF x <= y THEN x ELSE y
  BY <1>1
<1>2. ASSUME NEW m \in {x, y}, \A z \in {x, y} : m >= z PROVE m = IF x >= y THEN x ELSE y
  BY <1>2
<1>3. \E m \in {x, y} : \A z \in {x, y} : m <= z
  OBVIOUS
<1>4. \E m \in {x, y} : \A z \in {x, y} : m >= z
  OBVIOUS
<1>5. Min({x, y}) = IF x <= y THEN x ELSE y
  BY <1>1, <1>3 DEF Min
<1>6. Max({x, y}) = IF x >= y THEN x ELSE y
  BY <1>2, <1>4 DEF Max
<1> QED BY <1>5, <1>6

(* The class of a size, and that it grows with the size.                   *)
LEMMA ClassOfSize ==
  ASSUME NEW n \in Nat
  PROVE  /\ mm_size2ndx(n) \in Classes
         /\ \A m \in Nat : n <= m => mm_size2ndx(n) <= mm_size2ndx(m)
<1> DEFINE K(m) == {0} \cup {k \in 0 .. MM_NNODES - 1 : 2 ^ k <= m \div FreeNode}
<1>0. MM_NNODES - 1 \in Nat
  BY HeapAssumption
<1>1. \A m \in Nat : K(m) \in SUBSET (0 .. MM_NNODES - 1) /\ K(m) # {}
  BY <1>0
<1>2. \A m \in Nat : mm_size2ndx(m) = Max(K(m))
  BY DEF mm_size2ndx
<1>3. \A m \in Nat : n <= m => K(n) \subseteq K(m)
  BY DEF FreeNode
<1> HIDE DEF K
<1>4. \A m \in Nat : Max(K(m)) \in K(m) /\ \A x \in K(m) : Max(K(m)) >= x
  BY <1>0, <1>1, MaxIs
<1> QED BY <1>1, <1>2, <1>3, <1>4 DEF Classes

(* Rounding up to a granule.                                               *)
LEMMA AlignUpIs ==
  ASSUME NEW n \in Nat
  PROVE  AlignUp(n) \in Nat /\ AlignUp(n) % 2 = 0 /\ n <= AlignUp(n) /\ AlignUp(n) <= n + 1
BY DEF AlignUp, FreeNode

-----------------------------------------------------------------------------
(* Headers.                                                                *)
LEMMA HeaderReads ==
  ASSUME NEW h, NEW a, NEW n, NEW p, NEW al \in BOOLEAN, h.mem[a] = Header(n, p, al)
  PROVE  IsHeader(h, a) /\ Size(h, a) = n /\ Preceding(h, a) = p /\ (Allocated(h, a) <=> al)
BY DEF Header, IsHeader, Size, Preceding, Allocated

(* The fields of a header depend on its word alone.                        *)
LEMMA SameHeader ==
  ASSUME NEW h, NEW y, NEW a, y.mem[a] = h.mem[a]
  PROVE  /\ IsHeader(y, a) <=> IsHeader(h, a)
         /\ Size(y, a) = Size(h, a) /\ Preceding(y, a) = Preceding(h, a)
         /\ Allocated(y, a) <=> Allocated(h, a)
BY DEF IsHeader, Size, Preceding, Allocated

(* One word is written.                                                    *)
Wrote(h, y, a, word) ==
  /\ IsHeap(y) /\ y.nodelist = h.nodelist
  /\ y.mem[a] = word
  /\ \A w \in Addrs \ {a} : y.mem[w] = h.mem[w]

(* SetHeader writes the header and nothing else.                           *)
LEMMA SetHeaderWrites ==
  ASSUME NEW h, IsHeap(h), NEW a \in Addrs, NEW n, NEW p, NEW al
  PROVE  Wrote(h, SetHeader(h, a, n, p, al), a, Header(n, p, al))
<1> DEFINE word == Header(n, p, al)
           m == [h.mem EXCEPT ![a] = word]
<1>1. SetHeader(h, a, n, p, al) = [mem |-> m, nodelist |-> h.nodelist]
  <2>1. h \in [mem : {h.mem}, nodelist : [Classes -> Seq(Addrs)]]
    BY DEF IsHeap
  <2>2. SetHeader(h, a, n, p, al) = [h EXCEPT !.mem[a] = word]
    BY DEF SetHeader
  <2> HIDE DEF word
  <2> QED BY <2>1, <2>2
<1>2. m = [w \in Addrs |-> m[w]] /\ m[a] = word /\ \A w \in Addrs \ {a} : m[w] = h.mem[w]
  <2> HIDE DEF word
  <2> QED BY DEF IsHeap
<1>3. h.nodelist \in [Classes -> Seq(Addrs)]
  BY DEF IsHeap
<1> HIDE DEF m, word
<1> QED BY <1>1, <1>2, <1>3 DEF Wrote, IsHeap, word

-----------------------------------------------------------------------------
(* The chunks of a heap: from each to the next by its size, and back by    *)
(* the preceding size.                                                     *)
Chain(h, C) ==
  /\ C \subseteq Addrs /\ 0 \in C /\ Top \in C
  /\ Size(h, 0) = 1 /\ Allocated(h, 0) /\ Allocated(h, Top)
  /\ \A a \in C : IsHeader(h, a) /\ Size(h, a) \in Nat \ {0}
  /\ \A a \in C \ {Top} : /\ a + Size(h, a) \in C
                          /\ Preceding(h, a + Size(h, a)) = Size(h, a)
                          /\ \A c \in C : c <= a \/ a + Size(h, a) <= c
  /\ \A a \in C \ {0} : /\ a - Preceding(h, a) \in C
                        /\ Size(h, a - Preceding(h, a)) = Preceding(h, a)
  /\ \A a \in C \ {0, Top} : Size(h, a) >= FreeNode

Free(h, C) == {a \in C : ~Allocated(h, a)}

(* The lists hold the nodes of F, each in the list of its size, in order.  *)
Ascends(h, q) == \A i, j \in DOMAIN q : i < j => Size(h, q[i]) <= Size(h, q[j])

Listed(h, F) ==
  /\ \A k \in Classes, a \in Addrs :
       Linked(h.nodelist[k], a) <=> a \in F /\ mm_size2ndx(Size(h, a)) = k
  /\ \A k \in Classes : Distinct(h.nodelist[k]) /\ Ascends(h, h.nodelist[k])

(* A sound heap, up to some chunks that are in the hands of the section    *)
(* that runs: free ones among them are in no list.                         *)
GoodBut(h, C, L) == IsHeap(h) /\ Chain(h, C) /\ Listed(h, Free(h, C) \ L)

Good(h, C) == GoodBut(h, C, {})

(* The lists of two heaps are alike if the sizes in them are.              *)
LEMMA ListedFrame ==
  ASSUME NEW h, NEW y, IsHeap(h), IsHeap(y), y.nodelist = h.nodelist,
         NEW F, NEW G, F \cap Addrs = G \cap Addrs,
         \A a \in F \cap Addrs : Size(y, a) = Size(h, a), Listed(h, F)
  PROVE  Listed(y, G)
<1>1. ASSUME NEW k \in Classes PROVE Ascends(y, y.nodelist[k])
  <2>1. h.nodelist[k] \in Seq(Addrs)
    BY DEF IsHeap
  <2> DEFINE q == h.nodelist[k]
  <2>2. \A i \in DOMAIN q : q[i] \in F \cap Addrs
    <3> TAKE i \in DOMAIN q
    <3>1. q[i] \in Addrs
      BY <2>1
    <3>2. Linked(q, q[i])
      BY DEF Linked
    <3> QED BY <3>1, <3>2 DEF Listed
  <2> QED BY <2>2 DEF Listed, Ascends
<1>2. ASSUME NEW k \in Classes, NEW a \in Addrs
      PROVE  Linked(y.nodelist[k], a) <=> a \in G /\ mm_size2ndx(Size(y, a)) = k
  <2>1. a \in F <=> a \in G
    OBVIOUS
  <2>2. a \in F => Size(y, a) = Size(h, a)
    OBVIOUS
  <2>3. Linked(h.nodelist[k], a) <=> a \in F /\ mm_size2ndx(Size(h, a)) = k
    BY DEF Listed
  <2> QED BY <2>1, <2>2, <2>3
<1>3. \A k \in Classes : Distinct(y.nodelist[k])
  BY DEF Listed
<1> QED BY <1>1, <1>2, <1>3 DEF Listed

(* The list operations of the memory manager, on one list.                 *)
LEMMA RemAscends ==
  ASSUME NEW h, NEW q \in Seq(Addrs), NEW a \in Addrs, Linked(q, a), Distinct(q), Ascends(h, q),
         \A x \in Addrs : Linked(q, x) => Size(h, x) \in Nat
  PROVE  /\ dq_rem(q, a) \in Seq(Addrs) /\ Distinct(dq_rem(q, a)) /\ Ascends(h, dq_rem(q, a))
         /\ \A x \in Addrs : Linked(dq_rem(q, a), x) <=> Linked(q, x) /\ x # a
<1>1. /\ dq_rem(q, a) \in Seq(Addrs) /\ Distinct(dq_rem(q, a))
      /\ \A x \in Addrs : Linked(dq_rem(q, a), x) <=> Linked(q, x) /\ x # a
  <2>1. \E n \in DOMAIN q : q[n] = a
    BY DEF Linked
  <2> QED BY <2>1, DqRemUnlinks
<1> DEFINE i == CHOOSE n \in DOMAIN q : q[n] = a
           r == dq_rem(q, a)
<1>2. DOMAIN q = 1 .. Len(q) /\ Len(q) \in Nat
  BY LenProperties
<1>3. i \in 1 .. Len(q)
  BY <1>2 DEF Linked
<1>4. r = RemoveAt(q, i)
  BY DEF dq_rem
<1> HIDE DEF i, r
<1>5. /\ r \in Seq(Addrs) /\ Len(r) = Len(q) - 1
      /\ \A k \in 1 .. Len(q) - 1 : r[k] = IF k < i THEN q[k] ELSE q[k+1]
  BY <1>3, <1>4, RemoveAtPositions, ZenonT(30)
<1>6. DOMAIN r = 1 .. Len(q) - 1
  BY <1>5, LenProperties
<1>7. ASSUME NEW j \in 1 .. Len(q) - 1, NEW k \in 1 .. Len(q) - 1, j < k
      PROVE  Size(h, r[j]) <= Size(h, r[k])
  <2> DEFINE j2 == IF j < i THEN j ELSE j + 1
             k2 == IF k < i THEN k ELSE k + 1
  <2>1. j2 \in 1 .. Len(q) /\ k2 \in 1 .. Len(q) /\ j2 < k2
    BY <1>2, <1>3, <1>7
  <2>2. r[j] = q[j2] /\ r[k] = q[k2]
    BY <1>5
  <2> HIDE DEF j2, k2
  <2> QED BY <2>1, <2>2, <1>2 DEF Ascends
<1>8. Ascends(h, r)
  BY <1>6, <1>7 DEF Ascends
<1> QED BY <1>1, <1>8 DEF r

(* In front of the first node that is not smaller.                         *)
LEMMA InsertAscends ==
  ASSUME NEW h, NEW q \in Seq(Addrs), NEW a \in Addrs, ~Linked(q, a), Distinct(q), Ascends(h, q),
         NEW i \in 1 .. Len(q) + 1,
         \A j \in 1 .. Len(q) : Size(h, q[j]) \in Nat,
         Size(h, a) \in Nat,
         \A j \in 1 .. i - 1 : Size(h, q[j]) < Size(h, a),
         i <= Len(q) => Size(h, q[i]) >= Size(h, a)
  PROVE  LET r == InsertAt(q, i, a)
         IN  /\ r \in Seq(Addrs) /\ Distinct(r) /\ Ascends(h, r)
             /\ \A x \in Addrs : Linked(r, x) <=> Linked(q, x) \/ x = a
<1> DEFINE r == InsertAt(q, i, a)
<1>1. DOMAIN q = 1 .. Len(q) /\ Len(q) \in Nat
  BY LenProperties
<1>2. /\ r \in Seq(Addrs) /\ Len(r) = Len(q) + 1
      /\ \A k \in 1 .. Len(q) + 1 : r[k] = IF k < i THEN q[k] ELSE IF k = i THEN a ELSE q[k-1]
  BY InsertAtPositions
<1>3. Distinct(r) /\ \A x \in Addrs : Linked(r, x) <=> Linked(q, x) \/ x = a
  <2>1. \A n \in DOMAIN q : q[n] # a
    BY DEF Linked
  <2> QED BY <2>1, InsertLinks
<1> HIDE DEF r
<1>4. DOMAIN r = 1 .. Len(q) + 1
  BY <1>2, LenProperties
<1>5. \A j \in i .. Len(q) : Size(h, a) <= Size(h, q[j])
  <2> TAKE j \in i .. Len(q)
  <2>1. CASE j = i
    BY <2>1, <1>1
  <2>2. CASE j # i
    <3>1. Size(h, q[i]) <= Size(h, q[j])
      BY <2>2, <1>1, SMTT(60) DEF Ascends
    <3> QED BY <3>1, <1>1
  <2> QED BY <2>1, <2>2
<1>6. ASSUME NEW j \in 1 .. Len(q) + 1, NEW k \in 1 .. Len(q) + 1, j < k
      PROVE  Size(h, r[j]) <= Size(h, r[k])
  <2>1. CASE k < i
    <3>1. r[j] = q[j] /\ r[k] = q[k] /\ j \in 1 .. Len(q) /\ k \in 1 .. Len(q)
      BY <2>1, <1>1, <1>2, <1>6
    <3> QED BY <3>1, <1>1, <1>6 DEF Ascends
  <2>2. CASE k = i
    <3>1. r[j] = q[j] /\ r[k] = a /\ j \in 1 .. i - 1 /\ j \in 1 .. Len(q)
      BY <2>2, <1>1, <1>2, <1>6
    <3> QED BY <3>1
  <2>3. CASE k > i /\ j < i
    <3>1. r[j] = q[j] /\ r[k] = q[k-1] /\ j \in 1 .. Len(q) /\ k - 1 \in 1 .. Len(q) /\ j < k - 1
      BY <2>3, <1>1, <1>2
    <3> QED BY <3>1, <1>1 DEF Ascends
  <2>4. CASE k > i /\ j = i
    <3>1. r[j] = a /\ r[k] = q[k-1] /\ k - 1 \in i .. Len(q)
      BY <2>4, <1>1, <1>2
    <3> QED BY <3>1, <1>5
  <2>5. CASE k > i /\ j > i
    <3>1. /\ r[j] = q[j-1] /\ r[k] = q[k-1] /\ j - 1 \in 1 .. Len(q) /\ k - 1 \in 1 .. Len(q)
          /\ j - 1 < k - 1
      BY <2>5, <1>1, <1>2, <1>6
    <3> QED BY <3>1, <1>1 DEF Ascends
  <2> QED BY <2>1, <2>2, <2>3, <2>4, <2>5
<1>7. Ascends(h, r)
  BY <1>4, <1>6 DEF Ascends
<1> QED BY <1>2, <1>3, <1>7 DEF r

-----------------------------------------------------------------------------
(* The steps the sections are made of.  A heap whose chunks have the same  *)
(* headers, and the same lists, is as sound.                               *)
LEMMA SameChunks ==
  ASSUME NEW h, NEW C, NEW L, GoodBut(h, C, L), NEW y, IsHeap(y), y.nodelist = h.nodelist,
         \A c \in C : y.mem[c] = h.mem[c]
  PROVE  GoodBut(y, C, L) /\ Free(y, C) = Free(h, C)
<1>1. \A c \in C : /\ IsHeader(y, c) <=> IsHeader(h, c)
                   /\ Size(y, c) = Size(h, c) /\ Preceding(y, c) = Preceding(h, c)
                   /\ Allocated(y, c) <=> Allocated(h, c)
  BY SameHeader
<1>2. Chain(y, C)
  BY <1>1 DEF GoodBut, Chain
<1>3. Free(y, C) = Free(h, C)
  BY <1>1 DEF Free
<1>4. Listed(y, Free(y, C) \ L)
  <2>1. \A c \in Free(h, C) \ L : Size(y, c) = Size(h, c)
    BY <1>1 DEF Free
  <2> QED BY <2>1, <1>3, ListedFrame DEF GoodBut
<1> QED BY <1>2, <1>3, <1>4 DEF GoodBut

(* Words are put into memory.                                              *)
PutInto(h, a, words) == [h EXCEPT !.mem = Put(a, words, @)]

(* They are all that changes.                                              *)
LEMMA PutWrites ==
  ASSUME NEW h, IsHeap(h), NEW a, NEW words
  PROVE  /\ IsHeap(PutInto(h, a, words)) /\ PutInto(h, a, words).nodelist = h.nodelist
         /\ \A w \in Addrs : PutInto(h, a, words).mem[w] = IF w \in a .. a + Len(words) - 1
                                                          THEN words[w - a + 1] ELSE h.mem[w]
<1> DEFINE m == Put(a, words, h.mem)
           y == PutInto(h, a, words)
<1>1. h \in [mem : {h.mem}, nodelist : [Classes -> Seq(Addrs)]] /\ DOMAIN h.mem = Addrs
  BY DEF IsHeap
<1>2. m = [w \in Addrs |-> m[w]]
      /\ \A w \in Addrs : m[w] = IF w \in a .. a + Len(words) - 1
                                 THEN words[w - a + 1] ELSE h.mem[w]
  BY <1>1 DEF Put
<1> HIDE DEF m
<1>3. y = [mem |-> m, nodelist |-> h.nodelist]
  BY <1>1 DEF m, PutInto
<1> HIDE DEF y
<1>4. y.mem = m /\ y.nodelist = h.nodelist /\ y \in [mem : {y.mem}, nodelist : [Classes -> Seq(Addrs)]]
  BY <1>1, <1>3
<1>5. IsHeap(y)
  BY <1>2, <1>4 DEF IsHeap
<1>6. /\ IsHeap(y) /\ y.nodelist = h.nodelist
      /\ \A w \in Addrs : y.mem[w] = IF w \in a .. a + Len(words) - 1
                                     THEN words[w - a + 1] ELSE h.mem[w]
  BY <1>2, <1>4, <1>5
<1> QED BY <1>6 DEF y

(* A free chunk is taken out of its list.                                  *)
LEMMA UnlinkTakes ==
  ASSUME NEW h, NEW C, NEW L, GoodBut(h, C, L), NEW a \in C
  PROVE  GoodBut(Unlink(h, a), C, L \cup {a}) /\ Unlink(h, a).mem = h.mem
<1> DEFINE nl == [k \in Classes |-> IF Linked(h.nodelist[k], a) THEN dq_rem(h.nodelist[k], a)
                                    ELSE h.nodelist[k]]
           y == Unlink(h, a)
           F == Free(h, C) \ L
<1>1. /\ h \in [mem : {h.mem}, nodelist : [Classes -> Seq(Addrs)]]
      /\ h.nodelist \in [Classes -> Seq(Addrs)] /\ IsHeap(h) /\ Chain(h, C) /\ Listed(h, F)
  BY DEF GoodBut, IsHeap
<1>2. a \in Addrs /\ \A x \in F : Size(h, x) \in Nat
  BY <1>1 DEF Chain, Free
<1>3. y = [mem |-> h.mem, nodelist |-> nl]
  <2>1. DOMAIN h.nodelist = Classes
    BY <1>1
  <2>2. Unlink(h, a) = [h EXCEPT !.nodelist = nl]
    BY <2>1 DEF Unlink
  <2> HIDE DEF nl
  <2> QED BY <2>2, <1>1
<1>4. ASSUME NEW k \in Classes
      PROVE  /\ nl[k] \in Seq(Addrs) /\ Distinct(nl[k]) /\ Ascends(h, nl[k])
             /\ \A x \in Addrs : Linked(nl[k], x) <=> Linked(h.nodelist[k], x) /\ x # a
  <2>1. /\ h.nodelist[k] \in Seq(Addrs) /\ Distinct(h.nodelist[k]) /\ Ascends(h, h.nodelist[k])
        /\ \A x \in Addrs : Linked(h.nodelist[k], x) => Size(h, x) \in Nat
    BY <1>1, <1>2 DEF Listed
  <2>2. CASE Linked(h.nodelist[k], a)
    <3>1. nl[k] = dq_rem(h.nodelist[k], a)
      BY <2>2
    <3> HIDE DEF nl
    <3> QED BY <2>1, <2>2, <3>1, <1>2, RemAscends
  <2>3. CASE ~Linked(h.nodelist[k], a)
    BY <2>1, <2>3
  <2> QED BY <2>2, <2>3
<1>5. nl = [k \in Classes |-> nl[k]]
  OBVIOUS
<1> HIDE DEF nl, y
<1>6. y.mem = h.mem /\ y.nodelist = nl /\ nl \in [Classes -> Seq(Addrs)]
  BY <1>3, <1>4, <1>5
<1>7. IsHeap(y)
  <2>1. y \in [mem : {y.mem}, nodelist : [Classes -> Seq(Addrs)]]
    BY <1>3, <1>6
  <2> QED BY <2>1, <1>1, <1>6 DEF IsHeap
<1>8. \A c : /\ IsHeader(y, c) <=> IsHeader(h, c)
             /\ Size(y, c) = Size(h, c) /\ Preceding(y, c) = Preceding(h, c)
             /\ Allocated(y, c) <=> Allocated(h, c)
  BY <1>6, SameHeader
<1>9. Chain(y, C) /\ Free(y, C) = Free(h, C)
  BY <1>1, <1>8 DEF Chain, Free
<1>10. Listed(y, Free(y, C) \ (L \cup {a}))
  <2>1. ASSUME NEW k \in Classes, NEW x \in Addrs
        PROVE  Linked(nl[k], x) <=> x \in Free(y, C) \ (L \cup {a}) /\ mm_size2ndx(Size(y, x)) = k
    <3>1. Linked(nl[k], x) <=> x \in F /\ mm_size2ndx(Size(h, x)) = k /\ x # a
      BY <1>1, <1>4 DEF Listed
    <3> QED BY <3>1, <1>8, <1>9
  <2>2. ASSUME NEW k \in Classes PROVE Distinct(nl[k]) /\ Ascends(y, nl[k])
    BY <1>4, <1>8 DEF Ascends
  <2> QED BY <2>1, <2>2, <1>6 DEF Listed
<1> QED BY <1>6, <1>7, <1>9, <1>10 DEF GoodBut, y

(* A free chunk is put into its list.                                      *)
Relisted(h, C, L, a, y) ==
  /\ GoodBut(y, C, L \ {a})
  /\ \A w \in Addrs : w <= a \/ a + Size(h, a) <= w => y.mem[w] = h.mem[w]
  /\ \A c \in C : y.mem[c] = h.mem[c]

(* By mm_addfreechunk, which may write into that chunk only.               *)
LEMMA AddRelists ==
  ASSUME NEW h, NEW C, NEW L, GoodBut(h, C, L), NEW a \in L, a \in Free(h, C)
  PROVE  Relisted(h, C, L, a, mm_addfreechunk(h, a))
<1> DEFINE n   == Size(h, a)
           ndx == mm_size2ndx(n)
           q   == h.nodelist[ndx]
           S   == {Len(q) + 1} \cup {i \in DOMAIN q : Size(h, q[i]) >= n}
           i   == Min(S)
           x   == [h EXCEPT !.nodelist[ndx] = InsertAt(q, i, a)]
           z   == PutInto(x, a + 2, Junks(n - 2))
           y   == PutInto(z, a + 1, <<Links>>)
           F   == Free(h, C) \ L
<1>1. /\ h \in [mem : {h.mem}, nodelist : [Classes -> Seq(Addrs)]]
      /\ h.nodelist \in [Classes -> Seq(Addrs)] /\ IsHeap(h) /\ Chain(h, C) /\ Listed(h, F)
  BY DEF GoodBut, IsHeap
<1>2. /\ a \in Addrs /\ a \in C \ {0, Top} /\ n \in Nat /\ n >= 2 /\ \A c \in F : Size(h, c) \in Nat
      /\ a + n \in C
  BY <1>1 DEF Chain, Free, FreeNode
<1>3. ndx \in Classes
  BY <1>2, ClassOfSize
<1>4. /\ q \in Seq(Addrs) /\ Distinct(q) /\ Ascends(h, q) /\ ~Linked(q, a)
      /\ DOMAIN q = 1 .. Len(q) /\ Len(q) \in Nat
      /\ \A j \in 1 .. Len(q) : Size(h, q[j]) \in Nat
  <2>1. q \in Seq(Addrs) /\ Distinct(q) /\ Ascends(h, q) /\ ~Linked(q, a)
    BY <1>1, <1>2, <1>3 DEF Listed
  <2>2. DOMAIN q = 1 .. Len(q) /\ Len(q) \in Nat
    BY <2>1, LenProperties
  <2>3. ASSUME NEW j \in 1 .. Len(q) PROVE Size(h, q[j]) \in Nat
    <3>1. q[j] \in Addrs /\ Linked(q, q[j])
      BY <2>1, <2>2 DEF Linked
    <3> QED BY <3>1, <1>1, <1>2, <1>3 DEF Listed
  <2> QED BY <2>1, <2>2, <2>3
<1>5. /\ i \in 1 .. Len(q) + 1
      /\ \A j \in 1 .. i - 1 : Size(h, q[j]) < n
      /\ i <= Len(q) => Size(h, q[i]) >= n
  <2>1. S \in SUBSET Nat /\ S # {}
    BY <1>4
  <2>2. i \in S /\ \A j \in S : i <= j
    <3> HIDE DEF S
    <3> QED BY <2>1, MinIs
  <2>3. i \in 1 .. Len(q) + 1 /\ (i <= Len(q) => Size(h, q[i]) >= n)
    BY <2>2, <1>4
  <2>4. ASSUME NEW j \in 1 .. i - 1 PROVE Size(h, q[j]) < n
    <3> HIDE DEF i
    <3>1. j \in DOMAIN q /\ j \notin S
      BY <2>2, <2>3, <1>4
    <3> QED BY <3>1, <1>2, <1>4
  <2> QED BY <2>3, <2>4
<1> HIDE DEF S, i
<1> DEFINE r == InsertAt(q, i, a)
<1>6. /\ r \in Seq(Addrs) /\ Distinct(r) /\ Ascends(h, r)
      /\ \A c \in Addrs : Linked(r, c) <=> Linked(q, c) \/ c = a
  <2>1. /\ \A j \in 1 .. i - 1 : Size(h, q[j]) < Size(h, a)
        /\ i <= Len(q) => Size(h, q[i]) >= Size(h, a)
        /\ Size(h, a) \in Nat
    BY <1>2, <1>5
  <2> HIDE DEF q
  <2> QED BY <2>1, <1>2, <1>4, <1>5, InsertAscends, SMTT(60)
<1> DEFINE nl == [h.nodelist EXCEPT ![ndx] = r]
<1> HIDE DEF r, q, ndx, n
<1>7. /\ x = [mem |-> h.mem, nodelist |-> nl] /\ nl \in [Classes -> Seq(Addrs)]
      /\ nl[ndx] = r /\ \A k \in Classes \ {ndx} : nl[k] = h.nodelist[k]
  <2>1. x = [h EXCEPT !.nodelist[ndx] = r]
    BY DEF r
  <2> HIDE DEF x
  <2>2. r \in Seq(Addrs)
    BY <1>6
  <2> QED BY <2>1, <2>2, <1>1, <1>3
<1> HIDE DEF nl, x
<1>8. IsHeap(x) /\ x.mem = h.mem /\ x.nodelist = nl
  <2>1. x.mem = h.mem /\ x.nodelist = nl /\ x \in [mem : {x.mem}, nodelist : [Classes -> Seq(Addrs)]]
    BY <1>7
  <2> QED BY <2>1, <1>1 DEF IsHeap
<1>9. GoodBut(x, C, L \ {a})
  <2>1. \A c : /\ IsHeader(x, c) <=> IsHeader(h, c)
               /\ Size(x, c) = Size(h, c) /\ Preceding(x, c) = Preceding(h, c)
               /\ Allocated(x, c) <=> Allocated(h, c)
    BY <1>8, SameHeader
  <2>2. Chain(x, C) /\ Free(x, C) = Free(h, C)
    BY <1>1, <2>1 DEF Chain, Free
  <2>3. ASSUME NEW k \in Classes, NEW c \in Addrs
        PROVE  Linked(nl[k], c) <=> c \in Free(x, C) \ (L \ {a}) /\ mm_size2ndx(Size(x, c)) = k
    <3>1. Linked(h.nodelist[k], c) <=> c \in F /\ mm_size2ndx(Size(h, c)) = k
      BY <1>1 DEF Listed
    <3>2. Linked(nl[k], c) <=> Linked(h.nodelist[k], c) \/ (c = a /\ k = ndx)
      BY <1>6, <1>7 DEF q
    <3>3. mm_size2ndx(Size(h, a)) = ndx
      BY DEF ndx, n
    <3> QED BY <3>1, <3>2, <3>3, <2>1, <2>2
  <2>4. ASSUME NEW k \in Classes PROVE Distinct(nl[k]) /\ Ascends(x, nl[k])
    <3>1. Distinct(nl[k]) /\ Ascends(h, nl[k])
      BY <1>1, <1>6, <1>7 DEF Listed
    <3> QED BY <3>1, <2>1 DEF Ascends
  <2>5. Listed(x, Free(x, C) \ (L \ {a}))
    BY <2>3, <2>4, <1>8 DEF Listed
  <2> QED BY <2>2, <2>5, <1>8 DEF GoodBut
<1>10. /\ IsHeap(z) /\ z.nodelist = x.nodelist
       /\ \A w \in Addrs : w <= a \/ a + n <= w => z.mem[w] = x.mem[w]
  <2>1. /\ IsHeap(z) /\ z.nodelist = x.nodelist
        /\ \A w \in Addrs : z.mem[w] = IF w \in a + 2 .. a + 2 + Len(Junks(n - 2)) - 1
                                       THEN Junks(n - 2)[w - (a + 2) + 1] ELSE x.mem[w]
    <3> DEFINE ws == Junks(n - 2)
               b  == a + 2
    <3>1. PutInto(x, a + 2, Junks(n - 2)) = PutInto(x, b, ws) /\ IsHeap(x)
      BY <1>8
    <3> HIDE DEF ws, b
    <3>2. /\ IsHeap(PutInto(x, b, ws)) /\ PutInto(x, b, ws).nodelist = x.nodelist
          /\ \A w \in Addrs : PutInto(x, b, ws).mem[w] = IF w \in b .. b + Len(ws) - 1
                                                        THEN ws[w - b + 1] ELSE x.mem[w]
      BY <3>1, PutWrites
    <3> QED BY <3>2 DEF ws, b
  <2>2. Len(Junks(n - 2)) = n - 2
    BY <1>2 DEF Junks
  <2> HIDE DEF z
  <2> QED BY <2>1, <2>2, <1>2 DEF Addrs
<1>11. /\ IsHeap(y) /\ y.nodelist = z.nodelist
       /\ \A w \in Addrs : w <= a \/ a + n <= w => y.mem[w] = z.mem[w]
  <2> HIDE DEF z
  <2>1. /\ IsHeap(y) /\ y.nodelist = z.nodelist
        /\ \A w \in Addrs : y.mem[w] = IF w \in a + 1 .. a + 1 + Len(<<Links>>) - 1
                                       THEN <<Links>>[w - (a + 1) + 1] ELSE z.mem[w]
    <3> DEFINE ws == <<Links>>
               b  == a + 1
    <3>1. PutInto(z, a + 1, <<Links>>) = PutInto(z, b, ws) /\ IsHeap(z)
      BY <1>10
    <3> HIDE DEF ws, b
    <3>2. /\ IsHeap(PutInto(z, b, ws)) /\ PutInto(z, b, ws).nodelist = z.nodelist
          /\ \A w \in Addrs : PutInto(z, b, ws).mem[w] = IF w \in b .. b + Len(ws) - 1
                                                        THEN ws[w - b + 1] ELSE z.mem[w]
      BY <3>1, PutWrites
    <3> QED BY <3>2 DEF ws, b
  <2>2. Len(<<Links>>) = 1
    OBVIOUS
  <2> HIDE DEF y
  <2> QED BY <2>1, <2>2, <1>2 DEF Addrs
<1>12. mm_addfreechunk(h, a) = y
  <2>1. mm_addfreechunk(h, a) = [h EXCEPT !.nodelist[ndx] = r,
                                          !.mem = Put(a + 1, <<Links>>, Put(a + 2, Junks(n - 2), @))]
    BY DEF mm_addfreechunk, ndx, n, r, q, i, S
  <2>2. z = [mem |-> Put(a + 2, Junks(n - 2), h.mem), nodelist |-> nl]
    BY <1>7 DEF PutInto
  <2>3. y = [mem |-> Put(a + 1, <<Links>>, Put(a + 2, Junks(n - 2), h.mem)), nodelist |-> nl]
    <3> HIDE DEF z
    <3> QED BY <2>2 DEF PutInto
  <2> HIDE DEF y
  <2> QED BY <2>1, <2>3, <1>1 DEF nl
<1> HIDE DEF y, z
<1>13. \A w \in Addrs : w <= a \/ a + n <= w => y.mem[w] = h.mem[w]
  BY <1>8, <1>10, <1>11
<1>14. \A c \in C : y.mem[c] = x.mem[c]
  <2> TAKE c \in C
  <2>1. c \in Addrs /\ (c <= a \/ a + n <= c)
    BY <1>1, <1>2 DEF Chain, n
  <2> QED BY <2>1, <1>10, <1>11
<1>15. GoodBut(y, C, L \ {a})
  BY <1>9, <1>8, <1>10, <1>11, <1>14, SameChunks
<1>16. \A c \in C : y.mem[c] = h.mem[c]
  BY <1>8, <1>14
<1> QED BY <1>12, <1>13, <1>15, <1>16 DEF n, Relisted

(* The chunks from lo up to hi become one, or two that meet at mid.        *)
Recut(h, y, lo, mid, hi, a1, a2) ==
  /\ IsHeap(y) /\ y.nodelist = h.nodelist
  /\ y.mem[lo] = Header(mid - lo, Preceding(h, lo), a1)
  /\ mid < hi => y.mem[mid] = Header(hi - mid, mid - lo, a2)
  /\ y.mem[hi] = Header(Size(h, hi), IF mid < hi THEN hi - mid ELSE hi - lo, Allocated(h, hi))
  /\ \A w \in Addrs \ {lo, mid, hi} : y.mem[w] = h.mem[w]

CutAt(C, lo, mid, hi) == (C \ (lo + 1 .. hi - 1)) \cup {mid}

RecutSound(h, C, L, y, lo, mid, hi, a1, a2) ==
  /\ GoodBut(y, CutAt(C, lo, mid, hi), L \cup ({lo, mid} \ {hi}))
  /\ Size(y, lo) = mid - lo /\ (Allocated(y, lo) <=> a1)
  /\ mid < hi => Size(y, mid) = hi - mid /\ (Allocated(y, mid) <=> a2)
  /\ \A c \in C \ (lo .. hi - 1) :
       Size(y, c) = Size(h, c) /\ (Allocated(y, c) <=> Allocated(h, c))

(* The other chunks are what they were.                                    *)
LEMMA RecutChunks ==
  ASSUME NEW h, NEW C, NEW L, GoodBut(h, C, L), NEW y,
         NEW lo \in C \ {0, Top}, NEW hi \in C, lo < hi, NEW mid \in lo + 1 .. hi,
         mid - lo >= FreeNode, mid < hi => hi - mid >= FreeNode,
         NEW a1 \in BOOLEAN, NEW a2 \in BOOLEAN,
         \A c \in Free(h, C) : c \in lo .. hi - 1 => c \in L,
         Recut(h, y, lo, mid, hi, a1, a2)
  PROVE  RecutSound(h, C, L, y, lo, mid, hi, a1, a2)
<1> DEFINE D == CutAt(C, lo, mid, hi)
           P(c) == Preceding(h, c)
           S(c) == Size(h, c)
<1>1. /\ IsHeap(h) /\ Chain(h, C) /\ Listed(h, Free(h, C) \ L)
      /\ IsHeap(y) /\ y.nodelist = h.nodelist
  BY DEF GoodBut, Recut
<1>2. /\ C \subseteq Addrs /\ lo \in Int /\ mid \in Int /\ hi \in Int /\ Top \in Int
      /\ 0 < lo /\ lo < mid /\ mid <= hi /\ hi <= Top /\ lo \in Addrs /\ mid \in Addrs /\ hi \in Addrs
      /\ D \subseteq Addrs
  BY <1>1, HeapAssumption DEF Chain, Addrs, Top, CutAt
<1>3. /\ IsHeader(y, lo) /\ Size(y, lo) = mid - lo /\ Preceding(y, lo) = P(lo)
      /\ Allocated(y, lo) <=> a1
      /\ mid < hi => /\ IsHeader(y, mid) /\ Size(y, mid) = hi - mid /\ Preceding(y, mid) = mid - lo
                     /\ Allocated(y, mid) <=> a2
      /\ IsHeader(y, hi) /\ Size(y, hi) = S(hi)
      /\ Allocated(y, hi) <=> Allocated(h, hi)
      /\ Preceding(y, hi) = IF mid < hi THEN hi - mid ELSE hi - lo
  <2>1. Allocated(h, hi) \in BOOLEAN
    BY DEF Allocated
  <2> DEFINE pr == IF mid < hi THEN hi - mid ELSE hi - lo
  <2>2. /\ y.mem[lo] = Header(mid - lo, Preceding(h, lo), a1)
        /\ mid < hi => y.mem[mid] = Header(hi - mid, mid - lo, a2)
        /\ y.mem[hi] = Header(Size(h, hi), pr, Allocated(h, hi))
    BY DEF Recut
  <2>3. IsHeader(y, lo) /\ Size(y, lo) = mid - lo /\ Preceding(y, lo) = P(lo) /\ (Allocated(y, lo) <=> a1)
    BY <2>2, HeaderReads
  <2>4. mid < hi => /\ IsHeader(y, mid) /\ Size(y, mid) = hi - mid /\ Preceding(y, mid) = mid - lo
                    /\ Allocated(y, mid) <=> a2
    BY <2>2, HeaderReads
  <2>5. /\ IsHeader(y, hi) /\ Size(y, hi) = S(hi) /\ Preceding(y, hi) = pr
        /\ Allocated(y, hi) <=> Allocated(h, hi)
    <3> HIDE DEF pr
    <3> QED BY <2>1, <2>2, HeaderReads
  <2> QED BY <2>3, <2>4, <2>5
<1>4. ASSUME NEW c \in C, c < lo \/ hi < c
      PROVE  /\ IsHeader(y, c) /\ Size(y, c) = S(c) /\ Preceding(y, c) = P(c)
             /\ Allocated(y, c) <=> Allocated(h, c)
  <2>1. y.mem[c] = h.mem[c]
    BY <1>2, <1>4 DEF Recut
  <2> QED BY <2>1, <1>1, SameHeader DEF Chain
<1>5. \A c \in D : \/ c \in C /\ c < lo
                   \/ c = lo
                   \/ c = mid /\ mid < hi
                   \/ c = hi
                   \/ c \in C /\ hi < c
  BY <1>2 DEF CutAt, Addrs
<1>6. /\ \A c \in C : c <= lo \/ hi <= c => c \in D
      /\ lo \in D /\ mid \in D /\ hi \in D
  BY <1>2 DEF CutAt, Addrs
<1>7. /\ \A c \in C : S(c) \in Nat \ {0}
      /\ \A c \in C \ {Top} : /\ c + S(c) \in C /\ P(c + S(c)) = S(c)
                              /\ \A d \in C : d <= c \/ c + S(c) <= d
      /\ \A c \in C \ {0} : c - P(c) \in C /\ S(c - P(c)) = P(c)
      /\ \A c \in C \ {0, Top} : S(c) >= FreeNode
      /\ 0 \in C /\ Top \in C /\ S(0) = 1 /\ Allocated(h, 0) /\ Allocated(h, Top)
  BY <1>1 DEF Chain
<1> HIDE DEF D, P, S
<1>8. \A c \in D : IsHeader(y, c) /\ Size(y, c) \in Nat \ {0}
  BY <1>2, <1>3, <1>4, <1>5, <1>7, <1>1 DEF Chain
<1>9. ASSUME NEW c \in D \ {Top}
      PROVE  /\ c + Size(y, c) \in D
             /\ Preceding(y, c + Size(y, c)) = Size(y, c)
             /\ \A d \in D : d <= c \/ c + Size(y, c) <= d
  <2>1. CASE c \in C /\ c < lo
    <3>1. /\ Size(y, c) = S(c) /\ c + S(c) \in C /\ P(c + S(c)) = S(c) /\ c + S(c) <= lo
          /\ \A d \in C : d <= c \/ c + S(c) <= d
          /\ c \in Int /\ S(c) \in Nat \ {0}
      BY <2>1, <1>2, <1>4, <1>7 DEF Addrs
    <3>2. Preceding(y, c + S(c)) = P(c + S(c))
      BY <3>1, <1>2, <1>3, <1>4
    <3>3. ASSUME NEW d \in D PROVE d <= c \/ c + S(c) <= d
      BY <3>1, <1>2, <1>5
    <3> QED BY <3>1, <3>2, <3>3, <1>6
  <2>2. CASE c = lo
    <3>1. c + Size(y, c) = mid /\ Preceding(y, mid) = mid - lo
      BY <2>2, <1>2, <1>3
    <3>2. ASSUME NEW d \in D PROVE d <= lo \/ mid <= d
      BY <1>2, <1>5 DEF Addrs
    <3> QED BY <2>2, <3>1, <3>2, <1>3, <1>6
  <2>3. CASE c = mid /\ mid < hi
    <3>1. c + Size(y, c) = hi /\ Preceding(y, hi) = hi - mid
      BY <2>3, <1>2, <1>3
    <3>2. ASSUME NEW d \in D PROVE d <= mid \/ hi <= d
      BY <1>2, <1>5 DEF Addrs
    <3> QED BY <2>3, <3>1, <3>2, <1>3, <1>6
  <2>4. CASE c \in C /\ hi <= c
    <3>1. /\ Size(y, c) = S(c) /\ c + S(c) \in C /\ P(c + S(c)) = S(c)
          /\ \A d \in C : d <= c \/ c + S(c) <= d
          /\ c \in Int /\ S(c) \in Nat \ {0} /\ hi < c + S(c)
      BY <2>4, <1>2, <1>3, <1>4, <1>7 DEF Addrs
    <3>2. Preceding(y, c + S(c)) = P(c + S(c))
      BY <3>1, <1>4
    <3>3. ASSUME NEW d \in D PROVE d <= c \/ c + S(c) <= d
      BY <2>4, <3>1, <1>2, <1>5
    <3> QED BY <3>1, <3>2, <3>3, <1>2, <1>6
  <2> QED BY <2>1, <2>2, <2>3, <2>4, <1>5, <1>2
<1>10. ASSUME NEW c \in D \ {0}
       PROVE  c - Preceding(y, c) \in D /\ Size(y, c - Preceding(y, c)) = Preceding(y, c)
  <2>1. CASE c \in C /\ c <= lo
    <3> DEFINE p == c - P(c)
    <3>0. Preceding(y, c) = P(c) /\ c \in Int /\ c \in C \ {0}
      BY <2>1, <1>2, <1>3, <1>4 DEF Addrs
    <3>1. p \in C /\ S(p) = P(c) /\ P(c) \in Nat \ {0} /\ c \in Int /\ Preceding(y, c) = P(c)
      BY <3>0, <1>7
    <3>2. p < lo
      BY <2>1, <3>1, <1>2
    <3> HIDE DEF p
    <3>3. p \in D /\ Size(y, p) = S(p)
      BY <3>1, <3>2, <1>2, <1>4, <1>6 DEF Addrs
    <3> QED BY <3>1, <3>3 DEF p
  <2>2. CASE c = mid /\ mid < hi
    <3>1. Preceding(y, c) = mid - lo /\ c - Preceding(y, c) = lo
      BY <2>2, <1>2, <1>3
    <3> QED BY <3>1, <1>3, <1>6
  <2>3. CASE c = hi
    <3>1. CASE mid < hi
      <4>1. Preceding(y, c) = hi - mid /\ c - Preceding(y, c) = mid
        BY <2>3, <3>1, <1>2, <1>3
      <4> QED BY <3>1, <4>1, <1>3, <1>6
    <3>2. CASE ~(mid < hi)
      <4>1. Preceding(y, c) = hi - lo /\ c - Preceding(y, c) = lo /\ mid = hi
        BY <2>3, <3>2, <1>2, <1>3
      <4> QED BY <4>1, <1>3, <1>6
    <3> QED BY <3>1, <3>2
  <2>4. CASE c \in C /\ hi < c
    <3> DEFINE p == c - P(c)
    <3>0. Preceding(y, c) = P(c) /\ c \in Int /\ c \in C \ {0}
      BY <2>4, <1>2, <1>4 DEF Addrs
    <3>1. /\ Preceding(y, c) = P(c) /\ p \in C /\ S(p) = P(c) /\ c \in Int /\ P(c) \in Nat \ {0}
      BY <3>0, <1>7
    <3>2. p + S(p) = c /\ p < c /\ p \in Int /\ p # Top
      BY <3>1, <1>2 DEF Addrs
    <3> HIDE DEF p
    <3>3. hi <= p
      BY <3>1, <3>2, <2>4, <1>2, <1>7
    <3>4. Size(y, p) = S(p)
      BY <3>1, <3>3, <1>2, <1>3, <1>4 DEF Addrs
    <3> QED BY <3>1, <3>3, <3>4, <1>6 DEF p
  <2> QED BY <2>1, <2>2, <2>3, <2>4, <1>5, <1>2
<1>11. Chain(y, D)
  <2>1. 0 \in D /\ Top \in D /\ Size(y, 0) = 1 /\ Allocated(y, 0) /\ Allocated(y, Top)
    BY <1>2, <1>3, <1>4, <1>6, <1>7
  <2>2. \A c \in D \ {0, Top} : Size(y, c) >= FreeNode
    BY <1>2, <1>3, <1>4, <1>5, <1>7
  <2> QED BY <1>2, <1>8, <1>9, <1>10, <2>1, <2>2 DEF Chain
<1>12. ASSUME NEW c \in C \ (lo .. hi - 1)
       PROVE  Size(y, c) = Size(h, c) /\ (Allocated(y, c) <=> Allocated(h, c))
  BY <1>2, <1>3, <1>4 DEF Addrs, S
<1>13. Free(y, D) \ (L \cup ({lo, mid} \ {hi})) = Free(h, C) \ L
  <2>1. ASSUME NEW c, c \in Free(y, D), c \notin L, c \notin {lo, mid} \ {hi}
        PROVE  c \in Free(h, C) \ L
    <3>1. c \in D /\ ~Allocated(y, c)
      BY <2>1 DEF Free
    <3>2. c \in C \ (lo .. hi - 1)
      BY <2>1, <3>1, <1>2, <1>5
    <3> QED BY <2>1, <3>1, <3>2, <1>12 DEF Free
  <2>2. ASSUME NEW c, c \in Free(h, C), c \notin L
        PROVE  c \in Free(y, D) \ (L \cup ({lo, mid} \ {hi}))
    <3>1. c \in C \ (lo .. hi - 1) /\ ~Allocated(h, c)
      BY <2>2 DEF Free
    <3>2. c \in D /\ c \notin {lo, mid} \ {hi}
      BY <3>1, <1>2, <1>6 DEF Addrs
    <3> QED BY <2>2, <3>1, <3>2, <1>12 DEF Free
  <2> QED BY <2>1, <2>2
<1>14. Listed(y, Free(y, D) \ (L \cup ({lo, mid} \ {hi})))
  <2>1. \A c \in Free(h, C) \ L : Size(y, c) = Size(h, c)
    BY <1>12 DEF Free
  <2> QED BY <2>1, <1>1, <1>13, ListedFrame
<1>15. GoodBut(y, D, L \cup ({lo, mid} \ {hi}))
  BY <1>1, <1>11, <1>14 DEF GoodBut
<1> QED BY <1>3, <1>12, <1>15 DEF RecutSound, D

(* Two headers and the preceding size of the next chunk, in one go.        *)
TwoChunks(x, lo, n1, p, a1, n2, a2, hi) ==
  SetPreceding(SetHeader(SetHeader(x, lo, n1, p, a1), lo + n1, n2, n1, a2), hi, n2)

OneChunk(x, lo, n, p, a, hi) == SetPreceding(SetHeader(x, lo, n, p, a), hi, n)

(* The writes of a split recut one chunk into two.                         *)
LEMMA TwoChunksRecut ==
  ASSUME NEW h, NEW x, IsHeap(x), x.mem = h.mem, NEW lo \in Addrs, NEW hi \in Addrs,
         NEW n1 \in Nat \ {0}, NEW n2 \in Nat \ {0}, lo + n1 + n2 = hi,
         NEW a1 \in BOOLEAN, NEW a2 \in BOOLEAN
  PROVE  Recut(x, TwoChunks(x, lo, n1, Preceding(h, lo), a1, n2, a2, hi), lo, lo + n1, hi, a1, a2)
<1> DEFINE p == Preceding(h, lo)
           x1 == SetHeader(x, lo, n1, p, a1)
           x2 == SetHeader(x1, lo + n1, n2, n1, a2)
           y  == TwoChunks(x, lo, n1, p, a1, n2, a2, hi)
<1>1. lo + n1 \in Addrs /\ lo # lo + n1 /\ lo # hi /\ lo + n1 # hi /\ lo + n1 < hi
  BY HeapAssumption DEF Addrs, Top
<1>2. Wrote(x, x1, lo, Header(n1, p, a1))
  BY SetHeaderWrites
<1> HIDE DEF x1, p
<1>3. Wrote(x1, x2, lo + n1, Header(n2, n1, a2))
  BY <1>1, <1>2, SetHeaderWrites DEF Wrote
<1> HIDE DEF x2
<1>4. Size(x2, hi) = Size(x, hi) /\ Allocated(x2, hi) = Allocated(x, hi)
  <2>1. x2.mem[hi] = x.mem[hi]
    BY <1>1, <1>2, <1>3 DEF Wrote
  <2> QED BY <2>1 DEF Size, Allocated, IsHeader
<1>5. y = SetHeader(x2, hi, Size(x, hi), n2, Allocated(x, hi))
  BY <1>4 DEF TwoChunks, SetPreceding, x1, x2
<1> HIDE DEF y
<1>6. Wrote(x2, y, hi, Header(Size(x, hi), n2, Allocated(x, hi)))
  BY <1>3, <1>5, SetHeaderWrites DEF Wrote
<1>7. p = Preceding(x, lo)
  BY DEF p, Preceding, IsHeader
<1>8. n1 = (lo + n1) - lo /\ n2 = hi - (lo + n1)
  BY DEF Addrs
<1>9. /\ IsHeap(y) /\ y.nodelist = x.nodelist
      /\ y.mem[lo] = Header(n1, p, a1) /\ y.mem[lo + n1] = Header(n2, n1, a2)
      /\ y.mem[hi] = Header(Size(x, hi), n2, Allocated(x, hi))
      /\ \A w \in Addrs \ {lo, lo + n1, hi} : y.mem[w] = x.mem[w]
  BY <1>1, <1>2, <1>3, <1>6 DEF Wrote
<1>10. Recut(x, y, lo, lo + n1, hi, a1, a2)
  BY <1>1, <1>7, <1>8, <1>9 DEF Recut
<1> QED BY <1>10 DEF y, p

(* The writes of a merge recut two chunks into one.                        *)
LEMMA OneChunkRecut ==
  ASSUME NEW h, NEW x, IsHeap(x), x.mem = h.mem, NEW lo \in Addrs, NEW hi \in Addrs,
         NEW n \in Nat \ {0}, lo + n = hi, NEW a \in BOOLEAN
  PROVE  Recut(x, OneChunk(x, lo, n, Preceding(h, lo), a, hi), lo, hi, hi, a, TRUE)
<1> DEFINE p == Preceding(h, lo)
           x1 == SetHeader(x, lo, n, p, a)
           y  == OneChunk(x, lo, n, p, a, hi)
<1>1. lo # hi /\ ~(hi < hi) /\ n = hi - lo
  BY HeapAssumption DEF Addrs, Top
<1>2. Wrote(x, x1, lo, Header(n, p, a))
  BY SetHeaderWrites
<1> HIDE DEF x1, p
<1>4. Size(x1, hi) = Size(x, hi) /\ Allocated(x1, hi) = Allocated(x, hi)
  <2>1. x1.mem[hi] = x.mem[hi]
    BY <1>1, <1>2 DEF Wrote
  <2> QED BY <2>1 DEF Size, Allocated, IsHeader
<1>5. y = SetHeader(x1, hi, Size(x, hi), n, Allocated(x, hi))
  BY <1>4 DEF OneChunk, SetPreceding, x1
<1> HIDE DEF y
<1>6. Wrote(x1, y, hi, Header(Size(x, hi), n, Allocated(x, hi)))
  BY <1>2, <1>5, SetHeaderWrites, SMTT(60) DEF Wrote
<1>7. p = Preceding(x, lo)
  BY DEF p, Preceding, IsHeader
<1>9. /\ IsHeap(y) /\ y.nodelist = x.nodelist
      /\ y.mem[lo] = Header(n, p, a)
      /\ y.mem[hi] = Header(Size(x, hi), n, Allocated(x, hi))
      /\ \A w \in Addrs \ {lo, hi} : y.mem[w] = x.mem[w]
  BY <1>1, <1>2, <1>6 DEF Wrote
<1>10. Recut(x, y, lo, hi, hi, a, TRUE)
  BY <1>1, <1>7, <1>9 DEF Recut
<1> QED BY <1>10 DEF y, p

(* The mark of one chunk is set.                                           *)
Marked(h, C, L, y, a, al) ==
  /\ GoodBut(y, C, L \cup {a})
  /\ Allocated(y, a) <=> al
  /\ \A c \in C : Size(y, c) = Size(h, c) /\ Preceding(y, c) = Preceding(h, c)
  /\ \A w \in Addrs \ {a} : y.mem[w] = h.mem[w]

(* So it is by SetAlloc.                                                   *)
LEMMA SetAllocMarks ==
  ASSUME NEW h, NEW C, NEW L, GoodBut(h, C, L), NEW a \in C \ {0, Top}, NEW al \in BOOLEAN,
         a \in L \/ Allocated(h, a)
  PROVE  Marked(h, C, L, SetAlloc(h, a, al), a, al)
<1> DEFINE y == SetAlloc(h, a, al)
<1>1. IsHeap(h) /\ Chain(h, C) /\ Listed(h, Free(h, C) \ L) /\ a \in Addrs /\ C \subseteq Addrs
  BY DEF GoodBut, Chain
<1>2. Wrote(h, y, a, Header(Size(h, a), Preceding(h, a), al))
  BY <1>1, SetHeaderWrites DEF SetAlloc
<1> HIDE DEF y
<1>3. /\ IsHeader(y, a) /\ Size(y, a) = Size(h, a) /\ Preceding(y, a) = Preceding(h, a)
      /\ Allocated(y, a) <=> al
  <2>1. y.mem[a] = Header(Size(h, a), Preceding(h, a), al)
    BY <1>2 DEF Wrote
  <2> QED BY <2>1, HeaderReads
<1>4. ASSUME NEW c \in C \ {a}
      PROVE  /\ IsHeader(y, c) <=> IsHeader(h, c)
             /\ Size(y, c) = Size(h, c) /\ Preceding(y, c) = Preceding(h, c)
             /\ Allocated(y, c) <=> Allocated(h, c)
  <2>1. y.mem[c] = h.mem[c]
    BY <1>1, <1>2 DEF Wrote
  <2> QED BY <2>1, SameHeader
<1>5. \A c \in C : /\ IsHeader(y, c) <=> IsHeader(h, c)
                   /\ Size(y, c) = Size(h, c) /\ Preceding(y, c) = Preceding(h, c)
  BY <1>1, <1>3, <1>4 DEF Chain
<1>6. Chain(y, C)
  BY <1>1, <1>4, <1>5 DEF Chain
<1>7. Free(y, C) \ (L \cup {a}) = Free(h, C) \ L
  BY <1>4 DEF Free
<1>8. Listed(y, Free(y, C) \ (L \cup {a}))
  <2>1. \A c \in Free(h, C) \ L : Size(y, c) = Size(h, c)
    BY <1>5 DEF Free
  <2> QED BY <2>1, <1>1, <1>2, <1>7, ListedFrame DEF Wrote
<1>9. Marked(h, C, L, y, a, al)
  BY <1>2, <1>3, <1>5, <1>6, <1>8 DEF GoodBut, Wrote, Marked
<1> QED BY <1>9 DEF y

-----------------------------------------------------------------------------
(* The search of malloc finds a smallest chunk that fits, or there is none.*)
LEMMA SearchFinds ==
  ASSUME NEW h, NEW C, Good(h, C), NEW size \in Nat
  PROVE  LET node == SearchNodes(h, size)
             fit  == {a \in Free(h, C) : Size(h, a) >= size}
         IN  IF fit = {} THEN node = NULL
             ELSE node \in fit /\ \A a \in fit : Size(h, node) <= Size(h, a)
<1> DEFINE nl == h.nodelist
           fits(k) == {i \in DOMAIN h.nodelist[k] : Size(h, h.nodelist[k][i]) >= size}
           lists   == {k \in mm_size2ndx(size) .. MM_NNODES - 1 : fits(k) # {}}
           node == SearchNodes(h, size)
           fit  == {a \in Free(h, C) : Size(h, a) >= size}
<1>1. /\ nl \in [Classes -> Seq(Addrs)] /\ Chain(h, C) /\ Listed(h, Free(h, C))
      /\ \A a \in Free(h, C) : a \in Addrs /\ Size(h, a) \in Nat
  BY DEF Good, GoodBut, IsHeap, Chain, Free
<1>2. node = IF lists = {} THEN NULL ELSE nl[Min(lists)][Min(fits(Min(lists)))]
  BY DEF SearchNodes
<1>3. /\ mm_size2ndx(size) \in Classes /\ MM_NNODES - 1 \in Nat
      /\ \A k : k \in mm_size2ndx(size) .. MM_NNODES - 1 <=> k \in Classes /\ mm_size2ndx(size) <= k
  BY ClassOfSize, HeapAssumption DEF Classes
<1>4. ASSUME NEW a \in fit
      PROVE  LET k == mm_size2ndx(Size(h, a)) IN k \in lists /\ \E j \in fits(k) : nl[k][j] = a
  <2> DEFINE k == mm_size2ndx(Size(h, a))
  <2>1. a \in Free(h, C) /\ a \in Addrs /\ Size(h, a) \in Nat /\ size <= Size(h, a)
    BY <1>1
  <2>2. k \in Classes /\ mm_size2ndx(size) <= k
    BY <2>1, ClassOfSize
  <2>3. Linked(nl[k], a)
    BY <2>1, <2>2, <1>1 DEF Listed
  <2>4. PICK j \in DOMAIN nl[k] : nl[k][j] = a
    BY <2>3 DEF Linked
  <2>5. j \in fits(k)
    BY <2>1, <2>4
  <2>6. k \in lists
    <3> HIDE DEF fits, k
    <3> QED BY <2>2, <2>5, <1>3
  <2> QED BY <2>4, <2>5, <2>6
<1>5. CASE fit = {}
  <2>1. lists = {}
    <3> SUFFICES ASSUME NEW k \in lists PROVE FALSE
      OBVIOUS
    <3>1. k \in Classes /\ fits(k) # {}
      <4> HIDE DEF fits
      <4> QED BY <1>3
    <3>2. PICK i \in fits(k) : TRUE
      BY <3>1
    <3> DEFINE a == nl[k][i]
    <3>3. i \in DOMAIN nl[k] /\ Size(h, a) >= size /\ a \in Addrs /\ Linked(nl[k], a)
      BY <3>1, <3>2, <1>1 DEF Linked
    <3>4. a \in Free(h, C)
      BY <3>1, <3>3, <1>1 DEF Listed
    <3> QED BY <3>3, <3>4, <1>5
  <2> QED BY <2>1, <1>2, <1>5
<1>6. CASE fit # {}
  <2> DEFINE k0 == Min(lists)
             i0 == Min(fits(k0))
  <2>1. lists \in SUBSET Nat /\ lists # {}
    <3>1. lists # {}
      BY <1>4, <1>6
    <3>2. lists \subseteq Classes
      <4> HIDE DEF fits
      <4> QED BY <1>3
    <3> HIDE DEF lists
    <3> QED BY <3>1, <3>2 DEF Classes
  <2>2. k0 \in lists /\ \A k \in lists : k0 <= k
    <3> HIDE DEF lists
    <3> QED BY <2>1, MinIs
  <2> HIDE DEF k0
  <2>3. k0 \in Classes /\ fits(k0) # {}
    <3> HIDE DEF fits
    <3> QED BY <2>2, <1>3
  <2>4. nl[k0] \in Seq(Addrs) /\ DOMAIN nl[k0] = 1 .. Len(nl[k0]) /\ Len(nl[k0]) \in Nat
    BY <2>3, <1>1
  <2>5. fits(k0) \in SUBSET Nat
    BY <2>4
  <2>6. i0 \in fits(k0) /\ \A i \in fits(k0) : i0 <= i
    <3> HIDE DEF fits
    <3> QED BY <2>3, <2>5, MinIs
  <2> HIDE DEF i0
  <2>7. node = nl[k0][i0]
    <3> HIDE DEF fits, lists
    <3> QED BY <1>2, <2>1 DEF k0, i0
  <2> HIDE DEF node
  <2>8. /\ node \in Addrs /\ Size(h, node) >= size /\ node \in Free(h, C)
        /\ mm_size2ndx(Size(h, node)) = k0
    <3>1. i0 \in DOMAIN nl[k0] /\ Size(h, node) >= size /\ node \in Addrs /\ Linked(nl[k0], node)
      BY <2>6, <2>7, <2>4 DEF Linked
    <3> QED BY <3>1, <2>3, <1>1 DEF Listed
  <2>9. ASSUME NEW a \in fit PROVE Size(h, node) <= Size(h, a)
    <3> DEFINE k == mm_size2ndx(Size(h, a))
    <3>1. k \in lists /\ \E j \in fits(k) : nl[k][j] = a
      <4> HIDE DEF fits, lists
      <4> QED BY <1>4
    <3>2. Size(h, a) \in Nat /\ Size(h, node) \in Nat
      BY <1>1, <2>8
    <3>3. CASE Size(h, a) >= Size(h, node)
      BY <3>2, <3>3
    <3>4. CASE Size(h, a) < Size(h, node)
      <4>1. k <= k0 /\ k0 <= k /\ k \in Nat
        <5>1. k \in Classes /\ k <= mm_size2ndx(Size(h, node))
          BY <3>2, <3>4, ClassOfSize
        <5>2. k0 <= k
          <6> HIDE DEF lists, k
          <6> QED BY <3>1, <2>2
        <5> HIDE DEF k
        <5> QED BY <5>1, <5>2, <2>8 DEF Classes
      <4>2. k = k0
        <5> HIDE DEF k
        <5> QED BY <4>1, <2>3 DEF Classes
      <4>3. PICK j \in fits(k0) : nl[k0][j] = a
        BY <3>1, <4>2
      <4>4. i0 <= j /\ i0 \in DOMAIN nl[k0] /\ j \in DOMAIN nl[k0] /\ i0 \in Int /\ j \in Int
        BY <4>3, <2>4, <2>6
      <4>5. i0 # j
        BY <4>3, <2>7, <3>4, <3>2
      <4>6. Ascends(h, nl[k0])
        BY <2>3, <1>1 DEF Listed
      <4>7. Size(h, nl[k0][i0]) <= Size(h, nl[k0][j])
        BY <4>4, <4>5, <4>6 DEF Ascends
      <4> QED BY <4>3, <4>7, <2>7
    <3> QED BY <3>2, <3>3, <3>4
  <2>10. node \in fit
    BY <2>8
  <2> QED BY <2>9, <2>10, <1>6 DEF node
<1> QED BY <1>5, <1>6

-----------------------------------------------------------------------------
(* What a section does to the allocated chunks: those of out are gone,     *)
(* those of in are new, and the others have their size and their words.    *)
Alloc(h, C) == {a \in C \ {0, Top} : Allocated(h, a)}

Evens(h, C) == \A a \in C \ {0, Top} : Size(h, a) % 2 = 0

SameBlock(h, y, c) ==
  /\ Size(y, c) = Size(h, c)
  /\ \A w \in c + 1 .. c + Size(h, c) - 1 : y.mem[w] = h.mem[w]

Swaps(h, C, y, D, out, in) ==
  /\ Good(y, D)
  /\ Alloc(y, D) = (Alloc(h, C) \ out) \cup in
  /\ out \subseteq Alloc(h, C)
  /\ in \cap (Alloc(h, C) \ out) = {}
  /\ \A c \in Alloc(h, C) \ out : SameBlock(h, y, c)

(* The chunks from lo up to hi are D's instead of C's.                     *)
Within(h, C, y, D, lo, hi) ==
  /\ D \ (lo .. hi - 1) = C \ (lo .. hi - 1)
  /\ \A c \in C \ (lo .. hi - 1) : Size(y, c) = Size(h, c) /\ (Allocated(y, c) <=> Allocated(h, c))
  /\ \A w \in Addrs : w < lo \/ hi < w => y.mem[w] = h.mem[w]

Those(h, C, lo, hi) == {c \in Alloc(h, C) : c \in lo .. hi - 1}

(* One step after another, in the same place.                              *)
LEMMA WithinTwice ==
  ASSUME NEW h, NEW C, NEW x, NEW B, NEW y, NEW D, NEW lo, NEW hi,
         Within(h, C, x, B, lo, hi), Within(x, B, y, D, lo, hi)
  PROVE  Within(h, C, y, D, lo, hi)
BY DEF Within

(* A change between lo and hi swaps the allocated chunks there and keeps   *)
(* all others, their words included.                                       *)
LEMMA WithinSwaps ==
  ASSUME NEW h, NEW C, Chain(h, C), NEW y, NEW D, Good(y, D),
         NEW lo \in C \ {0, Top}, NEW hi \in C, lo < hi, Within(h, C, y, D, lo, hi)
  PROVE  Swaps(h, C, y, D, Those(h, C, lo, hi), Those(y, D, lo, hi))
<1>1. C \subseteq Addrs /\ \A c \in C : Size(h, c) \in Nat \ {0}
  BY DEF Chain
<1>2. \A c : c \notin lo .. hi - 1 => (c \in Alloc(y, D) <=> c \in Alloc(h, C))
  <2> TAKE c
  <2> HAVE c \notin lo .. hi - 1
  <2>1. c \in D <=> c \in C
    BY DEF Within
  <2>2. c \in C => (Allocated(y, c) <=> Allocated(h, c))
    BY DEF Within
  <2> QED BY <2>1, <2>2 DEF Alloc
<1>3. ASSUME NEW c \in Alloc(h, C) \ Those(h, C, lo, hi) PROVE SameBlock(h, y, c)
  <2>1. c \in C \ {Top} /\ c \notin lo .. hi - 1
    BY DEF Alloc, Those
  <2>2. Size(y, c) = Size(h, c)
    BY <2>1 DEF Within
  <2>3. c + Size(h, c) <= lo \/ hi <= c
    BY <2>1, <1>1 DEF Chain, Addrs
  <2>4. c + Size(h, c) \in Addrs /\ c \in Addrs
    BY <2>1, <1>1 DEF Chain
  <2>5. ASSUME NEW w \in c + 1 .. c + Size(h, c) - 1 PROVE y.mem[w] = h.mem[w]
    <3>1. w \in Addrs /\ (w < lo \/ hi < w)
      BY <2>1, <2>3, <2>4, <1>1, HeapAssumption DEF Addrs, Top
    <3> QED BY <3>1 DEF Within
  <2> QED BY <2>2, <2>5 DEF SameBlock
<1>4. Alloc(y, D) = (Alloc(h, C) \ Those(h, C, lo, hi)) \cup Those(y, D, lo, hi)
  BY <1>2 DEF Those
<1> QED BY <1>3, <1>4 DEF Swaps, Those

(* Two sections' worth, one after the other.                               *)
LEMMA SwapsTwice ==
  ASSUME NEW h, NEW C, NEW x, NEW B, NEW y, NEW D, NEW out, NEW b, NEW c,
         Swaps(h, C, x, B, out, {b}), Swaps(x, B, y, D, {b}, {c})
  PROVE  Swaps(h, C, y, D, out, {c})
<1>1. ASSUME NEW d \in Alloc(h, C) \ out PROVE SameBlock(h, y, d)
  <2>1. d \in Alloc(x, B) \ {b}
    BY DEF Swaps
  <2>2. SameBlock(h, x, d) /\ SameBlock(x, y, d)
    BY <2>1 DEF Swaps
  <2> QED BY <2>2 DEF SameBlock
<1> QED BY <1>1 DEF Swaps

-----------------------------------------------------------------------------
(* The chunks from lo up to hi become one of n1 words, and a free one of   *)
(* the rest that is in its list.                                           *)
CutSound(x, C, L, y, lo, n1, n2, a1) ==
  /\ GoodBut(y, CutAt(C, lo, lo + n1, lo + n1 + n2), (L \cup {lo}) \ {lo + n1})
  /\ Within(x, C, y, CutAt(C, lo, lo + n1, lo + n1 + n2), lo, lo + n1 + n2)
  /\ Size(y, lo) = n1 /\ (Allocated(y, lo) <=> a1)
  /\ Size(y, lo + n1) = n2 /\ ~Allocated(y, lo + n1)
  /\ \A w \in lo + 1 .. lo + n1 - 1 : y.mem[w] = x.mem[w]

(* So the writes of a split do.                                            *)
LEMMA CutOff ==
  ASSUME NEW x, NEW C, NEW L, GoodBut(x, C, L), NEW h, x.mem = h.mem,
         NEW lo \in C \ {0, Top}, NEW hi \in C, NEW n1 \in Nat, NEW n2 \in Nat,
         n1 >= FreeNode, n2 >= FreeNode, lo + n1 + n2 = hi, NEW a1 \in BOOLEAN,
         \A c \in Free(x, C) : c \in lo .. hi - 1 => c \in L
  PROVE  CutSound(x, C, L,
                  mm_addfreechunk(TwoChunks(x, lo, n1, Preceding(h, lo), a1, n2, FALSE, hi), lo + n1),
                  lo, n1, n2, a1)
<1> DEFINE mid == lo + n1
           a2 == FALSE
           z == TwoChunks(x, lo, n1, Preceding(h, lo), a1, n2, a2, hi)
           y == mm_addfreechunk(z, mid)
           D == CutAt(C, lo, mid, hi)
           M == L \cup ({lo, mid} \ {hi})
<1>1. /\ C \subseteq Addrs /\ lo \in Addrs /\ hi \in Addrs /\ IsHeap(x) /\ Chain(x, C)
      /\ n1 \in Nat \ {0} /\ n2 \in Nat \ {0} /\ lo < hi /\ mid \in lo + 1 .. hi
      /\ mid < hi /\ mid - lo = n1 /\ hi - mid = n2 /\ 0 < lo /\ hi <= Top /\ mid \in Addrs
      /\ a2 \in BOOLEAN /\ lo # hi
  BY HeapAssumption DEF GoodBut, Chain, FreeNode, Addrs, Top
<1>2. Recut(x, z, lo, mid, hi, a1, a2)
  <2> HIDE DEF a2
  <2>1. Recut(x, TwoChunks(x, lo, n1, Preceding(h, lo), a1, n2, a2, hi), lo, lo + n1, hi, a1, a2)
    BY <1>1, TwoChunksRecut
  <2> QED BY <2>1
<1> HIDE DEF z, mid, D, M
<1>3. \A w \in Addrs \ {lo, mid, hi} : z.mem[w] = x.mem[w]
  BY <1>2 DEF Recut
<1>4. RecutSound(x, C, L, z, lo, mid, hi, a1, a2)
  <2> HIDE DEF a2
  <2>1. mid - lo >= FreeNode /\ (mid < hi => hi - mid >= FreeNode)
    BY <1>1
  <2> QED BY <1>1, <1>2, <2>1, RecutChunks
<1>5. /\ GoodBut(z, D, M) /\ mid \in M /\ lo \in D /\ mid \in D /\ mid \in Free(z, D)
      /\ Size(z, lo) = n1 /\ (Allocated(z, lo) <=> a1)
      /\ Size(z, mid) = n2 /\ ~Allocated(z, mid)
  BY <1>1, <1>4 DEF RecutSound, D, M, Free, CutAt
<1>6. Relisted(z, D, M, mid, y)
  <2>1. Relisted(z, D, M, mid, mm_addfreechunk(z, mid))
    BY <1>5, AddRelists
  <2> QED BY <2>1
<1> HIDE DEF y
<1>7. M \ {mid} = (L \cup {lo}) \ {mid}
  BY <1>1 DEF M
<1>8. \A c \in D : Size(y, c) = Size(z, c) /\ (Allocated(y, c) <=> Allocated(z, c))
  BY <1>6, SameHeader DEF Relisted
<1>9. D \ (lo .. hi - 1) = C \ (lo .. hi - 1)
  BY <1>1 DEF CutAt, D, Addrs
<1>10. \A w \in Addrs : w < lo \/ hi < w => y.mem[w] = x.mem[w]
  BY <1>1, <1>3, <1>5, <1>6 DEF Relisted, Addrs
<1>11. Within(x, C, y, D, lo, hi)
  <2>1. ASSUME NEW c \in C \ (lo .. hi - 1)
        PROVE  Size(y, c) = Size(x, c) /\ (Allocated(y, c) <=> Allocated(x, c))
    <3>1. c \in D
      BY <1>9
    <3> QED BY <3>1, <1>4, <1>8 DEF RecutSound
  <2> QED BY <2>1, <1>9, <1>10 DEF Within
<1>12. \A w \in lo + 1 .. mid - 1 : y.mem[w] = x.mem[w]
  <2> TAKE w \in lo + 1 .. mid - 1
  <2>1. w \in Addrs /\ lo < w /\ w < mid
    BY <1>1, HeapAssumption DEF Addrs, Top
  <2>2. w # lo /\ w # mid /\ w # hi /\ w <= mid
    BY <2>1, <1>1 DEF Addrs
  <2> QED BY <2>1, <2>2, <1>3, <1>6 DEF Relisted
<1>13. /\ Size(y, lo) = n1 /\ (Allocated(y, lo) <=> a1)
       /\ Size(y, mid) = n2 /\ ~Allocated(y, mid)
  BY <1>5, <1>8
<1>14. GoodBut(y, D, (L \cup {lo}) \ {mid})
  BY <1>6, <1>7 DEF Relisted
<1>15. CutSound(x, C, L, y, lo, n1, n2, a1)
  <2>1. lo + n1 + n2 = hi /\ lo + n1 = mid
    BY DEF mid
  <2>2. CutAt(C, lo, lo + n1, lo + n1 + n2) = D
    BY <2>1 DEF D
  <2> HIDE DEF y
  <2>3. /\ GoodBut(y, CutAt(C, lo, lo + n1, lo + n1 + n2), (L \cup {lo}) \ {lo + n1})
        /\ Size(y, lo + n1) = n2 /\ ~Allocated(y, lo + n1)
    BY <2>1, <2>2, <1>13, <1>14
  <2>4. Within(x, C, y, CutAt(C, lo, lo + n1, lo + n1 + n2), lo, lo + n1 + n2)
    BY <2>1, <2>2, <1>11
  <2>5. \A w \in lo + 1 .. lo + n1 - 1 : y.mem[w] = x.mem[w]
    <3>1. lo + n1 - 1 = mid - 1
      BY <1>1, <2>1 DEF Addrs
    <3> QED BY <3>1, <1>12
  <2> QED BY <2>3, <2>4, <2>5, <1>13 DEF CutSound
<1> QED BY <1>15 DEF y, z, mid

(* The chunks from lo up to hi become one.                                 *)
GlueSound(x, C, L, y, lo, n, a1) ==
  /\ GoodBut(y, CutAt(C, lo, lo + n, lo + n), L \cup {lo})
  /\ Within(x, C, y, CutAt(C, lo, lo + n, lo + n), lo, lo + n)
  /\ Size(y, lo) = n /\ (Allocated(y, lo) <=> a1)
  /\ \A w \in lo + 1 .. lo + n - 1 : y.mem[w] = x.mem[w]

(* So the writes of a merge do.                                            *)
LEMMA GlueUp ==
  ASSUME NEW x, NEW C, NEW L, GoodBut(x, C, L), NEW h, x.mem = h.mem,
         NEW lo \in C \ {0, Top}, NEW hi \in C, NEW n \in Nat,
         n >= FreeNode, lo + n = hi, NEW a1 \in BOOLEAN,
         \A c \in Free(x, C) : c \in lo .. hi - 1 => c \in L
  PROVE  GlueSound(x, C, L, OneChunk(x, lo, n, Preceding(h, lo), a1, hi), lo, n, a1)
<1> DEFINE y == OneChunk(x, lo, n, Preceding(h, lo), a1, hi)
           D == CutAt(C, lo, hi, hi)
           a2 == TRUE
<1>1. /\ C \subseteq Addrs /\ lo \in Addrs /\ hi \in Addrs /\ IsHeap(x) /\ Chain(x, C)
      /\ n \in Nat \ {0} /\ lo < hi /\ hi \in lo + 1 .. hi /\ hi - lo = n
      /\ 0 < lo /\ hi <= Top /\ ~(hi < hi) /\ a2 \in BOOLEAN /\ lo # hi
  BY HeapAssumption DEF GoodBut, Chain, FreeNode, Addrs, Top
<1>2. Recut(x, y, lo, hi, hi, a1, a2)
  BY <1>1, OneChunkRecut
<1>3. \A w \in Addrs \ {lo, hi} : y.mem[w] = x.mem[w]
  BY <1>2 DEF Recut
<1> HIDE DEF y, D, a2
<1>4. RecutSound(x, C, L, y, lo, hi, hi, a1, a2)
  <2>1. hi - lo >= FreeNode /\ (hi < hi => hi - hi >= FreeNode)
    BY <1>1
  <2> QED BY <1>1, <1>2, <2>1, RecutChunks
<1>5. {lo, hi} \ {hi} = {lo}
  BY <1>1
<1>6. D \ (lo .. hi - 1) = C \ (lo .. hi - 1)
  BY <1>1 DEF CutAt, D, Addrs
<1>7. Within(x, C, y, D, lo, hi)
  <2>1. \A w \in Addrs : w < lo \/ hi < w => y.mem[w] = x.mem[w]
    BY <1>1, <1>3 DEF Addrs
  <2>2. D \ (lo .. hi - 1) = C \ (lo .. hi - 1)
    BY <1>6
  <2>3. \A c \in C \ (lo .. hi - 1) : Size(y, c) = Size(x, c) /\ (Allocated(y, c) <=> Allocated(x, c))
    BY <1>4 DEF RecutSound
  <2> QED BY <2>1, <2>2, <2>3 DEF Within
<1>8. \A w \in lo + 1 .. hi - 1 : y.mem[w] = x.mem[w]
  <2> TAKE w \in lo + 1 .. hi - 1
  <2>1. w \in Addrs /\ lo < w /\ w < hi
    BY <1>1, HeapAssumption DEF Addrs, Top
  <2> QED BY <2>1, <1>1, <1>3 DEF Addrs
<1>9. GoodBut(y, D, L \cup {lo}) /\ Size(y, lo) = n /\ (Allocated(y, lo) <=> a1)
  BY <1>1, <1>4, <1>5 DEF RecutSound, D
<1>10. GlueSound(x, C, L, y, lo, n, a1)
  <2>1. hi = lo + n
    OBVIOUS
  <2>2. GoodBut(y, CutAt(C, lo, lo + n, lo + n), L \cup {lo})
    BY <2>1, <1>9 DEF D
  <2>3. Within(x, C, y, CutAt(C, lo, lo + n, lo + n), lo, lo + n)
    BY <2>1, <1>7 DEF D
  <2>4. \A w \in lo + 1 .. lo + n - 1 : y.mem[w] = x.mem[w]
    BY <2>1, <1>8
  <2> QED BY <2>2, <2>3, <2>4, <1>9 DEF GlueSound
<1> QED BY <1>10 DEF y

(* Nothing that is free is left out.                                       *)
LEMMA NoneLeft ==
  ASSUME NEW h, NEW C, NEW L, GoodBut(h, C, L), \A c \in Free(h, C) : c \notin L
  PROVE  Good(h, C)
BY DEF Good, GoodBut, Free

(* Chunks of even sizes stay so if the new ones are.                       *)
LEMMA EvensWithin ==
  ASSUME NEW h, NEW C, NEW y, NEW D, NEW lo, NEW hi, Within(h, C, y, D, lo, hi), Evens(h, C),
         \A c \in D : c \in lo .. hi - 1 => Size(y, c) % 2 = 0
  PROVE  Evens(y, D)
BY DEF Within, Evens

(* To mark a chunk allocated or free is a change within it.                *)
LEMMA MarkedWithin ==
  ASSUME NEW h, NEW C, NEW L, NEW y, NEW a, NEW al, Marked(h, C, L, y, a, al),
         NEW lo \in Int, NEW hi \in Int, a \in lo .. hi - 1
  PROVE  Within(h, C, y, C, lo, hi)
<1>1. C \subseteq Addrs /\ \A w \in Addrs \ {a} : y.mem[w] = h.mem[w]
  BY DEF Marked, GoodBut, Chain
<1>2. ASSUME NEW c \in C \ (lo .. hi - 1)
      PROVE  Size(y, c) = Size(h, c) /\ (Allocated(y, c) <=> Allocated(h, c))
  <2>1. y.mem[c] = h.mem[c]
    BY <1>1
  <2> QED BY <2>1, SameHeader
<1>3. \A w \in Addrs : w < lo \/ hi < w => y.mem[w] = h.mem[w]
  BY <1>1 DEF Addrs
<1> QED BY <1>2, <1>3 DEF Within

(* One chunk lies between a header and the next.                           *)
LEMMA OneLies ==
  ASSUME NEW h, NEW C, Chain(h, C), NEW a \in C \ {0, Top}
  PROVE  /\ a \in Nat \ {0} /\ Size(h, a) \in Nat /\ Size(h, a) >= 2
         /\ a + Size(h, a) \in C \ {0} /\ a + Size(h, a) \in Nat
         /\ Preceding(h, a + Size(h, a)) = Size(h, a)
         /\ \A c \in C : c \in a .. a + Size(h, a) - 1 <=> c = a
<1>1. a \in Addrs /\ C \subseteq Addrs /\ Size(h, a) \in Nat /\ Size(h, a) >= 2
  BY DEF Chain, FreeNode
<1>2. /\ a + Size(h, a) \in C /\ Preceding(h, a + Size(h, a)) = Size(h, a)
      /\ \A c \in C : c <= a \/ a + Size(h, a) <= c
  BY DEF Chain
<1> QED BY <1>1, <1>2 DEF Addrs

(* What malloc does: one chunk more, of the size at least.                 *)
MallocSound(h, C, y, a, size) ==
  \E D : /\ Swaps(h, C, y, D, {}, {a})
         /\ Size(y, a) >= size
         /\ Evens(h, C) => Evens(y, D)

(* So it does, with the chunk that is found and with a split.              *)
LEMMA MallocSwaps ==
  ASSUME NEW h, NEW C, Good(h, C), NEW n \in Nat \ {0}, malloc_section(h, n).ret # NULL
  PROVE  LET r == malloc_section(h, n)
         IN  /\ r.ret \in Nat \ {0}
             /\ MallocSound(h, C, r.heap, r.ret - 1, AlignUp(n + 1))
<1> DEFINE size == AlignUp(n + 1)
           node == SearchNodes(h, size)
           remaining == Size(h, node) - size
           h1 == Unlink(h, node)
           next == node + Size(h, node)
           split == TwoChunks(h1, node, size, Preceding(h, node), FALSE, remaining, FALSE, next)
           cut == mm_addfreechunk(split, node + size)
           h2 == IF remaining >= FreeNode THEN cut ELSE h1
           y == SetAlloc(h2, node, TRUE)
           r == malloc_section(h, n)
<1>1. size \in Nat /\ size >= 2 /\ size % 2 = 0
  BY AlignUpIs
<1>2. r = IF node = NULL THEN [heap |-> h, ret |-> NULL] ELSE [heap |-> y, ret |-> node + 1]
  BY DEF malloc_section, TwoChunks
<1> HIDE DEF r
<1>3. node # NULL /\ r.heap = y /\ r.ret = node + 1
  <2> HIDE DEF y, node
  <2> QED BY <1>2 DEF r
<1>4. node \in Free(h, C) /\ Size(h, node) >= size
  <2>1. LET fit == {a \in Free(h, C) : Size(h, a) >= size}
        IN  IF fit = {} THEN node = NULL
            ELSE node \in fit /\ \A a \in fit : Size(h, node) <= Size(h, a)
    <3> HIDE DEF size
    <3> QED BY <1>1, SearchFinds
  <2> HIDE DEF node
  <2> QED BY <2>1, <1>3
<1> HIDE DEF size, node, y, h1, cut
<1>5. Chain(h, C) /\ node \in C \ {0, Top} /\ ~Allocated(h, node) /\ GoodBut(h, C, {})
  BY <1>4 DEF Good, GoodBut, Chain, Free
<1>6. /\ node \in Nat \ {0} /\ Size(h, node) \in Nat
      /\ next \in C \ {0} /\ next \in Nat /\ node < next
      /\ remaining \in Nat /\ node + size + remaining = next
      /\ \A c \in C : c \in node .. next - 1 <=> c = node
      /\ node \in node .. next - 1 /\ node \in Int /\ next \in Int
  BY <1>1, <1>4, <1>5, OneLies
<1>7. GoodBut(h1, C, {node}) /\ h1.mem = h.mem
  <2>1. GoodBut(Unlink(h, node), C, {} \cup {node}) /\ Unlink(h, node).mem = h.mem
    BY <1>5, UnlinkTakes
  <2> QED BY <2>1 DEF h1
<1>8. \A c \in C : Size(h1, c) = Size(h, c) /\ (Allocated(h1, c) <=> Allocated(h, c))
  BY <1>7, SameHeader
<1> HIDE DEF remaining, next
<1>9. Those(h, C, node, next) = {}
  BY <1>5, <1>6 DEF Those, Alloc
<1>10. ASSUME NEW D, Good(y, D), Within(h, C, y, D, node, next), Allocated(y, node), node \in D,
              \A c \in D : c \in node .. next - 1 => c = node \/ ~Allocated(y, c),
              Size(y, node) >= size,
              Evens(h, C) => \A c \in D : c \in node .. next - 1 => Size(y, c) % 2 = 0
       PROVE  MallocSound(h, C, y, node, size)
  <2>1. Those(y, D, node, next) = {node}
    BY <1>10, <1>5, <1>6 DEF Those, Alloc
  <2>2. Swaps(h, C, y, D, {}, {node})
    <3>1. Swaps(h, C, y, D, Those(h, C, node, next), Those(y, D, node, next))
      BY <1>10, <1>5, <1>6, WithinSwaps
    <3> QED BY <3>1, <2>1, <1>9
  <2>3. Evens(h, C) => Evens(y, D)
    BY <1>10, EvensWithin
  <2> QED BY <2>2, <2>3, <1>10 DEF MallocSound
<1>11. ASSUME remaining >= FreeNode PROVE MallocSound(h, C, y, node, size)
  <2> DEFINE D == CutAt(C, node, node + size, next)
             M == ({node} \cup {node}) \ {node + size}
  <2>1. CutSound(h1, C, {node}, cut, node, size, remaining, FALSE)
    <3> DEFINE a1 == FALSE
    <3>1. a1 \in BOOLEAN /\ cut = mm_addfreechunk(TwoChunks(h1, node, size, Preceding(h, node), a1,
                                                           remaining, FALSE, next), node + size)
      BY DEF cut
    <3> HIDE DEF a1
    <3>2. \A c \in Free(h1, C) : c \in node .. next - 1 => c \in {node}
      BY <1>6 DEF Free
    <3>3. size >= FreeNode
      BY <1>1 DEF FreeNode
    <3>4. CutSound(h1, C, {node}, mm_addfreechunk(TwoChunks(h1, node, size, Preceding(h, node), a1,
                                                            remaining, FALSE, next), node + size),
                   node, size, remaining, a1)
      <4> DEFINE L == {node}
      <4>1. /\ GoodBut(h1, C, L) /\ h1.mem = h.mem /\ node \in C \ {0, Top} /\ next \in C
            /\ size \in Nat /\ remaining \in Nat /\ size >= FreeNode /\ remaining >= FreeNode
            /\ node + size + remaining = next /\ a1 \in BOOLEAN
            /\ \A c \in Free(h1, C) : c \in node .. next - 1 => c \in L
        BY <1>1, <1>5, <1>6, <1>7, <1>11, <3>1, <3>2, <3>3
      <4> HIDE DEF L
      <4>2. CutSound(h1, C, L, mm_addfreechunk(TwoChunks(h1, node, size, Preceding(h, node), a1,
                                                         remaining, FALSE, next), node + size),
                     node, size, remaining, a1)
        BY <4>1, CutOff, ZenonT(60)
      <4> QED BY <4>2 DEF L
    <3> QED BY <3>1, <3>4 DEF a1
  <2>2. /\ GoodBut(cut, D, M) /\ Within(h1, C, cut, D, node, next)
        /\ Size(cut, node) = size /\ Size(cut, node + size) = remaining
        /\ ~Allocated(cut, node + size)
    BY <2>1, <1>6 DEF CutSound
  <2>3. /\ node \in D \ {0, Top} /\ node + size # node /\ node + size \in D /\ D \subseteq Addrs
        /\ \A c \in D : c \in node .. next - 1 => c \in {node, node + size}
        /\ node + size \in node .. next - 1
    <3>1. D \subseteq Addrs
      BY <2>2 DEF GoodBut, Chain
    <3>2. node + size \in node + 1 .. next - 1
      BY <1>1, <1>6, <1>11 DEF FreeNode
    <3> QED BY <3>1, <3>2, <1>1, <1>5, <1>6 DEF CutAt
  <2> HIDE DEF D
  <2>4. y = SetAlloc(cut, node, TRUE)
    BY <1>11 DEF y, h2
  <2>5. Marked(cut, D, M, y, node, TRUE)
    <3> DEFINE al == TRUE
    <3>1. al \in BOOLEAN /\ node \in M
      BY <2>3
    <3> HIDE DEF al, M
    <3>2. Marked(cut, D, M, SetAlloc(cut, node, al), node, al)
      BY <2>2, <2>3, <3>1, SetAllocMarks
    <3> QED BY <3>2, <2>4 DEF al
  <2>6. /\ Allocated(y, node) /\ Size(y, node) = size
        /\ Size(y, node + size) = remaining /\ ~Allocated(y, node + size)
    <3>1. y.mem[node + size] = cut.mem[node + size]
      BY <2>3, <2>5 DEF Marked
    <3>2. Allocated(y, node + size) <=> Allocated(cut, node + size)
      BY <3>1, SameHeader
    <3> QED BY <3>2, <2>2, <2>3, <2>5 DEF Marked
  <2>7. Good(y, D)
    <3>1. GoodBut(y, D, M \cup {node})
      BY <2>5 DEF Marked
    <3>2. \A c \in Free(y, D) : c \notin M \cup {node}
      BY <2>6 DEF Free
    <3> HIDE DEF M
    <3> QED BY <3>1, <3>2, NoneLeft
  <2>8. Within(h, C, y, D, node, next)
    <3>1. Within(cut, D, y, D, node, next)
      BY <2>5, <1>6, MarkedWithin, ZenonT(30)
    <3>2. Within(h1, C, y, D, node, next)
      BY <3>1, <2>2, WithinTwice
    <3> QED BY <3>2, <1>7, <1>8 DEF Within
  <2>9. Evens(h, C) => remaining % 2 = 0
    BY <1>1, <1>5, <1>6 DEF Evens, remaining
  <2> QED BY <2>3, <2>6, <2>7, <2>8, <2>9, <1>1, <1>10
<1>12. ASSUME ~(remaining >= FreeNode) PROVE MallocSound(h, C, y, node, size)
  <2>1. y = SetAlloc(h1, node, TRUE)
    BY <1>12 DEF y, h2
  <2>2. Marked(h1, C, {node}, y, node, TRUE)
    <3> DEFINE al == TRUE
               M == {node}
    <3>1. al \in BOOLEAN /\ node \in M
      OBVIOUS
    <3> HIDE DEF al, M
    <3>2. Marked(h1, C, M, SetAlloc(h1, node, al), node, al)
      BY <1>5, <1>7, <3>1, SetAllocMarks DEF M
    <3> QED BY <3>2, <2>1 DEF al, M
  <2>3. Good(y, C)
    <3> DEFINE M == {node} \cup {node}
    <3>1. GoodBut(y, C, M) /\ \A c \in Free(y, C) : c \notin M
      BY <2>2 DEF Marked, Free
    <3> HIDE DEF M
    <3> QED BY <3>1, NoneLeft
  <2>4. Within(h, C, y, C, node, next)
    <3>1. Within(h1, C, y, C, node, next)
      BY <2>2, <1>6, MarkedWithin, ZenonT(30)
    <3> QED BY <3>1, <1>7, <1>8 DEF Within
  <2>5. Allocated(y, node) /\ Size(y, node) = Size(h, node)
    BY <2>2, <1>5, <1>8 DEF Marked
  <2> QED BY <2>3, <2>4, <2>5, <1>4, <1>5, <1>6, <1>10 DEF Evens
<1>13. MallocSound(h, C, y, node, size)
  BY <1>11, <1>12
<1>14. r.ret - 1 = node
  BY <1>3, <1>6
<1> QED BY <1>3, <1>6, <1>13, <1>14 DEF size, r

(* A wider place.                                                          *)
LEMMA WithinWider ==
  ASSUME NEW h, NEW C, NEW y, NEW D, NEW lo \in Int, NEW hi \in Int, Within(h, C, y, D, lo, hi),
         C \subseteq Addrs, D \subseteq Addrs,
         NEW lo2 \in Int, NEW hi2 \in Int, lo2 <= lo, hi <= hi2
  PROVE  Within(h, C, y, D, lo2, hi2)
<1>1. D \ (lo .. hi - 1) = C \ (lo .. hi - 1)
  BY DEF Within
<1>2. \A c \in Addrs : c \in lo .. hi - 1 => c \in lo2 .. hi2 - 1
  BY DEF Addrs
<1>3. D \ (lo2 .. hi2 - 1) = C \ (lo2 .. hi2 - 1)
  BY <1>1, <1>2
<1>4. ASSUME NEW c \in C \ (lo2 .. hi2 - 1)
      PROVE  Size(y, c) = Size(h, c) /\ (Allocated(y, c) <=> Allocated(h, c))
  <2>1. c \in C \ (lo .. hi - 1)
    BY <1>2
  <2> QED BY <2>1 DEF Within
<1>5. ASSUME NEW w \in Addrs, w < lo2 \/ hi2 < w PROVE y.mem[w] = h.mem[w]
  <2>1. w < lo \/ hi < w
    BY <1>5 DEF Addrs
  <2> QED BY <2>1 DEF Within
<1> QED BY <1>3, <1>4, <1>5 DEF Within

(* What mm_addfreechunk leaves alone.                                      *)
LEMMA RelistedWithin ==
  ASSUME NEW h, NEW C, NEW L, NEW a \in Int, NEW y, Relisted(h, C, L, a, y), Size(h, a) \in Nat,
         NEW lo \in Int, NEW hi \in Int, lo <= a, a + Size(h, a) <= hi
  PROVE  /\ Within(h, C, y, C, lo, hi)
         /\ \A c \in C : Size(y, c) = Size(h, c) /\ (Allocated(y, c) <=> Allocated(h, c))
<1>1. \A c \in C : Size(y, c) = Size(h, c) /\ (Allocated(y, c) <=> Allocated(h, c))
  BY SameHeader DEF Relisted
<1>2. ASSUME NEW w \in Addrs, w < lo \/ hi < w PROVE y.mem[w] = h.mem[w]
  <2>1. w <= a \/ a + Size(h, a) <= w
    BY <1>2 DEF Addrs
  <2> QED BY <2>1 DEF Relisted
<1> QED BY <1>1, <1>2 DEF Within

(* Two neighbours become one chunk.                                        *)
MergeSound(x, C, L, y, a, b, al) ==
  /\ GoodBut(y, C \ {b}, (L \ {b}) \cup {a})
  /\ Within(x, C, y, C \ {b}, a, b + Size(x, b))
  /\ Size(y, a) = Size(x, a) + Size(x, b) /\ (Allocated(y, a) <=> al)
  /\ \A w \in a + 1 .. b + Size(x, b) - 1 : y.mem[w] = x.mem[w]

(* By one header and the preceding size beyond.                            *)
LEMMA MergeTwo ==
  ASSUME NEW x, NEW C, NEW L, GoodBut(x, C, L), NEW h, x.mem = h.mem,
         NEW a \in C \ {0, Top}, NEW b \in C \ {0, Top}, b = a + Size(x, a),
         a \in L \/ Allocated(x, a), b \in L \/ Allocated(x, b), NEW al \in BOOLEAN
  PROVE  MergeSound(x, C, L, OneChunk(x, a, Size(x, a) + Size(x, b), Preceding(h, a), al, b + Size(x, b)),
                    a, b, al)
<1> DEFINE hi == b + Size(x, b)
           n == Size(x, a) + Size(x, b)
           y == OneChunk(x, a, n, Preceding(h, a), al, hi)
<1>1. Chain(x, C) /\ C \subseteq Addrs
  BY DEF GoodBut, Chain
<1>2. /\ a \in Nat \ {0} /\ Size(x, a) \in Nat /\ Size(x, a) >= 2
      /\ \A c \in C : c \in a .. a + Size(x, a) - 1 <=> c = a
  BY <1>1, OneLies
<1>3. /\ b \in Nat \ {0} /\ Size(x, b) \in Nat /\ Size(x, b) >= 2 /\ hi \in C \ {0} /\ hi \in Nat
      /\ \A c \in C : c \in b .. b + Size(x, b) - 1 <=> c = b
  BY <1>1, OneLies
<1>4. \A c \in C : c \in a .. hi - 1 <=> c \in {a, b}
  BY <1>1, <1>2, <1>3 DEF Addrs
<1>5. n \in Nat /\ n >= FreeNode /\ a + n = hi /\ a # b /\ b # hi /\ a # hi
  BY <1>2, <1>3 DEF FreeNode
<1> HIDE DEF hi, n, y
<1>6. \A c \in Free(x, C) : c \in a .. hi - 1 => c \in L
  BY <1>4 DEF Free
<1>7. GlueSound(x, C, L, y, a, n, al)
  <2>1. GlueSound(x, C, L, OneChunk(x, a, n, Preceding(h, a), al, hi), a, n, al)
    <3>1. /\ GoodBut(x, C, L) /\ x.mem = h.mem /\ a \in C \ {0, Top} /\ hi \in C /\ n \in Nat
          /\ n >= FreeNode /\ a + n = hi /\ al \in BOOLEAN
          /\ \A c \in Free(x, C) : c \in a .. hi - 1 => c \in L
      BY <1>3, <1>5, <1>6
    <3> QED BY <3>1, GlueUp, ZenonT(60)
  <2> QED BY <2>1 DEF y
<1>8. CutAt(C, a, a + n, a + n) = C \ {b}
  <2>1. \A c \in C : c \in a + 1 .. hi - 1 <=> c = b
    BY <1>1, <1>2, <1>4, <1>5 DEF Addrs
  <2> QED BY <2>1, <1>3, <1>5 DEF CutAt
<1>9. /\ GoodBut(y, C \ {b}, L \cup {a}) /\ Within(x, C, y, C \ {b}, a, hi)
      /\ Size(y, a) = n /\ (Allocated(y, a) <=> al)
      /\ \A w \in a + 1 .. hi - 1 : y.mem[w] = x.mem[w]
  <2>1. hi = a + n
    BY <1>5
  <2>2. /\ GoodBut(y, CutAt(C, a, a + n, a + n), L \cup {a})
        /\ Within(x, C, y, CutAt(C, a, a + n, a + n), a, a + n)
        /\ Size(y, a) = n /\ (Allocated(y, a) <=> al)
        /\ \A w \in a + 1 .. a + n - 1 : y.mem[w] = x.mem[w]
    BY <1>7 DEF GlueSound
  <2>3. GoodBut(y, C \ {b}, L \cup {a})
    BY <2>2, <1>8
  <2>4. Within(x, C, y, C \ {b}, a, hi)
    BY <2>1, <2>2, <1>8
  <2>5. \A w \in a + 1 .. hi - 1 : y.mem[w] = x.mem[w]
    <3>1. a + 1 .. hi - 1 = a + 1 .. a + n - 1
      BY <2>1, <1>2, <1>3, <1>5
    <3> QED BY <3>1, <2>2
  <2> QED BY <2>2, <2>3, <2>4, <2>5
<1>10. Free(y, C \ {b}) \ (L \cup {a}) = Free(y, C \ {b}) \ ((L \ {b}) \cup {a})
  BY DEF Free
<1>11. GoodBut(y, C \ {b}, (L \ {b}) \cup {a})
  BY <1>9, <1>10 DEF GoodBut
<1>12. MergeSound(x, C, L, y, a, b, al)
  <2>1. hi = b + Size(x, b) /\ n = Size(x, a) + Size(x, b)
    BY DEF hi, n
  <2>2. Within(x, C, y, C \ {b}, a, b + Size(x, b)) /\ Size(y, a) = Size(x, a) + Size(x, b)
    BY <2>1, <1>9
  <2>3. \A w \in a + 1 .. b + Size(x, b) - 1 : y.mem[w] = x.mem[w]
    <3>1. a + 1 .. hi - 1 = a + 1 .. b + Size(x, b) - 1
      BY <2>1, <1>2, <1>3, <1>5, SMTT(60)
    <3> QED BY <3>1, <1>9
  <2> QED BY <2>2, <2>3, <1>9, <1>11 DEF MergeSound
<1> QED BY <1>12 DEF y, hi, n

(* A list-less free chunk is put back, and the section is over.            *)
Restored(h, C, a, y, lo, hi) ==
  /\ Good(y, C) /\ Within(h, C, y, C, lo, hi)
  /\ \A c \in C : Size(y, c) = Size(h, c) /\ (Allocated(y, c) <=> Allocated(h, c))
  /\ \A w \in Addrs : w <= a \/ a + Size(h, a) <= w => y.mem[w] = h.mem[w]

(* If no other is left out.                                                *)
LEMMA RelistLast ==
  ASSUME NEW h, NEW C, NEW L, NEW a, GoodBut(h, C, L), a \in Free(h, C), a \in L,
         \A c \in Free(h, C) : c \in L => c = a,
         NEW lo \in Int, NEW hi \in Int, lo <= a, a + Size(h, a) <= hi
  PROVE  Restored(h, C, a, mm_addfreechunk(h, a), lo, hi)
<1> DEFINE y == mm_addfreechunk(h, a)
<1>1. a \in Int /\ Size(h, a) \in Nat
  BY DEF GoodBut, Chain, Free, Addrs
<1>2. Relisted(h, C, L, a, y)
  BY AddRelists
<1> HIDE DEF y
<1>3. /\ Within(h, C, y, C, lo, hi)
      /\ \A c \in C : Size(y, c) = Size(h, c) /\ (Allocated(y, c) <=> Allocated(h, c))
  BY <1>1, <1>2, RelistedWithin
<1>4. GoodBut(y, C, L \ {a})
  BY <1>2 DEF Relisted
<1>5. \A c \in Free(y, C) : c \notin L \ {a}
  BY <1>3 DEF Free
<1>6. Good(y, C)
  <2> DEFINE M == L \ {a}
  <2> HIDE DEF M
  <2>1. GoodBut(y, C, M) /\ \A c \in Free(y, C) : c \notin M
    BY <1>4, <1>5 DEF M
  <2> QED BY <2>1, NoneLeft
<1>7. Restored(h, C, a, y, lo, hi)
  BY <1>2, <1>3, <1>6 DEF Relisted, Restored
<1> QED BY <1>7 DEF y

(* What free does: one chunk less.                                         *)
FreeSound(h, C, y, node) ==
  \E D : Swaps(h, C, y, D, {node}, {}) /\ (Evens(h, C) => Evens(y, D))

(* The first half of it: the chunk is marked and has its next neighbour.   *)
HalfFree(h, C, x, B, node, hi) ==
  /\ GoodBut(x, B, {node}) /\ node \in B \ {0, Top} /\ ~Allocated(x, node)
  /\ hi = node + Size(x, node) /\ hi \in C
  /\ Within(h, C, x, B, node, hi)
  /\ Those(h, C, node, hi) = {node}
  /\ Evens(h, C) => Evens(x, B)

(* The second half: its previous neighbour, and the list.                  *)
LEMMA SecondHalf ==
  ASSUME NEW h, NEW C, Good(h, C), NEW x, NEW B, NEW node, NEW hi, HalfFree(h, C, x, B, node, hi),
         node \in C \ {0, Top}
  PROVE  LET prev  == node - Preceding(x, node)
             total == Size(x, prev) + Size(x, node)
             z     == IF Allocated(x, prev) THEN x
                      ELSE OneChunk(Unlink(x, prev), prev, total, Preceding(x, prev), FALSE, hi)
         IN  FreeSound(h, C, mm_addfreechunk(z, IF Allocated(x, prev) THEN node ELSE prev), node)
<1> DEFINE prev == node - Preceding(x, node)
           total == Size(x, prev) + Size(x, node)
           x1 == Unlink(x, prev)
           glued == OneChunk(x1, prev, total, Preceding(x, prev), FALSE, hi)
           z  == IF Allocated(x, prev) THEN x ELSE glued
           y  == mm_addfreechunk(z, IF Allocated(x, prev) THEN node ELSE prev)
<1>1. /\ GoodBut(x, B, {node}) /\ node \in B \ {0, Top} /\ ~Allocated(x, node)
      /\ hi = node + Size(x, node) /\ hi \in C /\ Within(h, C, x, B, node, hi)
      /\ Those(h, C, node, hi) = {node} /\ (Evens(h, C) => Evens(x, B))
      /\ Chain(x, B) /\ B \subseteq Addrs /\ Chain(h, C) /\ C \subseteq Addrs
  BY DEF HalfFree, GoodBut, Chain, Good
<1>2. /\ node \in Nat \ {0} /\ Size(x, node) \in Nat /\ Size(x, node) >= 2 /\ hi \in Nat /\ node < hi
      /\ hi \in B /\ \A c \in B : c \in node .. hi - 1 <=> c = node
  BY <1>1, OneLies
<1>3. prev \in B \ {Top} /\ prev + Size(x, prev) = node /\ prev \in Nat /\ prev < node
      /\ Size(x, prev) \in Nat
  <2>1. prev \in B /\ Size(x, prev) = Preceding(x, node) /\ Size(x, prev) \in Nat \ {0}
    BY <1>1 DEF Chain
  <2>2. prev \in Addrs /\ node \in Addrs
    BY <1>1, <2>1
  <2> QED BY <2>1, <2>2, <1>2 DEF Addrs, Top
<1> HIDE DEF prev
<1>4. ASSUME Allocated(x, prev) PROVE FreeSound(h, C, y, node)
  <2>1. y = mm_addfreechunk(x, node)
    BY <1>4
  <2> DEFINE L == {node}
  <2>2. /\ GoodBut(x, B, L) /\ node \in Free(x, B) /\ node \in L
        /\ \A c \in Free(x, B) : c \in L => c = node
        /\ node \in Int /\ hi \in Int /\ node <= node /\ node + Size(x, node) <= hi
    BY <1>1, <1>2 DEF Free
  <2> HIDE DEF L, y
  <2>3. /\ Good(y, B) /\ Within(x, B, y, B, node, hi)
        /\ \A c \in B : Size(y, c) = Size(x, c) /\ (Allocated(y, c) <=> Allocated(x, c))
    BY <2>1, <2>2, RelistLast DEF Restored
  <2>4. Within(h, C, y, B, node, hi)
    BY <2>3, <1>1, WithinTwice
  <2>5. Those(y, B, node, hi) = {}
    BY <2>3, <1>1, <1>2 DEF Those, Alloc
  <2>6. Swaps(h, C, y, B, {node}, {})
    <3>1. Swaps(h, C, y, B, Those(h, C, node, hi), Those(y, B, node, hi))
      BY <2>3, <2>4, <1>1, <1>2, WithinSwaps
    <3> QED BY <3>1, <2>5, <1>1
  <2>7. Evens(h, C) => Evens(y, B)
    BY <2>3, <1>1 DEF Evens
  <2> QED BY <2>6, <2>7 DEF FreeSound
<1>5. ASSUME ~Allocated(x, prev) PROVE FreeSound(h, C, y, node)
  <2> DEFINE L == {node} \cup {prev}
             D == B \ {node}
  <2>1. y = mm_addfreechunk(glued, prev)
    BY <1>5
  <2> HIDE DEF y, L, D
  <2>2. prev \in B \ {0, Top} /\ prev # node
    BY <1>1, <1>3, <1>5 DEF Chain
  <2>3. GoodBut(x1, B, L) /\ x1.mem = x.mem
    BY <1>1, <2>2, UnlinkTakes DEF L
  <2>4. \A c \in B : Size(x1, c) = Size(x, c) /\ (Allocated(x1, c) <=> Allocated(x, c))
    BY <2>3, SameHeader
  <2> HIDE DEF x1
  <2>5. MergeSound(x1, B, L, glued, prev, node, FALSE)
    <3> DEFINE al == FALSE
    <3>1. /\ GoodBut(x1, B, L) /\ x1.mem = x.mem /\ prev \in B \ {0, Top} /\ node \in B \ {0, Top}
          /\ node = prev + Size(x1, prev) /\ prev \in L /\ node \in L /\ al \in BOOLEAN
      BY <1>1, <1>3, <2>2, <2>3, <2>4 DEF L
    <3>2. glued = OneChunk(x1, prev, Size(x1, prev) + Size(x1, node), Preceding(x, prev), al,
                           node + Size(x1, node))
      BY <1>1, <2>2, <2>4
    <3> HIDE DEF al, glued
    <3> QED BY <3>1, <3>2, MergeTwo, ZenonT(60) DEF al
  <2> HIDE DEF glued
  <2>6. /\ GoodBut(glued, D, (L \ {node}) \cup {prev}) /\ Within(x1, B, glued, D, prev, hi)
        /\ Size(glued, prev) = total /\ ~Allocated(glued, prev)
    BY <2>2, <2>4, <2>5, <1>1 DEF MergeSound, D
  <2>7. /\ GoodBut(glued, D, (L \ {node}) \cup {prev}) /\ prev \in Free(glued, D)
        /\ prev \in (L \ {node}) \cup {prev}
        /\ \A c \in Free(glued, D) : c \in (L \ {node}) \cup {prev} => c = prev
        /\ prev \in Int /\ hi \in Int /\ prev <= prev /\ prev + Size(glued, prev) <= hi
    BY <2>2, <2>6, <1>1, <1>2, <1>3 DEF Free, D, L
  <2>8. /\ Good(y, D) /\ Within(glued, D, y, D, prev, hi)
        /\ \A c \in D : Size(y, c) = Size(glued, c) /\ (Allocated(y, c) <=> Allocated(glued, c))
    <3> DEFINE M == (L \ {node}) \cup {prev}
    <3>1. /\ GoodBut(glued, D, M) /\ prev \in Free(glued, D) /\ prev \in M
          /\ \A c \in Free(glued, D) : c \in M => c = prev
          /\ prev \in Int /\ hi \in Int /\ prev <= prev /\ prev + Size(glued, prev) <= hi
      BY <2>7
    <3> HIDE DEF M, L, D
    <3>2. Restored(glued, D, prev, mm_addfreechunk(glued, prev), prev, hi)
      BY <3>1, RelistLast
    <3> QED BY <2>1, <3>2 DEF Restored
  <2>9. Within(x, B, y, D, prev, hi)
    <3>1. Within(x1, B, y, D, prev, hi)
      BY <2>6, <2>8, WithinTwice
    <3> QED BY <3>1, <2>3, <2>4 DEF Within
  <2>10. Within(h, C, x, B, prev, hi)
    <3>1. /\ node \in Int /\ hi \in Int /\ prev \in Int /\ prev <= node /\ hi <= hi
          /\ Within(h, C, x, B, node, hi) /\ C \subseteq Addrs /\ B \subseteq Addrs
      BY <1>1, <1>2, <1>3
    <3> QED BY <3>1, WithinWider, ZenonT(30)
  <2>11. Within(h, C, y, D, prev, hi)
    BY <2>9, <2>10, WithinTwice
  <2>12. \A c \in B : c \in prev .. hi - 1 <=> c \in {prev, node}
    <3>1. \A c \in B : c \in prev .. prev + Size(x, prev) - 1 <=> c = prev
      BY <1>1, <2>2, OneLies
    <3> QED BY <3>1, <1>1, <1>2, <1>3 DEF Addrs
  <2>13. prev \in C \ {0, Top} /\ ~Allocated(h, prev)
    <3>1. prev \notin node .. hi - 1
      BY <1>2, <1>3
    <3>2. prev \in C
      BY <3>1, <2>2, <1>1 DEF Within
    <3> QED BY <3>1, <3>2, <2>2, <1>1, <1>5 DEF Within
  <2>14. Those(h, C, prev, hi) = {node}
    <3>1. ASSUME NEW c \in C, c \in prev .. hi - 1, Allocated(h, c)
          PROVE  c \in Those(h, C, node, hi)
      <4>1. c # prev /\ c # 0 /\ c # Top
        BY <3>1, <2>13, <1>1, <1>2, <1>3 DEF Addrs
      <4>2. CASE c \in node .. hi - 1
        BY <3>1, <4>1, <4>2 DEF Those, Alloc
      <4>3. CASE c \notin node .. hi - 1
        <5>1. c \in B /\ c # node
          BY <4>3, <1>1, <1>2 DEF Within
        <5> QED BY <5>1, <4>1, <3>1, <2>12
      <4> QED BY <4>2, <4>3
    <3>2. node \in Alloc(h, C) /\ node \in prev .. hi - 1
      BY <1>1, <1>2, <1>3 DEF Those
    <3> QED BY <3>1, <3>2, <1>1 DEF Those, Alloc
  <2>15. Those(y, D, prev, hi) = {}
    BY <2>2, <2>6, <2>8, <2>12 DEF Those, Alloc, D
  <2>16. Swaps(h, C, y, D, {node}, {})
    <3>1. prev < hi
      BY <1>2, <1>3
    <3>2. Swaps(h, C, y, D, Those(h, C, prev, hi), Those(y, D, prev, hi))
      BY <3>1, <2>8, <2>11, <2>13, <1>1, WithinSwaps
    <3> QED BY <3>2, <2>14, <2>15
  <2>17. Evens(h, C) => Evens(y, D)
    <3> SUFFICES ASSUME Evens(h, C) PROVE Evens(y, D)
      OBVIOUS
    <3>1. total % 2 = 0
      BY <1>1, <1>2, <1>3, <2>2 DEF Evens
    <3>2. \A c \in D : c \in prev .. hi - 1 => Size(y, c) % 2 = 0
      BY <3>1, <2>6, <2>8, <2>12 DEF D
    <3> QED BY <3>2, <2>9, <1>1, EvensWithin
  <2> QED BY <2>16, <2>17 DEF FreeSound
<1>6. FreeSound(h, C, y, node)
  BY <1>4, <1>5
<1> QED BY <1>6 DEF prev

(* So free does, whichever of its neighbours are free.                     *)
LEMMA FreeSwaps ==
  ASSUME NEW h, NEW C, Good(h, C), NEW mem, mem - 1 \in Alloc(h, C)
  PROVE  FreeSound(h, C, free_section(h, mem), mem - 1)
<1> DEFINE node  == mem - 1
           size  == Size(h, node)
           next  == node + size
           beyond == next + Size(h, next)
           h1    == SetAlloc(h, node, FALSE)
           x1    == Unlink(h1, next)
           glued == OneChunk(x1, node, size + Size(h, next), Preceding(h, node), FALSE, beyond)
           h2    == IF Allocated(h1, next) THEN h1 ELSE glued
           after == IF Allocated(h1, next) THEN next ELSE beyond
           prev  == node - Preceding(h2, node)
           total == Size(h2, prev) + Size(h2, node)
           h3    == IF Allocated(h2, prev) THEN h2
                    ELSE OneChunk(Unlink(h2, prev), prev, total, Preceding(h2, prev), FALSE, after)
           y     == mm_addfreechunk(h3, IF Allocated(h2, prev) THEN node ELSE prev)
<1>1. free_section(h, mem) = y
  BY DEF free_section, OneChunk
<1> HIDE DEF node
<1>2. /\ node \in C \ {0, Top} /\ Allocated(h, node) /\ Chain(h, C) /\ GoodBut(h, C, {})
      /\ C \subseteq Addrs
  BY DEF Alloc, Good, GoodBut, Chain, node
<1>3. /\ node \in Nat \ {0} /\ size \in Nat /\ size >= 2 /\ next \in C \ {0} /\ next \in Nat
      /\ \A c \in C : c \in node .. next - 1 <=> c = node
  BY <1>2, OneLies
<1> HIDE DEF size, next
<1>4. Marked(h, C, {}, h1, node, FALSE)
  <2> DEFINE al == FALSE
             L == {}
  <2>1. al \in BOOLEAN /\ GoodBut(h, C, L) /\ h1 = SetAlloc(h, node, al)
    BY <1>2
  <2> HIDE DEF al, L, h1
  <2>2. Marked(h, C, L, SetAlloc(h, node, al), node, al)
    BY <2>1, <1>2, SetAllocMarks
  <2> QED BY <2>1, <2>2 DEF al, L
<1> HIDE DEF h1
<1>5. /\ GoodBut(h1, C, {node}) /\ ~Allocated(h1, node)
      /\ \A c \in C : Size(h1, c) = Size(h, c) /\ Preceding(h1, c) = Preceding(h, c)
      /\ \A c \in C \ {node} : Allocated(h1, c) <=> Allocated(h, c)
  <2>1. /\ GoodBut(h1, C, {} \cup {node}) /\ ~Allocated(h1, node)
        /\ \A c \in C : Size(h1, c) = Size(h, c) /\ Preceding(h1, c) = Preceding(h, c)
        /\ \A w \in Addrs \ {node} : h1.mem[w] = h.mem[w]
    BY <1>4 DEF Marked
  <2>2. ASSUME NEW c \in C \ {node} PROVE Allocated(h1, c) <=> Allocated(h, c)
    <3>1. h1.mem[c] = h.mem[c]
      BY <2>1, <1>2
    <3> QED BY <3>1, SameHeader
  <2> QED BY <2>1, <2>2
<1>6. node \in Int /\ next \in Int /\ node < next /\ node \in node .. next - 1 /\ next # node
  BY <1>3 DEF next
<1>7. Within(h, C, h1, C, node, next)
  BY <1>4, <1>6, MarkedWithin, ZenonT(30)
<1>8. ASSUME Allocated(h1, next) PROVE HalfFree(h, C, h1, C, node, next)
  <2>1. Those(h, C, node, next) = {node}
    BY <1>2, <1>3, <1>6 DEF Those, Alloc
  <2>2. Evens(h, C) => Evens(h1, C)
    BY <1>5 DEF Evens
  <2>3. next = node + Size(h1, node)
    BY <1>2, <1>5 DEF next, size
  <2> QED BY <2>1, <2>2, <2>3, <1>2, <1>3, <1>5, <1>7 DEF HalfFree
<1>9. ASSUME ~Allocated(h1, next) PROVE HalfFree(h, C, glued, C \ {next}, node, beyond)
  <2> DEFINE L == {node} \cup {next}
             D == C \ {next}
  <2> HIDE DEF x1, glued, L, D
  <2>1. next \in C \ {0, Top} /\ ~Allocated(h, next)
    BY <1>2, <1>3, <1>5, <1>6, <1>9 DEF Chain
  <2>2. /\ Size(h, next) \in Nat /\ Size(h, next) >= 2 /\ beyond \in C /\ beyond \in Nat
        /\ \A c \in C : c \in next .. beyond - 1 <=> c = next
    BY <1>2, <2>1, OneLies
  <2> HIDE DEF beyond
  <2>3. GoodBut(x1, C, L) /\ x1.mem = h1.mem
    BY <1>5, <2>1, UnlinkTakes DEF L, x1
  <2>4. \A c \in C : Size(x1, c) = Size(h, c) /\ (Allocated(x1, c) <=> Allocated(h1, c))
    BY <2>3, <1>5, SameHeader
  <2>5. MergeSound(x1, C, L, glued, node, next, FALSE)
    <3> DEFINE al == FALSE
    <3>1. /\ GoodBut(x1, C, L) /\ x1.mem = h1.mem /\ node \in C \ {0, Top} /\ next \in C \ {0, Top}
          /\ next = node + Size(x1, node) /\ node \in L /\ next \in L /\ al \in BOOLEAN
      BY <1>2, <2>1, <2>3, <2>4 DEF L, next, size
    <3>2. glued = OneChunk(x1, node, Size(x1, node) + Size(x1, next), Preceding(h1, node), al,
                           next + Size(x1, next))
      BY <1>2, <1>5, <2>1, <2>4 DEF glued, size, beyond
    <3> HIDE DEF al
    <3> QED BY <3>1, <3>2, MergeTwo, ZenonT(60) DEF al
  <2>6. /\ GoodBut(glued, D, (L \ {next}) \cup {node}) /\ Within(x1, C, glued, D, node, beyond)
        /\ Size(glued, node) = size + Size(h, next) /\ ~Allocated(glued, node)
    BY <1>2, <2>1, <2>4, <2>5 DEF MergeSound, D, size, beyond
  <2>7. (L \ {next}) \cup {node} = {node}
    BY <1>6 DEF L
  <2>8. beyond = node + Size(glued, node)
    BY <2>6, <2>2, <1>3 DEF beyond, next
  <2>9. Within(h, C, glued, D, node, beyond)
    <3>1. /\ node \in Int /\ next \in Int /\ beyond \in Int /\ node <= node /\ next <= beyond
          /\ C \subseteq Addrs /\ Within(h, C, h1, C, node, next)
      BY <1>2, <1>3, <1>7, <2>2 DEF beyond
    <3>2. Within(h, C, h1, C, node, beyond)
      BY <3>1, WithinWider, ZenonT(30)
    <3>3. Within(h1, C, glued, D, node, beyond)
      BY <2>3, <2>4, <2>6, <1>5 DEF Within
    <3> QED BY <3>2, <3>3, WithinTwice
  <2>10. \A c \in C : c \in node .. beyond - 1 <=> c \in {node, next}
    BY <1>2, <1>3, <2>2, <2>8 DEF Addrs, beyond, next
  <2>11. Those(h, C, node, beyond) = {node}
    BY <2>1, <2>10, <1>2 DEF Those, Alloc
  <2>12. Evens(h, C) => Evens(glued, D)
    <3> SUFFICES ASSUME Evens(h, C) PROVE Evens(glued, D)
      OBVIOUS
    <3>1. (size + Size(h, next)) % 2 = 0
      BY <1>2, <1>3, <2>1, <2>2 DEF Evens, size
    <3>2. \A c \in D : c \in node .. beyond - 1 => Size(glued, c) % 2 = 0
      BY <3>1, <2>6, <2>10 DEF D
    <3> QED BY <3>2, <2>9, EvensWithin
  <2>13. node \in D \ {0, Top}
    BY <1>2, <1>6 DEF D
  <2> QED BY <2>2, <2>6, <2>7, <2>8, <2>9, <2>11, <2>12, <2>13 DEF HalfFree, D
<1>10. \E B : HalfFree(h, C, h2, B, node, after)
  BY <1>8, <1>9
<1> HIDE DEF h2, after
<1>11. PICK B : HalfFree(h, C, h2, B, node, after)
  BY <1>10
<1>12. FreeSound(h, C, y, node)
  BY <1>2, <1>11, SecondHalf
<1> QED BY <1>1, <1>12 DEF node

-----------------------------------------------------------------------------
(* What shrinking and extending do: the chunk has n words, as many of      *)
(* which as it had before are what they were.                              *)
ResizeSound(h, C, y, node, n) ==
  \E D : /\ Swaps(h, C, y, D, {node}, {node})
         /\ Size(y, node) = n
         /\ \A w \in node + 1 .. node + n - 1 : y.mem[w] = h.mem[w]
         /\ Evens(h, C) /\ n % 2 = 0 => Evens(y, D)

(* Nothing is done.                                                        *)
LEMMA ResizeToSame ==
  ASSUME NEW h, NEW C, Good(h, C), NEW node \in Alloc(h, C)
  PROVE  ResizeSound(h, C, h, node, Size(h, node))
<1>1. Swaps(h, C, h, C, {node}, {node})
  BY DEF Swaps, SameBlock
<1> QED BY <1>1 DEF ResizeSound

(* A chunk is cut from it and the free ones behind it.                     *)
LEMMA ResizeByCut ==
  ASSUME NEW h, NEW C, Good(h, C), NEW node \in Alloc(h, C), NEW x, NEW L, GoodBut(x, C, L), x.mem = h.mem,
         NEW hi \in C, NEW n1 \in Nat, NEW n2 \in Nat, n1 >= FreeNode, n2 >= FreeNode, node + n1 + n2 = hi,
         \A c \in C : c \in node .. hi - 1 => c = node \/ (c \in L /\ ~Allocated(h, c)),
         L \subseteq node + 1 .. hi - 1,
         Evens(h, C) /\ n1 % 2 = 0 => n2 % 2 = 0
  PROVE  ResizeSound(h, C, mm_addfreechunk(TwoChunks(x, node, n1, Preceding(h, node), Allocated(h, node),
                                                     n2, FALSE, hi), node + n1), node, n1)
<1> DEFINE al == Allocated(h, node)
           mid == node + n1
           y == mm_addfreechunk(TwoChunks(x, node, n1, Preceding(h, node), al, n2, FALSE, hi), mid)
           D == CutAt(C, node, mid, hi)
           M == (L \cup {node}) \ {mid}
<1>1. /\ node \in C \ {0, Top} /\ al /\ al \in BOOLEAN /\ Chain(h, C) /\ C \subseteq Addrs
      /\ node \in Nat /\ hi \in Nat /\ node < mid /\ mid < hi /\ mid \in Nat /\ node # mid
      /\ mid \in node .. hi - 1 /\ node \in node .. hi - 1 /\ node < hi
      /\ node \in Int /\ hi \in Int /\ mid # Top /\ mid # 0
  BY HeapAssumption DEF Alloc, Allocated, Good, GoodBut, Chain, Addrs, FreeNode, Top
<1>2. \A c \in C : Size(x, c) = Size(h, c) /\ (Allocated(x, c) <=> Allocated(h, c))
  BY SameHeader
<1>3. \A c \in Free(x, C) : c \in node .. hi - 1 => c \in L
  BY <1>1, <1>2 DEF Free
<1> HIDE DEF al, y
<1>4. CutSound(x, C, L, y, node, n1, n2, al)
  <2>1. /\ GoodBut(x, C, L) /\ x.mem = h.mem /\ node \in C \ {0, Top} /\ hi \in C
        /\ n1 \in Nat /\ n2 \in Nat /\ n1 >= FreeNode /\ n2 >= FreeNode
        /\ node + n1 + n2 = hi /\ al \in BOOLEAN
        /\ \A c \in Free(x, C) : c \in node .. hi - 1 => c \in L
    BY <1>1, <1>3
  <2> QED BY <2>1, CutOff, ZenonT(60) DEF y
<1>5. /\ GoodBut(y, D, M) /\ Within(x, C, y, D, node, hi)
      /\ Size(y, node) = n1 /\ Allocated(y, node) /\ Size(y, mid) = n2 /\ ~Allocated(y, mid)
      /\ \A w \in node + 1 .. mid - 1 : y.mem[w] = x.mem[w]
  BY <1>1, <1>4 DEF CutSound
<1>6. \A c \in D : c \in node .. hi - 1 <=> c \in {node, mid}
  BY <1>1 DEF CutAt, Addrs
<1>7. Good(y, D)
  <2>1. \A c \in Free(y, D) : c \notin M
    <3> TAKE c \in Free(y, D)
    <3>1. c \in D /\ c # node
      BY <1>5 DEF Free
    <3>2. c \in L => c = mid
      BY <3>1, <1>1, <1>6 DEF Addrs
    <3> QED BY <3>1, <3>2
  <2> HIDE DEF M, D
  <2> QED BY <2>1, <1>5, NoneLeft
<1>8. Within(h, C, y, D, node, hi)
  BY <1>2, <1>5 DEF Within
<1>9. node \in D /\ Those(h, C, node, hi) = {node} /\ Those(y, D, node, hi) = {node}
  <2>1. node \in D
    BY <1>1 DEF CutAt
  <2>2. Those(h, C, node, hi) = {node}
    BY <1>1 DEF Those, Alloc, al
  <2> QED BY <2>1, <2>2, <1>1, <1>5, <1>6 DEF Those, Alloc
<1> HIDE DEF D
<1>10. Swaps(h, C, y, D, {node}, {node})
  <2>1. Swaps(h, C, y, D, Those(h, C, node, hi), Those(y, D, node, hi))
    BY <1>1, <1>7, <1>8, WithinSwaps
  <2> QED BY <2>1, <1>9
<1>11. Evens(h, C) /\ n1 % 2 = 0 => Evens(y, D)
  <2> SUFFICES ASSUME Evens(h, C), n1 % 2 = 0 PROVE Evens(y, D)
    OBVIOUS
  <2>1. n2 % 2 = 0
    OBVIOUS
  <2>2. \A c \in D : c \in node .. hi - 1 => Size(y, c) % 2 = 0
    <3> TAKE c \in D
    <3> HAVE c \in node .. hi - 1
    <3>1. c = node \/ c = mid
      BY <1>6
    <3> QED BY <3>1, <2>1, <1>5
  <2> QED BY <2>2, <1>8, EvensWithin
<1>12. ResizeSound(h, C, y, node, n1)
  <2>1. Size(y, node) = n1 /\ \A w \in node + 1 .. node + n1 - 1 : y.mem[w] = h.mem[w]
    <3>1. node + 1 .. node + n1 - 1 = node + 1 .. mid - 1
      BY <1>1
    <3> QED BY <3>1, <1>5
  <2> QED BY <2>1, <1>10, <1>11 DEF ResizeSound
<1> QED BY <1>12 DEF y, al

(* mm_shrinkchunk, to some size that leaves no sliver.                     *)
LEMMA ShrinkResizes ==
  ASSUME NEW h, NEW C, Good(h, C), NEW node \in Alloc(h, C),
         NEW size \in Nat, size >= FreeNode, size <= Size(h, node)
  PROVE  \E n \in size .. Size(h, node) :
           /\ ResizeSound(h, C, mm_shrinkchunk(h, node, size), node, n)
           /\ n = size \/ n = Size(h, node)
<1> DEFINE next == node + Size(h, node)
           beyond == next + Size(h, next)
           cut(x, tail, after) ==
             mm_addfreechunk(TwoChunks(x, node, size, Preceding(h, node), Allocated(h, node),
                                       tail, FALSE, after), node + size)
           y == mm_shrinkchunk(h, node, size)
<1>1. y = IF ~Allocated(h, next)
          THEN cut(Unlink(h, next), Size(h, next) + Size(h, node) - size, beyond)
          ELSE IF Size(h, node) >= size + FreeNode THEN cut(h, Size(h, node) - size, next) ELSE h
  BY DEF mm_shrinkchunk, TwoChunks
<1> HIDE DEF y
<1>2. /\ node \in C \ {0, Top} /\ Chain(h, C) /\ GoodBut(h, C, {}) /\ C \subseteq Addrs
      /\ Allocated(h, node)
  BY DEF Alloc, Good, GoodBut, Chain
<1>3. /\ node \in Nat \ {0} /\ Size(h, node) \in Nat /\ next \in C \ {0} /\ next \in Nat
      /\ \A c \in C : c \in node .. next - 1 <=> c = node
  BY <1>2, OneLies
<1>4. size \in size .. Size(h, node) /\ Size(h, node) \in size .. Size(h, node)
  BY <1>3
<1> HIDE DEF next
<1>5. ASSUME ~Allocated(h, next) PROVE ResizeSound(h, C, y, node, size)
  <2> DEFINE L == {} \cup {next}
             x == Unlink(h, next)
             tail == Size(h, next) + Size(h, node) - size
  <2>1. next \in C \ {0, Top}
    BY <1>2, <1>3, <1>5 DEF Chain
  <2>2. /\ Size(h, next) \in Nat /\ Size(h, next) >= 2 /\ beyond \in C /\ beyond \in Nat
        /\ \A c \in C : c \in next .. beyond - 1 <=> c = next
    BY <1>2, <2>1, OneLies
  <2>3. GoodBut(x, C, L) /\ x.mem = h.mem
    BY <1>2, <2>1, UnlinkTakes
  <2>4. \A c \in C : c \in node .. beyond - 1 => c \in {node, next}
    BY <1>2, <1>3, <2>2 DEF Addrs, next
  <2>5. Evens(h, C) /\ size % 2 = 0 => tail % 2 = 0
    BY <1>2, <1>3, <2>1, <2>2 DEF Evens
  <2>6. /\ tail \in Nat /\ tail >= FreeNode /\ node + size + tail = beyond
        /\ next \in node + 1 .. beyond - 1
    BY <1>3, <2>2 DEF FreeNode, next
  <2>7. y = cut(x, tail, beyond)
    BY <1>1, <1>5
  <2>8. /\ \A c \in C : c \in node .. beyond - 1 => c = node \/ (c \in L /\ ~Allocated(h, c))
        /\ L \subseteq node + 1 .. beyond - 1
    BY <2>4, <2>6, <1>5
  <2> HIDE DEF L, x, tail, beyond
  <2>9. /\ GoodBut(x, C, L) /\ x.mem = h.mem /\ beyond \in C /\ size \in Nat /\ tail \in Nat
        /\ size >= FreeNode /\ tail >= FreeNode /\ node + size + tail = beyond
        /\ \A c \in C : c \in node .. beyond - 1 => c = node \/ (c \in L /\ ~Allocated(h, c))
        /\ L \subseteq node + 1 .. beyond - 1
        /\ Evens(h, C) /\ size % 2 = 0 => tail % 2 = 0
    BY <2>2, <2>3, <2>5, <2>6, <2>8
  <2>10. ResizeSound(h, C, cut(x, tail, beyond), node, size)
    BY <2>9, ResizeByCut, ZenonT(60)
  <2> QED BY <2>7, <2>10
<1>6. ASSUME Allocated(h, next), Size(h, node) >= size + FreeNode PROVE ResizeSound(h, C, y, node, size)
  <2> DEFINE L == {}
             tail == Size(h, node) - size
  <2>1. /\ tail \in Nat /\ tail >= FreeNode /\ node + size + tail = next
        /\ \A c \in C : c \in node .. next - 1 => c = node \/ (c \in L /\ ~Allocated(h, c))
        /\ L \subseteq node + 1 .. next - 1 /\ GoodBut(h, C, L) /\ h.mem = h.mem
    BY <1>2, <1>3, <1>6 DEF FreeNode, next
  <2>2. Evens(h, C) /\ size % 2 = 0 => tail % 2 = 0
    BY <1>2, <1>3 DEF Evens
  <2>3. y = cut(h, tail, next)
    BY <1>1, <1>6
  <2> HIDE DEF L, tail
  <2>4. next \in C /\ size \in Nat /\ size >= FreeNode
    BY <1>3
  <2>5. ResizeSound(h, C, cut(h, tail, next), node, size)
    BY <2>1, <2>2, <2>4, ResizeByCut, ZenonT(60)
  <2> QED BY <2>3, <2>5
<1>7. ASSUME Allocated(h, next), ~(Size(h, node) >= size + FreeNode)
      PROVE  ResizeSound(h, C, y, node, Size(h, node))
  <2>1. y = h
    BY <1>1, <1>7
  <2> QED BY <2>1, ResizeToSame
<1> QED BY <1>4, <1>5, <1>6, <1>7 DEF y

(* realloc into the next chunk, all of it or leaving room for a free node. *)
LEMMA ExtendUpResizes ==
  ASSUME NEW h, NEW C, Good(h, C), NEW node \in Alloc(h, C), ~Allocated(h, node + Size(h, node)),
         NEW take \in Nat \ {0}, Evens(h, C), take % 2 = 0,
         \/ take = Size(h, node + Size(h, node))
         \/ take + FreeNode <= Size(h, node + Size(h, node))
  PROVE  ResizeSound(h, C, ExtendUp(h, node, take), node, Size(h, node) + take)
<1> DEFINE next == node + Size(h, node)
           nextsize == Size(h, next)
           size == Size(h, node) + take
           beyond == next + nextsize
           x == Unlink(h, next)
           y == ExtendUp(h, node, take)
           L == {} \cup {next}
<1>1. y = IF take < nextsize
          THEN mm_addfreechunk(TwoChunks(x, node, size, Preceding(h, node), Allocated(h, node),
                                         nextsize - take, FALSE, beyond), node + size)
          ELSE OneChunk(x, node, size, Preceding(h, node), Allocated(h, node), beyond)
  BY DEF ExtendUp, TwoChunks, OneChunk
<1> HIDE DEF y
<1>2. /\ node \in C \ {0, Top} /\ Chain(h, C) /\ GoodBut(h, C, {}) /\ C \subseteq Addrs
      /\ Allocated(h, node) /\ Allocated(h, node) \in BOOLEAN
  BY DEF Alloc, Good, GoodBut, Chain, Allocated
<1>3. /\ node \in Nat \ {0} /\ Size(h, node) \in Nat /\ Size(h, node) >= 2 /\ next \in C \ {0} /\ next \in Nat
      /\ \A c \in C : c \in node .. next - 1 <=> c = node
  BY <1>2, OneLies
<1>4. next \in C \ {0, Top}
  BY <1>2, <1>3 DEF Chain
<1> HIDE DEF next
<1>5. /\ nextsize \in Nat /\ nextsize >= 2 /\ beyond \in C /\ beyond \in Nat
      /\ \A c \in C : c \in next .. beyond - 1 <=> c = next
  BY <1>2, <1>4, OneLies
<1>6. GoodBut(x, C, L) /\ x.mem = h.mem
  BY <1>2, <1>4, UnlinkTakes
<1>7. \A c \in C : c \in node .. beyond - 1 <=> c \in {node, next}
  BY <1>2, <1>3, <1>5 DEF Addrs, next
<1>8. /\ size \in Nat /\ size >= FreeNode /\ Size(h, node) % 2 = 0 /\ nextsize % 2 = 0 /\ size % 2 = 0
      /\ next \in node + 1 .. beyond - 1 /\ node # next /\ node \in node .. beyond - 1
      /\ take = nextsize \/ take + FreeNode <= nextsize
  BY <1>2, <1>3, <1>4, <1>5 DEF FreeNode, Evens, next
<1>9. \A c \in C : Size(x, c) = Size(h, c) /\ (Allocated(x, c) <=> Allocated(h, c))
  BY <1>6, SameHeader
<1>10. ASSUME take < nextsize PROVE ResizeSound(h, C, y, node, size)
  <2> DEFINE tail == nextsize - take
  <2>1. /\ tail \in Nat /\ tail >= FreeNode /\ node + size + tail = beyond /\ tail % 2 = 0
    BY <1>3, <1>5, <1>8, <1>10 DEF FreeNode, next
  <2>2. y = mm_addfreechunk(TwoChunks(x, node, size, Preceding(h, node), Allocated(h, node),
                                      tail, FALSE, beyond), node + size)
    BY <1>1, <1>10
  <2>3. /\ \A c \in C : c \in node .. beyond - 1 => c = node \/ (c \in L /\ ~Allocated(h, c))
        /\ L \subseteq node + 1 .. beyond - 1
    BY <1>7, <1>8 DEF next
  <2> HIDE DEF tail, L, x, size, beyond
  <2>4. /\ GoodBut(x, C, L) /\ x.mem = h.mem /\ beyond \in C /\ size \in Nat /\ tail \in Nat
        /\ size >= FreeNode /\ tail >= FreeNode /\ node + size + tail = beyond
        /\ \A c \in C : c \in node .. beyond - 1 => c = node \/ (c \in L /\ ~Allocated(h, c))
        /\ L \subseteq node + 1 .. beyond - 1
        /\ Evens(h, C) /\ size % 2 = 0 => tail % 2 = 0
    BY <1>5, <1>6, <1>8, <2>1, <2>3
  <2>5. ResizeSound(h, C, mm_addfreechunk(TwoChunks(x, node, size, Preceding(h, node), Allocated(h, node),
                                                    tail, FALSE, beyond), node + size), node, size)
    BY <2>4, ResizeByCut, ZenonT(60)
  <2> QED BY <2>2, <2>5
<1>11. ASSUME ~(take < nextsize) PROVE ResizeSound(h, C, y, node, size)
  <2> DEFINE al == Allocated(h, node)
             D == C \ {next}
  <2>1. take = nextsize
    BY <1>5, <1>8, <1>11 DEF FreeNode
  <2>2. MergeSound(x, C, L, y, node, next, al)
    <3>1. /\ GoodBut(x, C, L) /\ x.mem = h.mem /\ node \in C \ {0, Top} /\ next \in C \ {0, Top}
          /\ next = node + Size(x, node) /\ (node \in L \/ Allocated(x, node)) /\ next \in L
          /\ al \in BOOLEAN
      BY <1>2, <1>4, <1>6, <1>9 DEF next
    <3>2. y = OneChunk(x, node, Size(x, node) + Size(x, next), Preceding(h, node), al, next + Size(x, next))
      BY <1>1, <1>2, <1>4, <1>9, <1>11, <2>1
    <3> HIDE DEF x, L, al
    <3> QED BY <3>1, <3>2, MergeTwo, ZenonT(60)
  <2>3. /\ GoodBut(y, D, (L \ {next}) \cup {node}) /\ Within(x, C, y, D, node, beyond)
        /\ Size(y, node) = size /\ Allocated(y, node)
        /\ \A w \in node + 1 .. beyond - 1 : y.mem[w] = x.mem[w]
    <3>1. next + Size(x, next) = beyond /\ Size(x, node) + Size(x, next) = size
      BY <1>2, <1>4, <1>9, <2>1
    <3> HIDE DEF x, L, al, size, beyond
    <3>2. /\ GoodBut(y, C \ {next}, (L \ {next}) \cup {node})
          /\ Within(x, C, y, C \ {next}, node, next + Size(x, next))
          /\ Size(y, node) = Size(x, node) + Size(x, next) /\ (Allocated(y, node) <=> al)
          /\ \A w \in node + 1 .. next + Size(x, next) - 1 : y.mem[w] = x.mem[w]
      BY <2>2 DEF MergeSound
    <3>3. node + 1 .. next + Size(x, next) - 1 = node + 1 .. beyond - 1
      BY <3>1, <1>4, <1>9, <1>3, <1>5, SMTT(60)
    <3> QED BY <3>1, <3>2, <3>3, <1>2 DEF al
  <2>4. Good(y, D)
    <3> DEFINE M == (L \ {next}) \cup {node}
    <3>1. GoodBut(y, D, M) /\ \A c \in Free(y, D) : c \notin M
      BY <2>3 DEF Free
    <3> HIDE DEF M, D
    <3> QED BY <3>1, NoneLeft
  <2>5. Within(h, C, y, D, node, beyond)
    BY <2>3, <1>6, <1>9 DEF Within
  <2>6. Those(h, C, node, beyond) = {node} /\ Those(y, D, node, beyond) = {node}
    BY <1>2, <1>4, <1>7, <1>8, <2>3 DEF Those, Alloc, next
  <2>7. Swaps(h, C, y, D, {node}, {node})
    <3>1. beyond \in C /\ node < beyond
      BY <1>3, <1>5, <1>8
    <3>2. Swaps(h, C, y, D, Those(h, C, node, beyond), Those(y, D, node, beyond))
      <4> HIDE DEF D, beyond
      <4> QED BY <3>1, <2>4, <2>5, <1>2, WithinSwaps
    <3> QED BY <3>2, <2>6
  <2>8. Evens(y, D)
    <3>1. \A c \in D : c \in node .. beyond - 1 => Size(y, c) % 2 = 0
      BY <1>7, <1>8, <2>3
    <3> HIDE DEF D, beyond
    <3> QED BY <3>1, <2>5, EvensWithin
  <2>9. \A w \in node + 1 .. node + size - 1 : y.mem[w] = h.mem[w]
    <3>1. node + 1 .. node + size - 1 = node + 1 .. beyond - 1
      <4>1. node + size = beyond /\ node \in Nat /\ size \in Nat /\ beyond \in Nat
        BY <1>3, <1>5, <1>8, <2>1 DEF next
      <4> HIDE DEF size, beyond
      <4> QED BY <4>1
    <3> QED BY <3>1, <2>3, <1>6
  <2> QED BY <2>3, <2>7, <2>8, <2>9 DEF ResizeSound
<1>12. ResizeSound(h, C, y, node, size)
  BY <1>10, <1>11
<1> QED BY <1>12 DEF y

(* The chunks from lo up to hi become two, in no list yet.                 *)
TwoSound(x, C, L, z, lo, n1, n2, a1, a2) ==
  /\ GoodBut(z, CutAt(C, lo, lo + n1, lo + n1 + n2), L \cup {lo, lo + n1})
  /\ Within(x, C, z, CutAt(C, lo, lo + n1, lo + n1 + n2), lo, lo + n1 + n2)
  /\ Size(z, lo) = n1 /\ (Allocated(z, lo) <=> a1)
  /\ Size(z, lo + n1) = n2 /\ (Allocated(z, lo + n1) <=> a2)
  /\ \A w \in Addrs \ {lo, lo + n1, lo + n1 + n2} : z.mem[w] = x.mem[w]

(* With either mark on either.                                             *)
LEMMA CutInTwo ==
  ASSUME NEW x, NEW C, NEW L, GoodBut(x, C, L), NEW h, x.mem = h.mem,
         NEW lo \in C \ {0, Top}, NEW hi \in C, NEW n1 \in Nat, NEW n2 \in Nat,
         n1 >= FreeNode, n2 >= FreeNode, lo + n1 + n2 = hi, NEW a1 \in BOOLEAN, NEW a2 \in BOOLEAN,
         \A c \in Free(x, C) : c \in lo .. hi - 1 => c \in L
  PROVE  TwoSound(x, C, L, TwoChunks(x, lo, n1, Preceding(h, lo), a1, n2, a2, hi), lo, n1, n2, a1, a2)
<1> DEFINE mid == lo + n1
           z == TwoChunks(x, lo, n1, Preceding(h, lo), a1, n2, a2, hi)
           D == CutAt(C, lo, mid, hi)
<1>1. /\ C \subseteq Addrs /\ lo \in Addrs /\ hi \in Addrs /\ IsHeap(x) /\ Chain(x, C)
      /\ n1 \in Nat \ {0} /\ n2 \in Nat \ {0} /\ lo < hi /\ mid \in lo + 1 .. hi
      /\ mid < hi /\ mid - lo = n1 /\ hi - mid = n2 /\ 0 < lo /\ hi <= Top /\ mid \in Addrs
      /\ lo # hi /\ mid # hi
  BY HeapAssumption DEF GoodBut, Chain, FreeNode, Addrs, Top
<1>2. Recut(x, z, lo, mid, hi, a1, a2)
  <2>1. Recut(x, TwoChunks(x, lo, n1, Preceding(h, lo), a1, n2, a2, hi), lo, lo + n1, hi, a1, a2)
    BY <1>1, TwoChunksRecut
  <2> QED BY <2>1
<1> HIDE DEF z, mid
<1>3. \A w \in Addrs \ {lo, mid, hi} : z.mem[w] = x.mem[w]
  BY <1>2 DEF Recut
<1>4. RecutSound(x, C, L, z, lo, mid, hi, a1, a2)
  <2>1. mid - lo >= FreeNode /\ (mid < hi => hi - mid >= FreeNode)
    BY <1>1
  <2> QED BY <1>1, <1>2, <2>1, RecutChunks
<1>5. /\ Size(z, lo) = n1 /\ (Allocated(z, lo) <=> a1)
      /\ Size(z, mid) = n2 /\ (Allocated(z, mid) <=> a2)
      /\ GoodBut(z, D, L \cup ({lo, mid} \ {hi}))
  BY <1>1, <1>4 DEF RecutSound
<1>6. {lo, mid} \ {hi} = {lo, mid}
  BY <1>1
<1>7. D \ (lo .. hi - 1) = C \ (lo .. hi - 1)
  BY <1>1 DEF CutAt, Addrs
<1>8. Within(x, C, z, D, lo, hi)
  <2>1. \A w \in Addrs : w < lo \/ hi < w => z.mem[w] = x.mem[w]
    BY <1>1, <1>3 DEF Addrs
  <2>2. \A c \in C \ (lo .. hi - 1) : Size(z, c) = Size(x, c) /\ (Allocated(z, c) <=> Allocated(x, c))
    BY <1>4 DEF RecutSound
  <2> HIDE DEF D
  <2> QED BY <2>1, <2>2, <1>7 DEF Within
<1>9. GoodBut(z, D, L \cup {lo, mid})
  BY <1>5, <1>6
<1>10. TwoSound(x, C, L, z, lo, n1, n2, a1, a2)
  <2>1. hi = lo + n1 + n2
    OBVIOUS
  <2> QED BY <2>1, <1>3, <1>5, <1>8, <1>9 DEF TwoSound, mid
<1> QED BY <1>10 DEF z, mid

(* What moving a chunk to newnode does, if n words are asked for: the      *)
(* words that the old one had and the new one has room for are moved.      *)
MoveSound(h, C, y, node, newnode, n) ==
  \E D : /\ Swaps(h, C, y, D, {node}, {newnode})
         /\ Size(y, newnode) >= n
         /\ \A i \in 1 .. Size(h, node) - 1 : i < n => y.mem[newnode + i] = h.mem[node + i]
         /\ Evens(y, D)

(* realloc into the previous chunk, before the words are moved.            *)
GrowSound(h, C, y, node, newnode, n) ==
  \E D : /\ Swaps(h, C, y, D, {node}, {newnode})
         /\ Size(y, newnode) = n
         /\ \A w \in node + 1 .. node + Size(h, node) - 1 : y.mem[w] = h.mem[w]
         /\ LET next == node + Size(h, node)
            IN  Size(y, next) = Size(h, next) /\ (Allocated(y, next) <=> Allocated(h, next))
         /\ Evens(y, D)

(* GrowDown gives the chunk the words before it and leaves its own words   *)
(* where they are; the previous chunk stays a free chunk or is used up.    *)
LEMMA GrowDownGrows ==
  ASSUME NEW h, NEW C, Good(h, C), NEW node \in Alloc(h, C),
         ~Allocated(h, node - Preceding(h, node)), NEW take \in Nat \ {0}, Evens(h, C), take % 2 = 0,
         \/ take = Size(h, node - Preceding(h, node))
         \/ take + FreeNode <= Size(h, node - Preceding(h, node))
  PROVE  GrowSound(h, C, GrowDown(h, node, take), node, node - take, Size(h, node) + take)
<1> DEFINE prev == node - Preceding(h, node)
           newnode == node - take
           next == node + Size(h, node)
           size == Size(h, node) + take
           part == Size(h, prev) - take
           x == Unlink(h, prev)
           L == {} \cup {prev}
           y == GrowDown(h, node, take)
<1>1. y = IF take < Size(h, prev)
          THEN mm_addfreechunk(
                 SetPreceding(SetHeader(SetHeader(x, prev, part, Preceding(h, prev), FALSE),
                                        newnode, size, part, TRUE), next, size), prev)
          ELSE OneChunk(x, prev, size, Preceding(h, prev), TRUE, next)
  BY DEF GrowDown, OneChunk
<1> HIDE DEF y
<1>2. /\ node \in C \ {0, Top} /\ Chain(h, C) /\ GoodBut(h, C, {}) /\ C \subseteq Addrs
      /\ Allocated(h, node)
  BY DEF Alloc, Good, GoodBut, Chain
<1>3. /\ node \in Nat \ {0} /\ Size(h, node) \in Nat /\ Size(h, node) >= 2 /\ next \in C \ {0} /\ next \in Nat
      /\ \A c \in C : c \in node .. next - 1 <=> c = node
  BY <1>2, OneLies
<1>4. prev \in C \ {0, Top} /\ prev + Size(h, prev) = node
  <2>1. prev \in C /\ Size(h, prev) = Preceding(h, node)
    BY <1>2 DEF Chain
  <2>2. prev # 0 /\ prev # Top
    BY <1>2 DEF Chain
  <2>4. prev = node - Size(h, prev)
    BY <2>1
  <2> HIDE DEF prev
  <2>3. Size(h, prev) \in Nat /\ prev \in Nat
    BY <2>1, <1>2 DEF Chain, Addrs
  <2>5. prev + Size(h, prev) = node
    BY <2>3, <2>4, <1>3
  <2> QED BY <2>1, <2>2, <2>5
<1>5. ~Allocated(h, prev) /\ (take = Size(h, prev) \/ take + FreeNode <= Size(h, prev))
  OBVIOUS
<1> HIDE DEF prev, next
<1>6. /\ prev \in Nat \ {0} /\ Size(h, prev) \in Nat /\ Size(h, prev) >= 2
      /\ \A c \in C : c \in prev .. prev + Size(h, prev) - 1 <=> c = prev
  BY <1>2, <1>4, OneLies
<1>7. GoodBut(x, C, L) /\ x.mem = h.mem
  BY <1>2, <1>4, UnlinkTakes
<1>8. \A c \in C : c \in prev .. next - 1 <=> c \in {prev, node}
  BY <1>2, <1>3, <1>4, <1>6 DEF Addrs, next
<1>9. /\ size \in Nat /\ size >= FreeNode /\ Size(h, node) % 2 = 0 /\ Size(h, prev) % 2 = 0 /\ size % 2 = 0
      /\ prev # node /\ node \in prev .. next - 1 /\ prev < next /\ newnode \in Nat
      /\ prev \in Int /\ next \in Int /\ prev \in prev .. next - 1
  BY <1>2, <1>3, <1>4, <1>5, <1>6 DEF FreeNode, Evens, next
<1>10. \A c \in C : Size(x, c) = Size(h, c) /\ (Allocated(x, c) <=> Allocated(h, c))
  BY <1>7, SameHeader
<1>11. Those(h, C, prev, next) = {node}
  BY <1>2, <1>5, <1>8, <1>9 DEF Those, Alloc
<1>12. ASSUME NEW D, Good(y, D), Within(h, C, y, D, prev, next), Those(y, D, prev, next) = {newnode},
              Size(y, newnode) = size, \A w \in node + 1 .. next - 1 : y.mem[w] = h.mem[w],
              \A c \in D : c \in prev .. next - 1 => Size(y, c) % 2 = 0
       PROVE  GrowSound(h, C, y, node, newnode, size)
  <2>1. Swaps(h, C, y, D, {node}, {newnode})
    <3>1. Swaps(h, C, y, D, Those(h, C, prev, next), Those(y, D, prev, next))
      BY <1>2, <1>3, <1>4, <1>9, <1>12, WithinSwaps
    <3> QED BY <3>1, <1>11, <1>12
  <2>2. Evens(y, D)
    BY <1>12, EvensWithin
  <2>3. Size(y, next) = Size(h, next) /\ (Allocated(y, next) <=> Allocated(h, next))
    <3>1. next \in C \ (prev .. next - 1)
      BY <1>3
    <3> QED BY <3>1, <1>12 DEF Within
  <2>4. \A w \in node + 1 .. node + Size(h, node) - 1 : y.mem[w] = h.mem[w]
    <3>1. node + 1 .. node + Size(h, node) - 1 = node + 1 .. next - 1
      BY <1>3 DEF next
    <3> QED BY <3>1, <1>12
  <2> HIDE DEF newnode, size
  <2> QED BY <2>1, <2>2, <2>3, <2>4, <1>12 DEF GrowSound, next
<1>13. ASSUME take < Size(h, prev) PROVE GrowSound(h, C, y, node, newnode, size)
  <2> DEFINE D == CutAt(C, prev, newnode, next)
             a1 == FALSE
             a2 == TRUE
             z == TwoChunks(x, prev, part, Preceding(h, prev), a1, size, a2, next)
             M == L \cup {prev, newnode}
  <2>1. part \in Nat /\ part >= FreeNode /\ prev + part + size = next /\ prev + part = newnode /\ part % 2 = 0
    BY <1>3, <1>4, <1>5, <1>6, <1>9, <1>13 DEF FreeNode, next
  <2>2. y = mm_addfreechunk(z, prev)
    BY <2>1, <1>1, <1>13 DEF TwoChunks
  <2>3. TwoSound(x, C, L, z, prev, part, size, a1, a2)
    <3>1. /\ GoodBut(x, C, L) /\ x.mem = h.mem /\ prev \in C \ {0, Top} /\ next \in C
          /\ part \in Nat /\ size \in Nat /\ part >= FreeNode /\ size >= FreeNode
          /\ prev + part + size = next /\ a1 \in BOOLEAN /\ a2 \in BOOLEAN
          /\ \A c \in Free(x, C) : c \in prev .. next - 1 => c \in L
      BY <1>2, <1>3, <1>4, <1>7, <1>8, <1>9, <1>10, <2>1 DEF Free
    <3> HIDE DEF x, L, part, size, a1, a2
    <3> QED BY <3>1, CutInTwo
  <2> HIDE DEF z, part
  <2>4. /\ GoodBut(z, D, M) /\ Within(x, C, z, D, prev, next)
        /\ Size(z, prev) = part /\ ~Allocated(z, prev)
        /\ Size(z, newnode) = size /\ Allocated(z, newnode)
        /\ \A w \in Addrs \ {prev, newnode, next} : z.mem[w] = x.mem[w]
    <3> HIDE DEF x, L, size, newnode
    <3> QED BY <2>1, <2>3 DEF TwoSound
  <2>5. /\ newnode \in prev + 1 .. next - 1 /\ newnode # prev /\ newnode < node
        /\ \A c \in D : c \in prev .. next - 1 <=> c \in {prev, newnode}
        /\ prev \in D /\ newnode \in D /\ newnode \in prev .. next - 1 /\ newnode # 0 /\ newnode # Top
        /\ D \subseteq Addrs
    <3>1. newnode \in prev + 1 .. next - 1 /\ newnode # prev /\ newnode < node /\ next <= Top
      BY <2>1, <1>2, <1>3, <1>6, <1>9 DEF FreeNode, Addrs
    <3>2. D \subseteq Addrs
      BY <2>4 DEF GoodBut, Chain
    <3> HIDE DEF newnode
    <3>3. newnode # 0 /\ newnode # Top
      BY <3>1, <1>6, <1>9, HeapAssumption DEF Top
    <3> QED BY <3>1, <3>2, <3>3, <1>2, <1>4, <1>9 DEF CutAt, Addrs
  <2>6. /\ Good(y, D) /\ Within(z, D, y, D, prev, next)
        /\ \A c \in D : Size(y, c) = Size(z, c) /\ (Allocated(y, c) <=> Allocated(z, c))
        /\ \A w \in Addrs : w <= prev \/ prev + Size(z, prev) <= w => y.mem[w] = z.mem[w]
    <3>1. /\ GoodBut(z, D, M) /\ prev \in Free(z, D) /\ prev \in M
          /\ \A c \in Free(z, D) : c \in M => c = prev
          /\ prev <= prev /\ prev + Size(z, prev) <= next /\ prev \in Int /\ next \in Int
      BY <2>1, <2>4, <2>5, <1>9 DEF Free
    <3> HIDE DEF M, D
    <3>2. Restored(z, D, prev, mm_addfreechunk(z, prev), prev, next)
      BY <3>1, RelistLast
    <3> QED BY <3>2, <2>2 DEF Restored
  <2> HIDE DEF D
  <2>7. Within(h, C, y, D, prev, next)
    <3>1. Within(x, C, y, D, prev, next)
      BY <2>4, <2>6, WithinTwice
    <3> QED BY <3>1, <1>7, <1>10 DEF Within
  <2>8. Those(y, D, prev, next) = {newnode}
    BY <2>4, <2>5, <2>6 DEF Those, Alloc
  <2>9. \A w \in node + 1 .. next - 1 : y.mem[w] = h.mem[w]
    <3> TAKE w \in node + 1 .. next - 1
    <3>1. w \in Addrs /\ w \notin {prev, newnode, next} /\ prev + Size(z, prev) <= w
      BY <2>1, <2>4, <2>5, <1>2, <1>3, <1>6, <1>9, HeapAssumption DEF Addrs, Top
    <3> QED BY <3>1, <2>4, <2>6, <1>7
  <2>10. \A c \in D : c \in prev .. next - 1 => Size(y, c) % 2 = 0
    BY <2>1, <2>4, <2>5, <2>6, <1>9
  <2>11. Size(y, newnode) = size
    BY <2>4, <2>5, <2>6
  <2> QED BY <2>6, <2>7, <2>8, <2>9, <2>10, <2>11, <1>12
<1>14. ASSUME ~(take < Size(h, prev)) PROVE GrowSound(h, C, y, node, newnode, size)
  <2> DEFINE al == TRUE
             D == C \ {node}
  <2>1. take = Size(h, prev) /\ newnode = prev
    BY <1>3, <1>4, <1>5, <1>6, <1>14 DEF FreeNode
  <2>2. MergeSound(x, C, L, y, prev, node, al)
    <3>1. /\ GoodBut(x, C, L) /\ x.mem = h.mem /\ prev \in C \ {0, Top} /\ node \in C \ {0, Top}
          /\ node = prev + Size(x, prev) /\ prev \in L /\ (node \in L \/ Allocated(x, node))
          /\ al \in BOOLEAN
      BY <1>2, <1>4, <1>7, <1>10
    <3>2. y = OneChunk(x, prev, Size(x, prev) + Size(x, node), Preceding(h, prev), al, node + Size(x, node))
      <4>1. Size(x, prev) + Size(x, node) = size /\ node + Size(x, node) = next
        BY <1>2, <1>3, <1>4, <1>6, <1>10, <2>1 DEF next
      <4> HIDE DEF x, size
      <4> QED BY <4>1, <1>1, <1>14
    <3> HIDE DEF x, L, al
    <3> QED BY <3>1, <3>2, MergeTwo, ZenonT(60)
  <2>3. /\ GoodBut(y, D, (L \ {node}) \cup {prev}) /\ Within(x, C, y, D, prev, next)
        /\ Size(y, prev) = size /\ Allocated(y, prev)
        /\ \A w \in prev + 1 .. next - 1 : y.mem[w] = x.mem[w]
    <3>1. node + Size(x, node) = next /\ Size(x, prev) + Size(x, node) = size
      BY <1>2, <1>3, <1>4, <1>6, <1>10, <2>1 DEF next
    <3> HIDE DEF x, L, al, size
    <3>2. /\ GoodBut(y, C \ {node}, (L \ {node}) \cup {prev})
          /\ Within(x, C, y, C \ {node}, prev, node + Size(x, node))
          /\ Size(y, prev) = Size(x, prev) + Size(x, node) /\ (Allocated(y, prev) <=> al)
          /\ \A w \in prev + 1 .. node + Size(x, node) - 1 : y.mem[w] = x.mem[w]
      BY <2>2 DEF MergeSound
    <3>3. prev + 1 .. node + Size(x, node) - 1 = prev + 1 .. next - 1
      BY <3>1, <1>2, <1>10, <1>3, <1>6
    <3> QED BY <3>1, <3>2, <3>3 DEF al
  <2>4. Good(y, D)
    <3> DEFINE M == (L \ {node}) \cup {prev}
    <3>1. GoodBut(y, D, M) /\ \A c \in Free(y, D) : c \notin M
      BY <2>3 DEF Free
    <3> HIDE DEF M, D
    <3> QED BY <3>1, NoneLeft
  <2>5. Within(h, C, y, D, prev, next)
    BY <2>3, <1>7, <1>10 DEF Within
  <2>6. Those(y, D, prev, next) = {newnode}
    BY <1>4, <1>8, <1>9, <2>1, <2>3 DEF Those, Alloc
  <2>7. \A w \in node + 1 .. next - 1 : y.mem[w] = h.mem[w]
    BY <2>3, <1>3, <1>4, <1>6, <1>7
  <2>8. \A c \in D : c \in prev .. next - 1 => Size(y, c) % 2 = 0
    BY <2>3, <1>8, <1>9
  <2> HIDE DEF D
  <2> QED BY <2>1, <2>3, <2>4, <2>5, <2>6, <2>7, <2>8, <1>12
<1>15. GrowSound(h, C, y, node, newnode, size)
  BY <1>13, <1>14
<1> QED BY <1>15 DEF y

(* Words are written into an allocated chunk.                              *)
Scribbled(h, C, y, a) ==
  /\ Swaps(h, C, y, C, {a}, {a})
  /\ \A c \in C : Size(y, c) = Size(h, c) /\ (Allocated(y, c) <=> Allocated(h, c))
  /\ Evens(h, C) => Evens(y, C)

(* As an owner, memcpy or memmove writes them.                             *)
LEMMA ScribbleSwaps ==
  ASSUME NEW h, NEW C, Good(h, C), NEW a \in Alloc(h, C), NEW b \in Int, NEW words, Len(words) \in Nat,
         a < b, b + Len(words) <= a + Size(h, a)
  PROVE  Scribbled(h, C, PutInto(h, b, words), a)
<1> DEFINE y == PutInto(h, b, words)
<1>1. /\ a \in C \ {0, Top} /\ C \subseteq Addrs /\ Chain(h, C) /\ GoodBut(h, C, {}) /\ IsHeap(h)
      /\ Allocated(h, a)
  BY DEF Alloc, Good, GoodBut, Chain
<1>2. /\ a \in Nat /\ Size(h, a) \in Nat
      /\ \A c \in C : c <= a \/ a + Size(h, a) <= c
  BY <1>1 DEF Chain, Addrs
<1>3. /\ IsHeap(y) /\ y.nodelist = h.nodelist
      /\ \A w \in Addrs : y.mem[w] = IF w \in b .. b + Len(words) - 1
                                     THEN words[w - b + 1] ELSE h.mem[w]
  BY <1>1, PutWrites
<1> HIDE DEF y
<1>4. \A w \in Addrs : w <= a \/ a + Size(h, a) <= w => y.mem[w] = h.mem[w]
  BY <1>2, <1>3 DEF Addrs
<1>5. \A c \in C : y.mem[c] = h.mem[c]
  BY <1>1, <1>2, <1>4
<1>6. GoodBut(y, C, {}) /\ Free(y, C) = Free(h, C)
  BY <1>1, <1>3, <1>5, SameChunks
<1>7. \A c \in C : Size(y, c) = Size(h, c) /\ (Allocated(y, c) <=> Allocated(h, c))
  BY <1>5, SameHeader
<1>8. ASSUME NEW c \in Alloc(h, C) \ {a} PROVE SameBlock(h, y, c)
  <2>1. c \in C \ {0, Top} /\ c # a /\ c \in Addrs
    BY <1>1 DEF Alloc
  <2>2. Size(h, c) \in Nat /\ c + Size(h, c) \in Addrs /\ (c + Size(h, c) <= a \/ a + Size(h, a) <= c)
    BY <2>1, <1>1, <1>2, SMTT(60) DEF Chain, Addrs
  <2>3. ASSUME NEW w \in c + 1 .. c + Size(h, c) - 1 PROVE y.mem[w] = h.mem[w]
    <3>1. w \in Addrs /\ (w <= a \/ a + Size(h, a) <= w)
      BY <2>1, <2>2, <1>2, HeapAssumption DEF Addrs, Top
    <3> QED BY <3>1, <1>4
  <2> QED BY <2>1, <2>3, <1>7 DEF SameBlock
<1>9. Alloc(y, C) = Alloc(h, C)
  BY <1>7 DEF Alloc
<1>10. Swaps(h, C, y, C, {a}, {a})
  BY <1>6, <1>8, <1>9 DEF Swaps, Good
<1>11. Evens(h, C) => Evens(y, C)
  BY <1>7 DEF Evens
<1>12. Scribbled(h, C, y, a)
  BY <1>7, <1>10, <1>11 DEF Scribbled
<1> QED BY <1>12 DEF y

(* The chunk has grown downwards and holds the words of the old one.       *)
DownSound(h, C, y, node, newnode, n) ==
  \E D : /\ Swaps(h, C, y, D, {node}, {newnode})
         /\ Size(y, newnode) = n
         /\ \A i \in 1 .. Size(h, node) - 1 : y.mem[newnode + i] = h.mem[node + i]
         /\ LET next == node + Size(h, node)
            IN  Size(y, next) = Size(h, next) /\ (Allocated(y, next) <=> Allocated(h, next))
         /\ Evens(y, D)

(* With the memcpy.                                                        *)
LEMMA ExtendDownMoves ==
  ASSUME NEW h, NEW C, Good(h, C), NEW node \in Alloc(h, C),
         ~Allocated(h, node - Preceding(h, node)), NEW take \in Nat \ {0}, Evens(h, C), take % 2 = 0,
         \/ take = Size(h, node - Preceding(h, node))
         \/ take + FreeNode <= Size(h, node - Preceding(h, node))
  PROVE  DownSound(h, C, ExtendDown(h, node, take), node, node - take, Size(h, node) + take)
<1> DEFINE newnode == node - take
           size == Size(h, node) + take
           next == node + Size(h, node)
           x == GrowDown(h, node, take)
           moved == Get(node + 1, Size(h, node) - 1, x.mem)
           rest == Junks(Size(x, newnode) - 1 - Len(moved))
           words == moved \o rest
           y == PutInto(x, newnode + 1, words)
<1>1. ExtendDown(h, node, take) = y
  BY DEF ExtendDown, PutInto
<1>2. GrowSound(h, C, x, node, newnode, size)
  BY GrowDownGrows
<1> HIDE DEF x, newnode, size
<1>3. PICK D : /\ Swaps(h, C, x, D, {node}, {newnode})
               /\ Size(x, newnode) = size
               /\ \A w \in node + 1 .. node + Size(h, node) - 1 : x.mem[w] = h.mem[w]
               /\ Size(x, next) = Size(h, next) /\ (Allocated(x, next) <=> Allocated(h, next))
               /\ Evens(x, D)
  BY <1>2 DEF GrowSound
<1>4. node \in Nat /\ Size(h, node) \in Nat /\ Size(h, node) >= 2
  BY OneLies DEF Alloc, Good, GoodBut
<1>5. Good(x, D) /\ newnode \in Alloc(x, D) /\ newnode \in D \ {0, Top} /\ Chain(x, D)
  BY <1>3 DEF Swaps, Alloc, Good, GoodBut
<1>6. /\ newnode \in Nat /\ newnode + Size(x, newnode) \in D
  BY <1>5, OneLies
<1>7. newnode + size = next /\ size = Size(h, node) + take
  BY <1>4, <1>6 DEF newnode, size
<1> DEFINE n == Size(h, node) - 1
           S == {x.mem[w] : w \in Int} \cup {Junk}
<1>8. moved \in Seq(S) /\ Len(moved) = n /\ \A i \in 1 .. n : moved[i] = x.mem[node + i]
  <2>1. n \in Nat /\ moved = [i \in 1 .. n |-> x.mem[node + 1 + i - 1]]
    BY <1>4 DEF Get
  <2>2. \A i \in 1 .. n : x.mem[node + 1 + i - 1] = x.mem[node + i] /\ x.mem[node + 1 + i - 1] \in S
    <3> TAKE i \in 1 .. n
    <3>1. node + 1 + i - 1 = node + i /\ node + i \in Int
      BY <1>4
    <3> QED BY <3>1
  <2> HIDE DEF n, S, moved
  <2>3. \A i \in 1 .. n : moved[i] \in S /\ moved[i] = x.mem[node + i]
    BY <2>1, <2>2
  <2>4. DOMAIN moved = 1 .. n /\ moved \in [1 .. n -> S]
    BY <2>1, <2>2
  <2>5. moved \in Seq(S) /\ Len(moved) = n
    BY <2>1, <2>4
  <2> QED BY <2>3, <2>5
<1>9. rest \in Seq(S) /\ Len(rest) = take
  <2>1. Size(x, newnode) - 1 - Len(moved) = take
    BY <1>3, <1>4, <1>7, <1>8
  <2>2. rest = [i \in 1 .. take |-> Junk]
    BY <2>1 DEF Junks
  <2> HIDE DEF rest
  <2> QED BY <2>2
<1> HIDE DEF moved, rest, S
<1>10. Len(words) = n + take /\ \A i \in 1 .. n : words[i] = moved[i]
  <2> HIDE DEF n
  <2>1. n \in Nat
    BY <1>4 DEF n
  <2> QED BY <1>8, <1>9, <2>1
<1> HIDE DEF words, y
<1>11. Scribbled(x, D, y, newnode)
  <2> DEFINE b == newnode + 1
  <2>1. b \in Int /\ Len(words) \in Nat /\ newnode < b /\ b + Len(words) <= newnode + Size(x, newnode)
    <3>1. Len(words) = n + take /\ n = Size(h, node) - 1 /\ Size(x, newnode) = Size(h, node) + take
      BY <1>3, <1>7, <1>10
    <3> HIDE DEF n
    <3> QED BY <1>4, <1>6, <3>1, SMTT(60)
  <2> HIDE DEF b
  <2>2. Scribbled(x, D, PutInto(x, b, words), newnode)
    BY <2>1, <1>5, ScribbleSwaps
  <2> QED BY <2>2 DEF b, y
<1>12. \A i \in 1 .. Size(h, node) - 1 : y.mem[newnode + i] = h.mem[node + i]
  <2> TAKE i \in 1 .. Size(h, node) - 1
  <2> DEFINE b == newnode + 1
             w == newnode + i
  <2>1. \A v \in Addrs : PutInto(x, b, words).mem[v] = IF v \in b .. b + Len(words) - 1
                                                       THEN words[v - b + 1] ELSE x.mem[v]
    BY <1>5, PutWrites DEF Good, GoodBut
  <2>2. y = PutInto(x, b, words)
    BY DEF y
  <2>3. next <= Top /\ next \in Nat
    BY <1>3, <1>5, <1>6, <1>7 DEF Chain, Addrs
  <2>4. w \in Addrs /\ w \in b .. b + Len(words) - 1 /\ w - b + 1 = i
    <3>1. Top \in Int /\ i \in Int /\ 1 <= i /\ i <= n /\ n \in Int
      BY <1>4, HeapAssumption DEF Top
    <3>2. Len(words) = size - 1 /\ n < size /\ size \in Int
      BY <1>4, <1>7, <1>10
    <3> HIDE DEF n
    <3>3. w < next
      BY <3>1, <3>2, <1>6, <1>7
    <3> QED BY <3>1, <3>2, <3>3, <1>6, <2>3 DEF Addrs
  <2>5. y.mem[w] = words[i]
    <3> HIDE DEF b, w
    <3> QED BY <2>1, <2>2, <2>4
  <2>6. words[i] = x.mem[node + i]
    BY <1>8, <1>10
  <2>7. x.mem[node + i] = h.mem[node + i]
    BY <1>3, <1>4
  <2> QED BY <2>5, <2>6, <2>7
<1>13. next \in D
  BY <1>3, <1>6, <1>7
<1> HIDE DEF next
<1>14. Size(y, next) = Size(h, next) /\ (Allocated(y, next) <=> Allocated(h, next))
  BY <1>3, <1>11, <1>13 DEF Scribbled
<1>15. Size(y, newnode) = size /\ Evens(y, D)
  BY <1>3, <1>5, <1>11 DEF Scribbled
<1>16. Swaps(h, C, y, D, {node}, {newnode})
  BY <1>3, <1>11, SwapsTwice DEF Scribbled
<1>17. DownSound(h, C, y, node, newnode, size)
  BY <1>12, <1>14, <1>15, <1>16 DEF DownSound, next
<1> QED BY <1>1, <1>17 DEF newnode, size

(* What realloc takes from its neighbours is what it needs, and they have. *)
LEMMA SharesAdd ==
  ASSUME NEW needed \in Nat, NEW prevsize \in Nat, NEW nextsize \in Nat,
         needed <= prevsize + nextsize, needed % 2 = 0, prevsize % 2 = 0, nextsize % 2 = 0
  PROVE  LET s == Shares(needed, prevsize, nextsize)
         IN  /\ s.prev \in Nat /\ s.next \in Nat /\ s.prev + s.next = needed
             /\ s.prev <= prevsize /\ s.next <= nextsize /\ s.prev % 2 = 0 /\ s.next % 2 = 0
<1> DEFINE s == Shares(needed, prevsize, nextsize)
<1>1. CASE prevsize > 0 /\ (nextsize >= prevsize \/ nextsize = 0)
  <2>1. s = [prev |-> Min({needed, prevsize}), next |-> Max({0, needed - prevsize})]
    BY <1>1 DEF Shares
  <2>2. s.prev = Min({needed, prevsize}) /\ s.next = Max({0, needed - prevsize})
    <3> HIDE DEF s
    <3> QED BY <2>1
  <2>3. /\ Min({needed, prevsize}) = IF needed <= prevsize THEN needed ELSE prevsize
        /\ Max({0, needed - prevsize}) = IF 0 >= needed - prevsize THEN 0 ELSE needed - prevsize
    <3> DEFINE d == needed - prevsize
    <3>1. d \in Int /\ 0 \in Int
      OBVIOUS
    <3> HIDE DEF d
    <3>2. Max({0, d}) = IF 0 >= d THEN 0 ELSE d
      BY <3>1, MinMaxOfTwo
    <3>3. Min({needed, prevsize}) = IF needed <= prevsize THEN needed ELSE prevsize
      BY MinMaxOfTwo
    <3> QED BY <3>2, <3>3 DEF d
  <2> HIDE DEF s
  <2>4. CASE needed <= prevsize
    <3>1. s.prev = needed /\ s.next = 0
      BY <2>2, <2>3, <2>4
    <3> QED BY <3>1, <2>4 DEF s
  <2>5. CASE ~(needed <= prevsize)
    <3>1. s.prev = prevsize /\ s.next = needed - prevsize
      BY <2>2, <2>3, <2>5
    <3>2. (needed - prevsize) % 2 = 0 /\ needed - prevsize \in Nat
      BY <2>5
    <3> QED BY <3>1, <3>2 DEF s
  <2> QED BY <2>4, <2>5
<1>2. CASE ~(prevsize > 0 /\ (nextsize >= prevsize \/ nextsize = 0))
  <2>1. s = [prev |-> Max({0, needed - nextsize}), next |-> Min({needed, nextsize})]
    BY <1>2 DEF Shares
  <2>2. s.next = Min({needed, nextsize}) /\ s.prev = Max({0, needed - nextsize})
    <3> HIDE DEF s
    <3> QED BY <2>1
  <2>3. /\ Min({needed, nextsize}) = IF needed <= nextsize THEN needed ELSE nextsize
        /\ Max({0, needed - nextsize}) = IF 0 >= needed - nextsize THEN 0 ELSE needed - nextsize
    <3> DEFINE d == needed - nextsize
    <3>1. d \in Int /\ 0 \in Int
      OBVIOUS
    <3> HIDE DEF d
    <3>2. Max({0, d}) = IF 0 >= d THEN 0 ELSE d
      BY <3>1, MinMaxOfTwo
    <3>3. Min({needed, nextsize}) = IF needed <= nextsize THEN needed ELSE nextsize
      BY MinMaxOfTwo
    <3> QED BY <3>2, <3>3 DEF d
  <2> HIDE DEF s
  <2>4. CASE needed <= nextsize
    <3>1. s.next = needed /\ s.prev = 0
      BY <2>2, <2>3, <2>4
    <3> QED BY <3>1, <2>4 DEF s
  <2>5. CASE ~(needed <= nextsize)
    <3>1. s.next = nextsize /\ s.prev = needed - nextsize
      BY <2>2, <2>3, <2>5
    <3>2. (needed - nextsize) % 2 = 0 /\ needed - nextsize \in Nat
      BY <2>5
    <3> QED BY <3>1, <3>2 DEF s
  <2> QED BY <2>4, <2>5
<1> QED BY <1>1, <1>2

(* What a neighbour has to give.                                           *)
LEMMA FreeSizeIs ==
  ASSUME NEW h, NEW C, Chain(h, C), Evens(h, C), NEW a \in C
  PROVE  /\ FreeSize(h, a) \in Nat /\ FreeSize(h, a) % 2 = 0
         /\ FreeSize(h, a) > 0 => ~Allocated(h, a) /\ FreeSize(h, a) = Size(h, a)
<1>1. Size(h, a) \in Nat
  BY DEF Chain
<1>2. CASE Allocated(h, a)
  BY <1>2 DEF FreeSize
<1>3. CASE ~Allocated(h, a)
  <2>1. FreeSize(h, a) = Size(h, a) /\ a \in C \ {0, Top}
    BY <1>3 DEF FreeSize, Chain
  <2> QED BY <2>1, <1>1, <1>3 DEF Evens
<1> QED BY <1>2, <1>3

(* realloc in place or nearly so: the block moves with its words, or       *)
(* nothing is done.                                                        *)
LEMMA ReallocMoves ==
  ASSUME NEW h, NEW C, Good(h, C), Evens(h, C), NEW mem \in Int, mem - 1 \in Alloc(h, C),
         NEW size \in Nat, size % 2 = 0, size >= FreeNode
  PROVE  LET r == realloc_section(h, mem, size)
         IN  \/ r.ret = NULL /\ r.heap = h /\ Size(h, mem - 1) < size
             \/ r.ret \in Nat \ {0} /\ MoveSound(h, C, r.heap, mem - 1, r.ret - 1, size)
<1> DEFINE node == mem - 1
           oldsize == Size(h, node)
           next == node + oldsize
           prev == node - Preceding(h, node)
           nextsize == FreeSize(h, next)
           prevsize == FreeSize(h, prev)
           take == Shares(size - oldsize, prevsize, nextsize)
           h1 == IF take.prev > 0 THEN ExtendDown(h, node, take.prev) ELSE h
           node1 == node - take.prev
           h2 == IF take.next > 0 THEN ExtendUp(h1, node1, take.next) ELSE h1
           r == realloc_section(h, mem, size)
<1>1. r = IF size <= oldsize
          THEN [heap |-> IF size < oldsize THEN mm_shrinkchunk(h, node, size) ELSE h, ret |-> mem]
          ELSE IF nextsize + prevsize + oldsize >= size
               THEN [heap |-> h2, ret |-> node1 + 1]
               ELSE [heap |-> h, ret |-> NULL]
  BY DEF realloc_section
<1> HIDE DEF r
<1>2. node \in Alloc(h, C) /\ node \in Int /\ node + 1 = mem
  OBVIOUS
<1> HIDE DEF node
<1>3. /\ node \in C \ {0, Top} /\ Chain(h, C) /\ Allocated(h, node)
  BY <1>2 DEF Alloc, Good, GoodBut
<1>4. /\ node \in Nat \ {0} /\ oldsize \in Nat /\ oldsize >= 2 /\ next \in C /\ oldsize % 2 = 0
  BY <1>3, OneLies DEF Evens
<1>5. prev \in C
  BY <1>3 DEF Chain
<1> HIDE DEF next, prev
<1>6. CASE size <= oldsize
  <2> DEFINE y == IF size < oldsize THEN mm_shrinkchunk(h, node, size) ELSE h
  <2>1. r.heap = y /\ r.ret = node + 1
    <3>1. r = [heap |-> y, ret |-> mem]
      BY <1>1, <1>6, Zenon
    <3> HIDE DEF y
    <3> QED BY <3>1, <1>2
  <2>2. PICK n \in size .. oldsize : ResizeSound(h, C, y, node, n) /\ n % 2 = 0
    <3>1. CASE size < oldsize
      <4>1. PICK n \in size .. oldsize : /\ ResizeSound(h, C, mm_shrinkchunk(h, node, size), node, n)
                                         /\ n = size \/ n = oldsize
        BY <1>2, <1>6, ShrinkResizes
      <4>2. n % 2 = 0
        BY <4>1, <1>4
      <4> QED BY <3>1, <4>1, <4>2
    <3>2. CASE ~(size < oldsize)
      <4>1. oldsize \in size .. oldsize /\ y = h
        BY <3>2, <1>4, <1>6
      <4> QED BY <4>1, <1>2, <1>4, ResizeToSame
    <3> QED BY <3>1, <3>2
  <2> HIDE DEF y
  <2>3. PICK D : /\ Swaps(h, C, y, D, {node}, {node}) /\ Size(y, node) = n
                 /\ \A w \in node + 1 .. node + n - 1 : y.mem[w] = h.mem[w]
                 /\ Evens(y, D)
    BY <2>2 DEF ResizeSound
  <2>4. \A i \in 1 .. oldsize - 1 : i < size => y.mem[node + i] = h.mem[node + i]
    <3> TAKE i \in 1 .. oldsize - 1
    <3> HAVE i < size
    <3>1. node + i \in node + 1 .. node + n - 1
      BY <2>2, <1>4
    <3> QED BY <3>1, <2>3
  <2>5. MoveSound(h, C, y, node, node, size)
    BY <2>2, <2>3, <2>4 DEF MoveSound
  <2>6. r.ret - 1 = node /\ r.ret \in Nat \ {0}
    BY <2>1, <1>4
  <2> QED BY <2>1, <2>5, <2>6 DEF node, r
<1>7. CASE ~(size <= oldsize) /\ ~(nextsize + prevsize + oldsize >= size)
  <2>1. r.ret = NULL /\ r.heap = h
    BY <1>1, <1>7
  <2> QED BY <2>1, <1>4, <1>7 DEF node, r
<1>8. CASE ~(size <= oldsize) /\ nextsize + prevsize + oldsize >= size
  <2>1. r.heap = h2 /\ r.ret = node1 + 1
    <3> HIDE DEF h2, node1, nextsize, prevsize
    <3> QED BY <1>1, <1>8
  <2>2. /\ nextsize \in Nat /\ nextsize % 2 = 0
        /\ nextsize > 0 => ~Allocated(h, next) /\ nextsize = Size(h, next)
    BY <1>3, <1>4, FreeSizeIs
  <2>3. /\ prevsize \in Nat /\ prevsize % 2 = 0
        /\ prevsize > 0 => ~Allocated(h, prev) /\ prevsize = Size(h, prev)
    BY <1>3, <1>5, FreeSizeIs
  <2> HIDE DEF nextsize, prevsize
  <2>4. /\ take.prev \in Nat /\ take.next \in Nat /\ take.prev + take.next = size - oldsize
        /\ take.prev <= prevsize /\ take.next <= nextsize /\ take.prev % 2 = 0 /\ take.next % 2 = 0
    <3> DEFINE needed == size - oldsize
    <3>1. needed \in Nat /\ needed <= prevsize + nextsize /\ needed % 2 = 0
      BY <1>4, <1>8, <2>2, <2>3
    <3> HIDE DEF needed
    <3>2. LET s == Shares(needed, prevsize, nextsize)
          IN  /\ s.prev \in Nat /\ s.next \in Nat /\ s.prev + s.next = needed
              /\ s.prev <= prevsize /\ s.next <= nextsize /\ s.prev % 2 = 0 /\ s.next % 2 = 0
      BY <3>1, <2>2, <2>3, SharesAdd
    <3> QED BY <3>2 DEF needed
  <2> HIDE DEF take
  <2> DEFINE tp == take.prev
             tn == take.next
             size1 == oldsize + tp
  <2>5. DownSound(h, C, h1, node, node1, size1)
    <3>1. CASE tp > 0
      <4>1. tp \in Nat \ {0} /\ ~Allocated(h, prev) /\ (tp = Size(h, prev) \/ tp + FreeNode <= Size(h, prev))
        BY <2>3, <2>4, <3>1 DEF FreeNode
      <4> HIDE DEF tp
      <4>2. DownSound(h, C, ExtendDown(h, node, tp), node, node - tp, Size(h, node) + tp)
        BY <4>1, <1>2, <2>4, ExtendDownMoves DEF prev, tp
      <4> QED BY <4>2, <3>1 DEF tp
    <3>2. CASE ~(tp > 0)
      <4>1. tp = 0 /\ node1 = node /\ size1 = oldsize /\ h1 = h
        BY <3>2, <2>4, <1>4
      <4>2. Swaps(h, C, h, C, {node}, {node})
        BY <1>2 DEF Swaps, SameBlock
      <4>3. DownSound(h, C, h, node, node, oldsize)
        BY <4>2 DEF DownSound
      <4> HIDE DEF h1, node1, size1
      <4> QED BY <4>1, <4>3
    <3> QED BY <3>1, <3>2
  <2> HIDE DEF h1, node1, size1
  <2>6. PICK D : /\ Swaps(h, C, h1, D, {node}, {node1}) /\ Size(h1, node1) = size1
                 /\ \A i \in 1 .. oldsize - 1 : h1.mem[node1 + i] = h.mem[node + i]
                 /\ Size(h1, next) = Size(h, next) /\ (Allocated(h1, next) <=> Allocated(h, next))
                 /\ Evens(h1, D)
    BY <2>5 DEF DownSound, next
  <2>7. Good(h1, D) /\ node1 \in Alloc(h1, D) /\ node1 \in D \ {0, Top} /\ Chain(h1, D)
    BY <2>6 DEF Swaps, Alloc, Good, GoodBut
  <2>8. /\ node1 \in Nat \ {0} /\ node1 + size1 = next /\ size1 + tn = size /\ size1 \in Nat /\ size1 % 2 = 0
        /\ oldsize <= size1
    <3>1. node1 \in Nat \ {0}
      BY <2>7, OneLies
    <3>2. node1 = node - tp /\ size1 = oldsize + tp /\ next = node + oldsize
      BY DEF node1, size1, next
    <3> HIDE DEF oldsize
    <3> QED BY <3>1, <3>2, <2>4, <1>4
  <2>9. ResizeSound(h1, D, h2, node1, size)
    <3>1. CASE tn > 0
      <4>1. /\ tn \in Nat \ {0} /\ ~Allocated(h1, node1 + Size(h1, node1))
            /\ \/ tn = Size(h1, node1 + Size(h1, node1)) \/ tn + FreeNode <= Size(h1, node1 + Size(h1, node1))
        BY <2>2, <2>4, <2>6, <2>8, <3>1 DEF FreeNode
      <4> HIDE DEF tn
      <4>2. ResizeSound(h1, D, ExtendUp(h1, node1, tn), node1, Size(h1, node1) + tn)
        BY <4>1, <2>4, <2>6, <2>7, ExtendUpResizes DEF tn
      <4>3. h2 = ExtendUp(h1, node1, tn)
        BY <3>1 DEF tn
      <4> HIDE DEF h2
      <4> QED BY <4>2, <4>3, <2>6, <2>8
    <3>2. CASE ~(tn > 0)
      <4>1. h2 = h1 /\ size = Size(h1, node1)
        BY <3>2, <2>4, <2>6, <2>8
      <4>2. ResizeSound(h1, D, h1, node1, Size(h1, node1))
        BY <2>7, ResizeToSame
      <4> HIDE DEF h2
      <4> QED BY <4>1, <4>2
    <3> QED BY <3>1, <3>2
  <2> HIDE DEF h2
  <2>10. PICK E : /\ Swaps(h1, D, h2, E, {node1}, {node1}) /\ Size(h2, node1) = size
                  /\ \A w \in node1 + 1 .. node1 + size - 1 : h2.mem[w] = h1.mem[w]
                  /\ Evens(h2, E)
    BY <2>9, <2>6 DEF ResizeSound
  <2>11. \A i \in 1 .. oldsize - 1 : i < size => h2.mem[node1 + i] = h.mem[node + i]
    <3> TAKE i \in 1 .. oldsize - 1
    <3> HAVE i < size
    <3>1. node1 + i \in node1 + 1 .. node1 + size - 1
      BY <2>8
    <3> QED BY <3>1, <2>6, <2>10
  <2>12. Swaps(h, C, h2, E, {node}, {node1})
    BY <2>6, <2>10, SwapsTwice
  <2>13. MoveSound(h, C, h2, node, node1, size)
    BY <2>10, <2>11, <2>12 DEF MoveSound
  <2>14. r.ret - 1 = node1 /\ r.ret \in Nat \ {0}
    BY <2>1, <2>8
  <2> QED BY <2>1, <2>13, <2>14 DEF node, r
<1> QED BY <1>6, <1>7, <1>8

-----------------------------------------------------------------------------
(* memalign.                                                               *)

(* Headers of two chunks may be written in either order.                   *)
LEMMA HeadersCommute ==
  ASSUME NEW h, IsHeap(h), NEW a \in Addrs, NEW b \in Addrs, a # b,
         NEW n, NEW p, NEW al, NEW m, NEW q, NEW bl
  PROVE  SetHeader(SetHeader(h, a, n, p, al), b, m, q, bl)
           = SetHeader(SetHeader(h, b, m, q, bl), a, n, p, al)
<1> DEFINE v == Header(n, p, al)
           w == Header(m, q, bl)
           x == [[h.mem EXCEPT ![a] = v] EXCEPT ![b] = w]
           y == [[h.mem EXCEPT ![b] = w] EXCEPT ![a] = v]
<1>1. h \in [mem : {h.mem}, nodelist : [Classes -> Seq(Addrs)]]
  BY DEF IsHeap
<1>2. SetHeader(SetHeader(h, a, n, p, al), b, m, q, bl) = [mem |-> x, nodelist |-> h.nodelist]
  <2>1. SetHeader(SetHeader(h, a, n, p, al), b, m, q, bl) = [[h EXCEPT !.mem[a] = v] EXCEPT !.mem[b] = w]
    BY DEF SetHeader
  <2> HIDE DEF v, w
  <2> QED BY <1>1, <2>1
<1>3. SetHeader(SetHeader(h, b, m, q, bl), a, n, p, al) = [mem |-> y, nodelist |-> h.nodelist]
  <2>1. SetHeader(SetHeader(h, b, m, q, bl), a, n, p, al) = [[h EXCEPT !.mem[b] = w] EXCEPT !.mem[a] = v]
    BY DEF SetHeader
  <2> HIDE DEF v, w
  <2> QED BY <1>1, <2>1
<1>4. x = y
  <2> HIDE DEF v, w
  <2>1. h.mem = [i \in Addrs |-> h.mem[i]]
    BY DEF IsHeap
  <2>2. x = [i \in Addrs |-> IF i = a THEN v ELSE IF i = b THEN w ELSE h.mem[i]]
    BY <2>1
  <2>3. y = [i \in Addrs |-> IF i = a THEN v ELSE IF i = b THEN w ELSE h.mem[i]]
    BY <2>1
  <2> QED BY <2>2, <2>3
<1> QED BY <1>2, <1>3, <1>4

(* The aligned address of memalign: at the block's, or so far beyond that  *)
(* a free node fits before it, and not too far.                            *)
LEMMA AlignedLead ==
  ASSUME NEW raw \in Nat, NEW alignment \in Nat, alignment > FreeNode
  PROVE  LET first   == raw + ((-raw) % alignment)
             aligned == IF first # raw /\ first - raw < FreeNode THEN first + alignment ELSE first
         IN  /\ aligned \in Nat
             /\ aligned # raw => aligned - raw >= FreeNode /\ aligned - raw <= alignment + 1
<1> DEFINE k == (-raw) % alignment
<1>1. k \in 0 .. alignment - 1
  BY DEF FreeNode
<1> HIDE DEF k
<1> QED BY <1>1 DEF FreeNode, k

(* The part before the aligned address is freed: what is left of the chunk *)
(* begins at newnode.                                                      *)
LeadSound(h, C, y, node, newnode, n) ==
  \E D : Swaps(h, C, y, D, {node}, {newnode}) /\ Size(y, newnode) = n

(* The part before the aligned address becomes a free chunk.               *)
LEMMA LeadFreed ==
  ASSUME NEW h, NEW C, Good(h, C), NEW node \in Alloc(h, C), NEW lead \in Nat, NEW n2 \in Nat,
         lead >= FreeNode, n2 >= FreeNode, lead + n2 = Size(h, node)
  PROVE  LeadSound(h, C,
                   mm_addfreechunk(
                     SetPreceding(
                       SetHeader(SetHeader(h, node + lead, n2, lead, TRUE),
                                 node, lead, Preceding(h, node), FALSE),
                       node + Size(h, node), n2),
                     node), node, node + lead, n2)
<1> DEFINE newnode == node + lead
           next == node + Size(h, node)
           a1 == FALSE
           a2 == TRUE
           p == Preceding(h, node)
           L == {}
           D == CutAt(C, node, newnode, next)
           z == TwoChunks(h, node, lead, p, a1, n2, a2, next)
           x == SetPreceding(SetHeader(SetHeader(h, newnode, n2, lead, a2), node, lead, p, a1), next, n2)
           y == mm_addfreechunk(x, node)
           M == L \cup {node, newnode}
<1>1. /\ node \in C \ {0, Top} /\ Chain(h, C) /\ GoodBut(h, C, L) /\ IsHeap(h) /\ C \subseteq Addrs
      /\ Allocated(h, node)
  BY DEF Alloc, Good, GoodBut, Chain
<1>2. /\ node \in Nat \ {0} /\ Size(h, node) \in Nat /\ next \in C \ {0} /\ next \in Nat
      /\ \A c \in C : c \in node .. next - 1 <=> c = node
  BY <1>1, OneLies
<1>3. /\ newnode \in node + 1 .. next - 1 /\ newnode # node /\ next <= Top /\ newnode \in Addrs
      /\ newnode # 0 /\ newnode # Top /\ newnode \in node .. next - 1 /\ newnode + n2 = next
      /\ node < next /\ next \in Addrs /\ node \in Addrs
  BY <1>1, <1>2, HeapAssumption DEF FreeNode, Addrs, Top
<1>4. x = z
  <2> HIDE DEF a1, a2, p, newnode
  <2>1. SetHeader(SetHeader(h, newnode, n2, lead, a2), node, lead, p, a1)
          = SetHeader(SetHeader(h, node, lead, p, a1), newnode, n2, lead, a2)
    BY <1>1, <1>3, HeadersCommute
  <2> QED BY <2>1 DEF TwoChunks, newnode
<1>5. TwoSound(h, C, L, z, node, lead, n2, a1, a2)
  <2>1. /\ GoodBut(h, C, L) /\ h.mem = h.mem /\ node \in C \ {0, Top} /\ next \in C
        /\ node + lead + n2 = next /\ a1 \in BOOLEAN /\ a2 \in BOOLEAN
        /\ \A c \in Free(h, C) : c \in node .. next - 1 => c \in L
    BY <1>1, <1>2, <1>3 DEF Free
  <2> HIDE DEF L, a1, a2, next
  <2> QED BY <2>1, CutInTwo
<1> HIDE DEF x, z
<1>6. /\ GoodBut(z, D, M) /\ Within(h, C, z, D, node, next)
      /\ Size(z, node) = lead /\ ~Allocated(z, node)
      /\ Size(z, newnode) = n2 /\ Allocated(z, newnode)
  <2>1. node + lead + n2 = next /\ newnode = node + lead
    BY <1>2, <1>3
  <2> HIDE DEF L, newnode, next
  <2> QED BY <2>1, <1>5 DEF TwoSound
<1>7. /\ \A c \in D : c \in node .. next - 1 <=> c \in {node, newnode}
      /\ node \in D /\ newnode \in D /\ D \subseteq Addrs
  <2>1. D \subseteq Addrs
    BY <1>6 DEF GoodBut, Chain
  <2> HIDE DEF newnode, next
  <2> QED BY <2>1, <1>1, <1>2, <1>3 DEF CutAt, Addrs
<1>8. y = mm_addfreechunk(z, node)
  BY <1>4
<1> HIDE DEF y
<1>9. /\ Good(y, D) /\ Within(z, D, y, D, node, next)
      /\ \A c \in D : Size(y, c) = Size(z, c) /\ (Allocated(y, c) <=> Allocated(z, c))
  <2>1. /\ GoodBut(z, D, M) /\ node \in Free(z, D) /\ node \in M
        /\ \A c \in Free(z, D) : c \in M => c = node
        /\ node <= node /\ node + Size(z, node) <= next /\ node \in Int /\ next \in Int
    BY <1>2, <1>3, <1>6, <1>7 DEF Free
  <2> HIDE DEF M, D, next
  <2>2. Restored(z, D, node, mm_addfreechunk(z, node), node, next)
    BY <2>1, RelistLast
  <2> QED BY <2>2, <1>8 DEF Restored
<1> HIDE DEF D
<1>10. Within(h, C, y, D, node, next)
  BY <1>6, <1>9, WithinTwice
<1>11. Those(y, D, node, next) = {newnode}
  <2> HIDE DEF newnode, next
  <2> QED BY <1>3, <1>6, <1>7, <1>9 DEF Those, Alloc
<1>12. Those(h, C, node, next) = {node}
  BY <1>1, <1>2, <1>3 DEF Those, Alloc
<1>13. Swaps(h, C, y, D, {node}, {newnode})
  <2> HIDE DEF newnode, next
  <2>1. Swaps(h, C, y, D, Those(h, C, node, next), Those(y, D, node, next))
    BY <1>1, <1>2, <1>3, <1>9, <1>10, WithinSwaps
  <2> QED BY <2>1, <1>11, <1>12
<1>14. Size(y, newnode) = n2
  BY <1>6, <1>7, <1>9
<1>15. LeadSound(h, C, y, node, newnode, n2)
  BY <1>13, <1>14 DEF LeadSound
<1> QED BY <1>15 DEF y, x

(* The second section of memalign: an aligned chunk in place of the raw    *)
(* one, with room for n words.                                             *)
AlignSound(h, C, y, node, newnode, n) ==
  \E D : Swaps(h, C, y, D, {node}, {newnode}) /\ n < Size(y, newnode)

(* The second section of memalign hands out an aligned chunk that is large *)
(* enough, in place of the raw one.                                        *)
LEMMA MemalignAligns ==
  ASSUME NEW h, NEW C, Good(h, C), NEW raw \in Nat, raw - 1 \in Alloc(h, C),
         NEW alignment \in Nat, alignment > FreeNode, NEW n \in Nat \ {0},
         Size(h, raw - 1) >= AlignUp(n) + 2 * alignment + 1
  PROVE  LET r == memalign_section(h, raw, alignment, n)
         IN  r.ret \in Nat \ {0} /\ AlignSound(h, C, r.heap, raw - 1, r.ret - 1, n)
<1> DEFINE node == raw - 1
           next == node + Size(h, node)
           first == raw + ((-raw) % alignment)
           aligned == IF first # raw /\ first - raw < FreeNode THEN first + alignment ELSE first
           newnode == aligned - 1
           lead == aligned - raw
           n2 == next - newnode
           y1 == mm_addfreechunk(
                   SetPreceding(
                     SetHeader(SetHeader(h, newnode, n2, lead, TRUE),
                               node, lead, Preceding(h, node), FALSE),
                     next, n2), node)
           h1 == IF aligned = raw THEN h ELSE y1
           size == AlignUp(n)
           allocsize == IF aligned = raw THEN size + 2 * alignment ELSE n2 - 1
           r == memalign_section(h, raw, alignment, n)
<1>1. r = [heap |-> IF allocsize > size THEN mm_shrinkchunk(h1, newnode, size + 1) ELSE h1, ret |-> aligned]
  BY DEF memalign_section
<1> HIDE DEF r
<1>2. /\ aligned \in Nat
      /\ aligned # raw => aligned - raw >= FreeNode /\ aligned - raw <= alignment + 1
  BY AlignedLead
<1> HIDE DEF aligned
<1>3. node \in Alloc(h, C) /\ node \in C \ {0, Top} /\ Chain(h, C) /\ raw = node + 1
  BY DEF Alloc, Good, GoodBut
<1>4. Size(h, node) >= size + 2 * alignment + 1
  OBVIOUS
<1> HIDE DEF node
<1>5. node \in Nat \ {0} /\ Size(h, node) \in Nat
  BY <1>3, OneLies
<1>6. size \in Nat /\ size >= n
  BY AlignUpIs
<1> HIDE DEF size
<1>7. LeadSound(h, C, h1, node, newnode, IF aligned = raw THEN Size(h, node) ELSE Size(h, node) - lead)
  <2>1. CASE aligned = raw
    <3>1. newnode = node /\ h1 = h
      BY <2>1, <1>3, <1>5
    <3>2. Swaps(h, C, h, C, {node}, {node})
      BY <1>3 DEF Swaps, SameBlock
    <3> HIDE DEF h1, newnode
    <3> QED BY <2>1, <3>1, <3>2 DEF LeadSound
  <2>2. CASE aligned # raw
    <3>1. /\ lead \in Nat /\ lead >= FreeNode /\ n2 \in Nat /\ n2 >= FreeNode /\ lead + n2 = Size(h, node)
          /\ newnode = node + lead /\ n2 = Size(h, node) - lead
      BY <2>2, <1>2, <1>3, <1>4, <1>5, <1>6 DEF FreeNode
    <3>2. h1 = y1
      BY <2>2
    <3> HIDE DEF h1, newnode, lead, n2
    <3>3. LeadSound(h, C, y1, node, newnode, n2)
      BY <3>1, <1>3, LeadFreed
    <3> QED BY <2>2, <3>1, <3>2, <3>3
  <2> QED BY <2>1, <2>2
<1> HIDE DEF h1
<1>8. PICK D : /\ Swaps(h, C, h1, D, {node}, {newnode})
               /\ Size(h1, newnode) = IF aligned = raw THEN Size(h, node) ELSE Size(h, node) - lead
  BY <1>7 DEF LeadSound
<1>9. Good(h1, D) /\ newnode \in Alloc(h1, D) /\ newnode \in D \ {0, Top} /\ Chain(h1, D)
  BY <1>8 DEF Swaps, Alloc, Good, GoodBut
<1>10. newnode \in Nat \ {0}
  <2> HIDE DEF newnode
  <2> QED BY <1>9, OneLies
<1>11. /\ allocsize > size
       /\ Size(h1, newnode) \in Nat /\ size + 1 <= Size(h1, newnode) /\ size + 1 \in Nat /\ size + 1 >= FreeNode
  <2>1. CASE aligned = raw
    BY <2>1, <1>4, <1>5, <1>6, <1>8 DEF FreeNode
  <2>2. CASE aligned # raw
    BY <2>2, <1>2, <1>3, <1>4, <1>5, <1>6, <1>8 DEF FreeNode
  <2> QED BY <2>1, <2>2
<1> DEFINE m == size + 1
           y == mm_shrinkchunk(h1, newnode, m)
<1>12. r.heap = y /\ r.ret = aligned
  <2>1. r = [heap |-> y, ret |-> aligned]
    BY <1>1, <1>11, Zenon
  <2> HIDE DEF y
  <2> QED BY <2>1
<1>13. PICK k \in m .. Size(h1, newnode) : ResizeSound(h1, D, y, newnode, k)
  <2>1. m \in Nat /\ m >= FreeNode /\ m <= Size(h1, newnode)
    BY <1>11
  <2> HIDE DEF m, newnode
  <2> QED BY <2>1, <1>9, ShrinkResizes
<1> HIDE DEF y, newnode
<1>14. PICK E : Swaps(h1, D, y, E, {newnode}, {newnode}) /\ Size(y, newnode) = k
  BY <1>13 DEF ResizeSound
<1>15. Swaps(h, C, y, E, {node}, {newnode})
  BY <1>8, <1>14, SwapsTwice
<1>16. n < Size(y, newnode)
  BY <1>6, <1>11, <1>13, <1>14
<1>17. AlignSound(h, C, y, node, newnode, n)
  BY <1>15, <1>16 DEF AlignSound
<1>18. r.ret \in Nat \ {0} /\ r.ret - 1 = newnode
  BY <1>2, <1>10, <1>12 DEF newnode
<1> QED BY <1>12, <1>17, <1>18 DEF r, node

-----------------------------------------------------------------------------
(* What owners and memcpy write.                                           *)

(* The words of a block that user t holds.                                 *)
Holds(h, b, t, k) == \A i \in 1 .. k : h.mem[b + i - 1] = Data(t, i)

(* A block with its new words, the first ones kept.                        *)
FilledSound(h, C, y, a, t, n) == Scribbled(h, C, y, a) /\ Holds(y, a + 1, t, n)

(* The owner fills its block: the words it kept and the new ones are its   *)
(* own.                                                                    *)
LEMMA OwnerFills ==
  ASSUME NEW h, NEW C, Good(h, C), NEW b \in Nat, b - 1 \in Alloc(h, C), NEW t, NEW n \in Nat, NEW kept \in 0 .. n,
         n < Size(h, b - 1), Holds(h, b, t, kept)
  PROVE  FilledSound(h, C, [h EXCEPT !.mem = Put(b + kept, [i \in 1 .. n - kept |-> Data(t, i + kept)], @)],
                     b - 1, t, n)
<1> DEFINE a == b - 1
           words == [i \in 1 .. n - kept |-> Data(t, i + kept)]
           from == b + kept
           y == PutInto(h, from, words)
<1>1. /\ a \in C \ {0, Top} /\ Chain(h, C) /\ IsHeap(h) /\ C \subseteq Addrs /\ b = a + 1
  BY DEF Alloc, Good, GoodBut, Chain
<1> HIDE DEF a
<1>2. a \in Nat \ {0} /\ Size(h, a) \in Nat /\ a + Size(h, a) \in C
  BY <1>1, OneLies
<1>3. Len(words) = n - kept /\ \A i \in 1 .. n - kept : words[i] = Data(t, i + kept)
  <2>1. n - kept \in Nat
    OBVIOUS
  <2> QED BY <2>1
<1> HIDE DEF words
<1>4. Scribbled(h, C, y, a)
  <2>1. from \in Int /\ Len(words) \in Nat /\ a < from /\ from + Len(words) <= a + Size(h, a)
    BY <1>1, <1>2, <1>3 DEF a
  <2>2. a \in Alloc(h, C)
    BY DEF a
  <2> HIDE DEF from
  <2> QED BY <2>1, <2>2, ScribbleSwaps
<1>5. \A w \in Addrs : y.mem[w] = IF w \in from .. from + Len(words) - 1 THEN words[w - from + 1] ELSE h.mem[w]
  BY <1>1, PutWrites
<1>6. ASSUME NEW i \in 1 .. n PROVE y.mem[b + i - 1] = Data(t, i)
  <2> DEFINE w == b + i - 1
  <2>1. w \in Addrs
    <3>1. a + Size(h, a) <= Top /\ n < Size(h, a) /\ Top \in Int
      BY <1>1, <1>2, HeapAssumption DEF Addrs, Top, a
    <3> QED BY <3>1, <1>1, <1>2 DEF Addrs
  <2>2. CASE i <= kept
    <3>1. w \notin from .. from + Len(words) - 1 /\ i \in 1 .. kept
      BY <1>3, <2>2
    <3>2. y.mem[w] = h.mem[w]
      <4> HIDE DEF w, y, from
      <4> QED BY <1>5, <2>1, <3>1
    <3>3. h.mem[w] = Data(t, i)
      BY <3>1 DEF Holds
    <3> QED BY <3>2, <3>3
  <2>3. CASE ~(i <= kept)
    <3>1. w \in from .. from + Len(words) - 1 /\ w - from + 1 = i - kept /\ i - kept \in 1 .. n - kept
          /\ (i - kept) + kept = i
      BY <1>3, <2>3
    <3>2. y.mem[w] = words[i - kept]
      <4> HIDE DEF w, y, from
      <4> QED BY <1>5, <2>1, <3>1
    <3>3. words[i - kept] = Data(t, (i - kept) + kept)
      BY <3>1, <1>3
    <3> QED BY <3>1, <3>2, <3>3
  <2> QED BY <2>2, <2>3
<1>7. Holds(y, b, t, n)
  BY <1>6 DEF Holds
<1>8. FilledSound(h, C, y, a, t, n)
  BY <1>1, <1>4, <1>7 DEF FilledSound
<1> QED BY <1>8 DEF y, PutInto, words, a

(* memcpy of a whole old block, into a chunk that is larger.               *)
CopiedSound(h, C, y, from, to, k) ==
  Scribbled(h, C, y, to - 1) /\ \A i \in 1 .. k : y.mem[to + i - 1] = h.mem[from + i - 1]

(* memcpy of realloc stays inside the new chunk and copies every word.     *)
LEMMA MemcpyCopies ==
  ASSUME NEW h, NEW C, Good(h, C), NEW from \in Nat, NEW to \in Nat, from - 1 \in C, to - 1 \in Alloc(h, C),
         NEW k \in Nat, k < Size(h, to - 1)
  PROVE  CopiedSound(h, C, CopyWords(h, from, to, k), from, to, k)
<1> DEFINE a == to - 1
           words == Get(from, k, h.mem)
           y == PutInto(h, to, words)
<1>1. /\ a \in C \ {0, Top} /\ Chain(h, C) /\ IsHeap(h) /\ C \subseteq Addrs /\ to = a + 1 /\ a \in Alloc(h, C)
      /\ k < Size(h, a)
  BY DEF Alloc, Good, GoodBut, Chain
<1> HIDE DEF a
<1>2. a \in Nat \ {0} /\ Size(h, a) \in Nat /\ a + Size(h, a) \in C
  BY <1>1, OneLies
<1>3. Len(words) = k /\ \A i \in 1 .. k : words[i] = h.mem[from + i - 1]
  <2>1. words = [i \in 1 .. k |-> h.mem[from + i - 1]]
    BY DEF Get
  <2> HIDE DEF words
  <2> QED BY <2>1
<1> HIDE DEF words
<1>4. Scribbled(h, C, y, a)
  <2>1. to \in Int /\ Len(words) \in Nat /\ a < to /\ to + Len(words) <= a + Size(h, a)
    BY <1>1, <1>2, <1>3
  <2> QED BY <2>1, <1>1, ScribbleSwaps
<1>5. \A w \in Addrs : y.mem[w] = IF w \in to .. to + Len(words) - 1 THEN words[w - to + 1] ELSE h.mem[w]
  BY <1>1, PutWrites
<1> HIDE DEF y
<1>6. ASSUME NEW i \in 1 .. k PROVE y.mem[to + i - 1] = h.mem[from + i - 1]
  <2> DEFINE w == to + i - 1
  <2>1. w \in Addrs /\ w \in to .. to + Len(words) - 1 /\ w - to + 1 = i
    <3>1. a + Size(h, a) <= Top /\ Top \in Int
      BY <1>1, <1>2, HeapAssumption DEF Addrs, Top
    <3> QED BY <3>1, <1>1, <1>2, <1>3 DEF Addrs
  <2> HIDE DEF w
  <2>2. y.mem[w] = words[i]
    BY <1>5, <2>1
  <2> QED BY <2>2, <1>3 DEF w
<1>7. CopiedSound(h, C, y, from, to, k)
  BY <1>1, <1>4, <1>6 DEF CopiedSound, a
<1> QED BY <1>7 DEF CopyWords, PutInto, y, words

(* sched_free's queue link overwrites the block it is given.               *)
LEMMA JunkSwaps ==
  ASSUME NEW h, NEW C, Good(h, C), NEW b \in Nat, b - 1 \in Alloc(h, C), NEW n \in Nat, n < Size(h, b - 1)
  PROVE  Scribbled(h, C, [h EXCEPT !.mem = Put(b, Junks(n), @)], b - 1)
<1> DEFINE a == b - 1
           words == Junks(n)
<1>1. a \in C \ {0, Top} /\ Chain(h, C) /\ b = a + 1 /\ a \in Alloc(h, C) /\ n < Size(h, a)
  BY DEF Alloc, Good, GoodBut
<1> HIDE DEF a
<1>2. a \in Nat \ {0} /\ Size(h, a) \in Nat
  BY <1>1, OneLies
<1>3. Len(words) = n
  BY DEF Junks
<1> HIDE DEF words
<1>4. b \in Int /\ Len(words) \in Nat /\ a < b /\ b + Len(words) <= a + Size(h, a)
  BY <1>1, <1>2, <1>3
<1>5. Scribbled(h, C, PutInto(h, b, words), a)
  BY <1>1, <1>4, ScribbleSwaps
<1> QED BY <1>5 DEF PutInto, words, a

-----------------------------------------------------------------------------
(* Ownership.  A block is in the hands of a user, of a task's call in      *)
(* progress, or in the queue of delayed deallocations.                     *)
Tasks == Users \cup {Collector}

Hands == (Users \X {"ptr"}) \cup (Tasks \X {"mem"})

InHand(p, c) == [s \in Hands |-> IF s[2] = "ptr" THEN p[s[1]] ELSE c[s[1]].mem]

(* The allocated chunks K are those in the hands f and in the queue d,     *)
(* each of them once.                                                      *)
Owned(K, f, d) ==
  /\ \A s, r \in Hands : f[s] = f[r] /\ f[s] # NULL => s = r
  /\ Distinct(d)
  /\ \A s \in Hands : f[s] # NULL => f[s] - 1 \in K /\ ~Linked(d, f[s])
  /\ \A b \in Nat : Linked(d, b) => b - 1 \in K
  /\ \A a \in K : Linked(d, a + 1) \/ \E s \in Hands : f[s] = a + 1

Chunk(b) == IF b = NULL THEN {} ELSE {b - 1}

(* What one hand has is taken, given back or exchanged.                    *)
LEMMA HandChanges ==
  ASSUME NEW K \in SUBSET Nat, NEW B \in SUBSET Nat, NEW f \in [Hands -> Nat], NEW g \in [Hands -> Nat],
         NEW d \in Seq(Nat \ {0}), Owned(K, f, d), NEW s \in Hands, \A r \in Hands \ {s} : g[r] = f[r],
         B = (K \ Chunk(f[s])) \cup Chunk(g[s]), Chunk(g[s]) \cap (K \ Chunk(f[s])) = {}
  PROVE  Owned(B, g, d)
<1>1. \A b \in Nat : Linked(d, b) => b # NULL
  BY DEF Linked, NULL
<1>2. \A b, e \in Nat : b - 1 = e - 1 => b = e
  OBVIOUS
<1>3. \A r \in Hands \ {s} : g[r] # NULL => g[r] - 1 \in K \ Chunk(f[s])
  BY <1>2 DEF Owned, Chunk
<1>4. g[s] # NULL => \A r \in Hands \ {s} : g[r] # g[s]
  BY <1>2, <1>3 DEF Chunk
<1>5. \A b \in Nat : Linked(d, b) => b - 1 \in K \ Chunk(f[s])
  BY <1>1, <1>2 DEF Owned, Chunk
<1>6. g[s] # NULL => g[s] - 1 \in B /\ ~Linked(d, g[s])
  BY <1>5 DEF Chunk
<1>7. \A r, q \in Hands : g[r] = g[q] /\ g[r] # NULL => r = q
  BY <1>4 DEF Owned
<1>8. \A r \in Hands : g[r] # NULL => g[r] - 1 \in B /\ ~Linked(d, g[r])
  BY <1>3, <1>6 DEF Owned
<1>9. ASSUME NEW a \in B PROVE Linked(d, a + 1) \/ \E r \in Hands : g[r] = a + 1
  <2>1. CASE a \in Chunk(g[s])
    <3>1. g[s] = a + 1
      BY <2>1 DEF Chunk
    <3> QED BY <3>1
  <2>2. CASE a \notin Chunk(g[s])
    <3>1. a \in K /\ a \notin Chunk(f[s])
      BY <2>2
    <3>2. CASE Linked(d, a + 1)
      BY <3>2
    <3>3. CASE ~Linked(d, a + 1)
      <4>1. PICK r \in Hands : f[r] = a + 1
        BY <3>1, <3>3 DEF Owned
      <4>2. r # s
        BY <3>1, <4>1 DEF Chunk, NULL
      <4> QED BY <4>1, <4>2
    <3> QED BY <3>2, <3>3
  <2> QED BY <2>1, <2>2
<1> QED BY <1>5, <1>7, <1>8, <1>9 DEF Owned

(* A block passes from one hand to another, that is empty.                 *)
LEMMA HandsPass ==
  ASSUME NEW K \in SUBSET Nat, NEW f \in [Hands -> Nat], NEW g \in [Hands -> Nat],
         NEW d \in Seq(Nat \ {0}), Owned(K, f, d), NEW s \in Hands, NEW r \in Hands, s # r,
         f[r] = NULL, g[r] = f[s], g[s] = NULL, \A q \in Hands \ {s, r} : g[q] = f[q]
  PROVE  Owned(K, g, d)
<1>1. \A q, p \in Hands : g[q] = g[p] /\ g[q] # NULL => q = p
  BY DEF Owned
<1>2. \A q \in Hands : g[q] # NULL => g[q] - 1 \in K /\ ~Linked(d, g[q])
  BY DEF Owned
<1>3. ASSUME NEW a \in K, ~Linked(d, a + 1) PROVE \E q \in Hands : g[q] = a + 1
  <2>1. PICK q \in Hands : f[q] = a + 1
    BY <1>3 DEF Owned
  <2>2. CASE q = s
    BY <2>1, <2>2
  <2>3. CASE q # s
    <3>1. q # r
      BY <2>1 DEF NULL
    <3> QED BY <2>1, <2>3, <3>1
  <2> QED BY <2>2, <2>3
<1> QED BY <1>1, <1>2, <1>3 DEF Owned

(* A block goes into the queue of delayed deallocations.                   *)
LEMMA HandDelays ==
  ASSUME NEW K \in SUBSET Nat, NEW f \in [Hands -> Nat], NEW g \in [Hands -> Nat],
         NEW d \in Seq(Nat \ {0}), Owned(K, f, d), NEW s \in Hands, f[s] # NULL, g[s] = NULL,
         \A r \in Hands \ {s} : g[r] = f[r]
  PROVE  Owned(K, g, Append(d, f[s])) /\ Append(d, f[s]) \in Seq(Nat \ {0})
<1> DEFINE b == f[s]
           e == Append(d, b)
           S == Nat \ {0}
<1>1. b \in S /\ ~Linked(d, b)
  BY DEF Owned, NULL
<1> HIDE DEF b
<1>2. /\ dq_addlast(d, b) \in Seq(S) /\ Distinct(dq_addlast(d, b))
      /\ \A x \in S : Linked(dq_addlast(d, b), x) <=> Linked(d, x) \/ x = b
  <2>1. Distinct(d)
    BY Zenon DEF Owned
  <2>3. \A n \in DOMAIN d : d[n] # b
    BY <1>1, Zenon DEF Linked
  <2>4. d \in Seq(S)
    OBVIOUS
  <2> HIDE DEF S
  <2> QED BY <2>1, <2>3, <2>4, <1>1, AddLastLinks
<1>3. e \in Seq(S) /\ Distinct(e) /\ \A x \in S : Linked(e, x) <=> Linked(d, x) \/ x = b
  BY <1>2 DEF dq_addlast
<1> HIDE DEF e
<1>4. ~Linked(e, NULL)
  BY <1>3 DEF Linked, NULL
<1>5. \A r, q \in Hands : g[r] = g[q] /\ g[r] # NULL => r = q
  BY DEF Owned
<1>6. \A r \in Hands : g[r] # NULL => g[r] - 1 \in K /\ ~Linked(e, g[r])
  <2> TAKE r \in Hands
  <2> HAVE g[r] # NULL
  <2>1. r # s /\ g[r] = f[r] /\ g[r] # b /\ g[r] \in S
    BY DEF Owned, NULL, b
  <2> QED BY <2>1, <1>3 DEF Owned
<1>7. \A x \in Nat : Linked(e, x) => x - 1 \in K
  <2> TAKE x \in Nat
  <2> HAVE Linked(e, x)
  <2>1. x \in S /\ (Linked(d, x) \/ x = b)
    BY <1>3, <1>4 DEF NULL
  <2> QED BY <2>1 DEF Owned, b
<1>8. ASSUME NEW a \in K, ~Linked(e, a + 1) PROVE \E q \in Hands : g[q] = a + 1
  <2>1. a + 1 \in S /\ ~Linked(d, a + 1) /\ a + 1 # b
    BY <1>3, <1>8
  <2>2. PICK q \in Hands : f[q] = a + 1
    BY <2>1 DEF Owned
  <2>3. q # s
    BY <2>1, <2>2 DEF b
  <2> QED BY <2>2, <2>3
<1>9. Owned(K, g, e)
  BY <1>3, <1>5, <1>6, <1>7, <1>8 DEF Owned
<1> QED BY <1>3, <1>9 DEF e, b

(* The collector takes the first block from the queue.                     *)
LEMMA HandCollects ==
  ASSUME NEW K \in SUBSET Nat, NEW f \in [Hands -> Nat], NEW g \in [Hands -> Nat],
         NEW d \in Seq(Nat \ {0}), d # <<>>, Owned(K, f, d), NEW s \in Hands, f[s] = NULL, g[s] = Head(d),
         \A r \in Hands \ {s} : g[r] = f[r]
  PROVE  Owned(K, g, Tail(d)) /\ Tail(d) \in Seq(Nat \ {0}) /\ Head(d) \in Nat \ {0}
<1> DEFINE b == Head(d)
           e == Tail(d)
           S == Nat \ {0}
<1>1. /\ b \in S /\ e \in Seq(S) /\ Len(e) = Len(d) - 1 /\ Len(d) \in Nat \ {0}
      /\ DOMAIN d = 1 .. Len(d) /\ DOMAIN e = 1 .. Len(e) /\ b = d[1]
      /\ \A i \in 1 .. Len(e) : e[i] = d[i + 1]
  BY HeadTailProperties, LenProperties
<1> HIDE DEF b, e
<1>2. Distinct(e)
  <2>1. \A i, j \in DOMAIN d : d[i] = d[j] => i = j
    BY Zenon DEF Owned, Distinct
  <2>2. ASSUME NEW i \in 1 .. Len(e), NEW j \in 1 .. Len(e), e[i] = e[j] PROVE i = j
    <3>1. e[i] = d[i + 1] /\ e[j] = d[j + 1]
      BY <1>1, Zenon
    <3>2. i + 1 \in DOMAIN d /\ j + 1 \in DOMAIN d
      BY <1>1
    <3>3. i + 1 = j + 1
      BY <2>1, <2>2, <3>1, <3>2, Zenon
    <3> QED BY <1>1, <3>3
  <2> QED BY <2>2, <1>1, Zenon DEF Distinct
<1>3. ~Linked(e, b)
  <2>1. \A i, j \in DOMAIN d : d[i] = d[j] => i = j
    BY Zenon DEF Owned, Distinct
  <2>2. ASSUME NEW i \in 1 .. Len(e), e[i] = b PROVE FALSE
    <3>1. e[i] = d[i + 1]
      BY <1>1, Zenon
    <3>2. i + 1 \in DOMAIN d /\ 1 \in DOMAIN d
      BY <1>1
    <3>3. i + 1 = 1
      BY <1>1, <2>1, <2>2, <3>1, <3>2, Zenon
    <3> QED BY <1>1, <3>3
  <2> QED BY <2>2, <1>1, Zenon DEF Linked
<1>4. \A x : Linked(d, x) <=> Linked(e, x) \/ x = b
  <2> TAKE x
  <2>1. ASSUME Linked(d, x), x # b PROVE Linked(e, x)
    <3>1. PICK i \in 1 .. Len(d) : d[i] = x
      BY <1>1, <2>1 DEF Linked
    <3>2. i - 1 \in 1 .. Len(e) /\ (i - 1) + 1 = i
      BY <1>1, <2>1, <3>1
    <3>3. e[i - 1] = x
      BY <1>1, <3>1, <3>2
    <3> QED BY <1>1, <3>2, <3>3 DEF Linked
  <2>2. ASSUME Linked(e, x) PROVE Linked(d, x)
    <3>1. PICK i \in 1 .. Len(e) : e[i] = x
      BY <1>1, <2>2 DEF Linked
    <3>2. i + 1 \in 1 .. Len(d)
      BY <1>1
    <3> QED BY <1>1, <3>1, <3>2 DEF Linked
  <2>3. Linked(d, b)
    <3>1. 1 \in DOMAIN d /\ d[1] = b
      BY <1>1
    <3> QED BY <3>1, Zenon DEF Linked
  <2> QED BY <2>1, <2>2, <2>3
<1>5. b - 1 \in K /\ b # NULL
  BY <1>1, <1>4 DEF Owned, NULL
<1>6. \A r \in Hands \ {s} : f[r] # b
  BY <1>4, <1>5 DEF Owned
<1>7. \A r, q \in Hands : g[r] = g[q] /\ g[r] # NULL => r = q
  BY <1>6 DEF Owned, b
<1>8. \A r \in Hands : g[r] # NULL => g[r] - 1 \in K /\ ~Linked(e, g[r])
  BY <1>3, <1>4, <1>5 DEF Owned, b
<1>9. \A x \in Nat : Linked(e, x) => x - 1 \in K
  BY <1>4 DEF Owned
<1>10. ASSUME NEW a \in K, ~Linked(e, a + 1) PROVE \E q \in Hands : g[q] = a + 1
  <2>1. CASE a + 1 = b
    BY <2>1 DEF b
  <2>2. CASE a + 1 # b
    <3>1. PICK q \in Hands : f[q] = a + 1
      BY <1>4, <1>10, <2>2 DEF Owned
    <3>2. q # s
      BY <3>1 DEF NULL
    <3> QED BY <3>1, <3>2
  <2> QED BY <2>1, <2>2
<1>11. Owned(K, g, e)
  BY <1>2, <1>7, <1>8, <1>9, <1>10 DEF Owned
<1> QED BY <1>1, <1>11 DEF b, e

-----------------------------------------------------------------------------
(* The inductive invariant.                                                *)
Calls == [at : {"user", "realloc_malloc", "realloc_free", "align", "kfree"}, n : Nat, align : Nat, mem : Nat]

(* User t with block p of l words, in call c: the block's chunk has room   *)
(* for the words and holds them, and so do the chunks that the sections of *)
(* realloc and memalign hand on.                                           *)
UserSound(h, t, p, l, c, prog) ==
  /\ l = 0 <=> p = NULL
  /\ p # NULL => l < Size(h, p - 1) /\ Holds(h, p, t, l)
  /\ \/ c = Out
     \/ /\ c.at = "realloc_malloc" /\ c.n \in Requests /\ "realloc" \in prog /\ p # NULL
        /\ c.mem = NULL /\ l <= c.n /\ Size(h, p - 1) < AlignUp(c.n + 1)
     \/ /\ c.at = "realloc_free" /\ c.n \in Requests /\ "realloc" \in prog /\ p # NULL
        /\ c.mem # NULL /\ l <= c.n /\ c.n < Size(h, c.mem - 1) /\ Holds(h, c.mem, t, l)
     \/ /\ c.at = "align" /\ c.n \in Requests /\ "memalign" \in prog /\ p = NULL
        /\ c.mem # NULL /\ c.align > FreeNode /\ AlignUp(c.n) + 2 * c.align < Size(h, c.mem - 1)

CollectorSound(c) == c = Out \/ (c.at = "kfree" /\ c.mem # NULL)

(* The heap with chunks C, in a program prog, and the hands the blocks are *)
(* in.                                                                     *)
Kept(h, C, f, d, prog) ==
  /\ Good(h, C) /\ ("memalign" \notin prog => Evens(h, C))
  /\ d \in Seq(Nat \ {0}) /\ Owned(Alloc(h, C), f, d)

HInv ==
  /\ ptr \in [Users -> Nat] /\ len \in [Users -> Nat] /\ call \in [Tasks -> Calls] /\ program \in Programs
  /\ \E C : Kept(heap, C, InHand(ptr, call), delayed, program)
  /\ \A t \in Users : UserSound(heap, t, ptr[t], len[t], call[t], program)
  /\ CollectorSound(call[Collector])

(* The hands.                                                              *)
LEMMA HandsAre ==
  ASSUME NEW p \in [Users -> Nat], NEW c \in [Tasks -> Calls]
  PROVE  /\ InHand(p, c) \in [Hands -> Nat]
         /\ \A t \in Users : <<t, "ptr">> \in Hands /\ InHand(p, c)[<<t, "ptr">>] = p[t]
         /\ \A t \in Tasks : <<t, "mem">> \in Hands /\ InHand(p, c)[<<t, "mem">>] = c[t].mem
<1>1. \A s \in Hands : \/ \E t \in Users : s = <<t, "ptr">>
                       \/ \E t \in Tasks : s = <<t, "mem">>
  BY DEF Hands
<1>2. \A t \in Tasks : c[t].mem \in Nat
  BY DEF Calls
<1>3. \A t \in Users : <<t, "ptr">> \in Hands
  BY DEF Hands
<1>4. \A t \in Tasks : <<t, "mem">> \in Hands
  BY DEF Hands
<1>5. \A t \in Users : InHand(p, c)[<<t, "ptr">>] = p[t]
  BY <1>3 DEF InHand
<1>6. \A t \in Tasks : InHand(p, c)[<<t, "mem">>] = c[t].mem
  BY <1>4 DEF InHand
<1>7. \A s \in Hands : InHand(p, c)[s] \in Nat
  BY <1>1, <1>2, <1>5, <1>6
<1>8. InHand(p, c) \in [Hands -> Nat]
  <2>1. InHand(p, c) = [s \in Hands |-> InHand(p, c)[s]]
    BY DEF InHand
  <2> HIDE DEF InHand
  <2> QED BY <2>1, <1>7
<1> QED BY <1>3, <1>4, <1>5, <1>6, <1>8

(* Hands of task t alone differ, if their contents do.                     *)
Differ(p, c, q, e, t) ==
  /\ \A s \in Hands : s # <<t, "ptr">> /\ s # <<t, "mem">> => InHand(q, e)[s] = InHand(p, c)[s]
  /\ t \in Users /\ q[t] = p[t] => InHand(q, e)[<<t, "ptr">>] = InHand(p, c)[<<t, "ptr">>]
  /\ e[t].mem = c[t].mem => InHand(q, e)[<<t, "mem">>] = InHand(p, c)[<<t, "mem">>]

(* A step of task t changes what is in the hands of t alone.               *)
LEMMA HandsDiffer ==
  ASSUME NEW p \in [Users -> Nat], NEW c \in [Tasks -> Calls], NEW q \in [Users -> Nat], NEW e \in [Tasks -> Calls],
         NEW t \in Tasks, \A u \in Users \ {t} : q[u] = p[u], \A u \in Tasks \ {t} : e[u].mem = c[u].mem
  PROVE  Differ(p, c, q, e, t)
<1>1. ASSUME NEW s \in Hands, s # <<t, "ptr">>, s # <<t, "mem">> PROVE InHand(q, e)[s] = InHand(p, c)[s]
  <2>1. CASE \E u \in Users : s = <<u, "ptr">>
    <3>1. PICK u \in Users : s = <<u, "ptr">>
      BY <2>1
    <3>2. u # t
      BY <1>1, <3>1
    <3> QED BY <3>1, <3>2, HandsAre
  <2>2. CASE \E u \in Tasks : s = <<u, "mem">>
    <3>1. PICK u \in Tasks : s = <<u, "mem">>
      BY <2>2
    <3>2. u # t
      BY <1>1, <3>1
    <3> QED BY <3>1, <3>2, HandsAre
  <2> QED BY <2>1, <2>2 DEF Hands
<1>2. /\ InHand(q, e)[<<t, "mem">>] = e[t].mem /\ InHand(p, c)[<<t, "mem">>] = c[t].mem
      /\ t \in Users => InHand(q, e)[<<t, "ptr">>] = q[t] /\ InHand(p, c)[<<t, "ptr">>] = p[t]
  BY HandsAre
<1> QED BY <1>1, <1>2 DEF Differ

(* The blocks in the hands of others than task t are what they were.       *)
OtherHands(h, y, f, t) ==
  \A r \in Hands : r[1] # t /\ f[r] # NULL => SameBlock(h, y, f[r] - 1) /\ Size(h, f[r] - 1) \in Nat

(* A section that swaps the chunk of one hand.                             *)
HandSwapped(h, f, y, D, g, d, s, prog) == Kept(y, D, g, d, prog) /\ OtherHands(h, y, f, s[1])

(* A section that swaps the chunk in one hand keeps heap and hands in      *)
(* agreement, and the blocks in all other hands.                           *)
LEMMA SwapKeeps ==
  ASSUME NEW h, NEW C, NEW f \in [Hands -> Nat], NEW g \in [Hands -> Nat], NEW d, NEW prog, Kept(h, C, f, d, prog),
         NEW s \in Hands, \A r \in Hands \ {s} : g[r] = f[r],
         NEW y, NEW D, Swaps(h, C, y, D, Chunk(f[s]), Chunk(g[s])), "memalign" \notin prog => Evens(y, D)
  PROVE  HandSwapped(h, f, y, D, g, d, s, prog)
<1> DEFINE K == Alloc(h, C)
           B == Alloc(y, D)
<1>1. /\ Good(h, C) /\ d \in Seq(Nat \ {0}) /\ Owned(K, f, d) /\ Good(y, D)
      /\ B = (K \ Chunk(f[s])) \cup Chunk(g[s]) /\ Chunk(g[s]) \cap (K \ Chunk(f[s])) = {}
      /\ \A c \in K \ Chunk(f[s]) : SameBlock(h, y, c)
  BY DEF Kept, Swaps
<1>2. K \subseteq Nat /\ B \subseteq Nat /\ \A c \in K : Size(h, c) \in Nat
  <2>1. Chain(h, C) /\ Chain(y, D)
    BY <1>1 DEF Good, GoodBut
  <2>2. C \subseteq Nat /\ D \subseteq Nat /\ \A c \in C : Size(h, c) \in Nat
    BY <2>1 DEF Chain, Addrs
  <2> QED BY <2>2 DEF Alloc
<1> HIDE DEF K, B
<1>3. Owned(B, g, d)
  BY <1>1, <1>2, HandChanges
<1>4. \A r \in Hands \ {s} : f[r] # NULL => f[r] - 1 \in K \ Chunk(f[s])
  <2> TAKE r \in Hands \ {s}
  <2> HAVE f[r] # NULL
  <2>1. f[r] - 1 \in K /\ f[r] # f[s] /\ f[r] \in Nat /\ f[s] \in Nat
    BY <1>1 DEF Owned
  <2> QED BY <2>1 DEF Chunk
<1>5. OtherHands(h, y, f, s[1])
  BY <1>1, <1>2, <1>4 DEF OtherHands
<1> QED BY <1>1, <1>3, <1>5 DEF HandSwapped, Kept, B

(* A user is as sound in a heap where its blocks are the same.             *)
LEMMA HoldsKept ==
  ASSUME NEW h, NEW y, NEW b \in Nat, NEW t, NEW k \in Nat, SameBlock(h, y, b - 1), Size(h, b - 1) \in Nat,
         k < Size(h, b - 1), Holds(h, b, t, k)
  PROVE  Holds(y, b, t, k)
<1>1. ASSUME NEW i \in 1 .. k PROVE y.mem[b + i - 1] = Data(t, i)
  <2> DEFINE a == b - 1
             w == b + i - 1
  <2>1. w \in a + 1 .. a + Size(h, a) - 1
    OBVIOUS
  <2>2. \A v \in a + 1 .. a + Size(h, a) - 1 : y.mem[v] = h.mem[v]
    BY DEF SameBlock
  <2>3. h.mem[w] = Data(t, i)
    BY DEF Holds
  <2> HIDE DEF w, a
  <2>4. y.mem[w] = Data(t, i)
    BY <2>1, <2>2, <2>3
  <2> QED BY <2>4 DEF w
<1> QED BY <1>1 DEF Holds

(* A user whose blocks are kept stays sound.                               *)
LEMMA UserKept ==
  ASSUME NEW h, NEW y, NEW t, NEW p \in Nat, NEW l \in Nat, NEW c \in Calls, NEW prog, UserSound(h, t, p, l, c, prog),
         p # NULL => SameBlock(h, y, p - 1) /\ Size(h, p - 1) \in Nat,
         c.mem # NULL => SameBlock(h, y, c.mem - 1) /\ Size(h, c.mem - 1) \in Nat
  PROVE  UserSound(y, t, p, l, c, prog)
<1>1. c.mem \in Nat /\ c.n \in Nat /\ c.align \in Nat
  BY DEF Calls
<1>2. p # NULL => Size(y, p - 1) = Size(h, p - 1) /\ Holds(y, p, t, l)
  BY HoldsKept DEF UserSound, SameBlock
<1>3. c.mem # NULL => Size(y, c.mem - 1) = Size(h, c.mem - 1)
  BY DEF SameBlock
<1>4. c.at = "realloc_free" => Holds(y, c.mem, t, l)
  <2> HAVE c.at = "realloc_free"
  <2>1. c # Out
    BY DEF Out
  <2>2. c.mem # NULL /\ l <= c.n /\ c.n < Size(h, c.mem - 1) /\ Holds(h, c.mem, t, l)
    BY <2>1 DEF UserSound
  <2>3. l < Size(h, c.mem - 1)
    BY <1>1, <2>2
  <2> QED BY <1>1, <2>2, <2>3, HoldsKept
<1> QED BY <1>1, <1>2, <1>3, <1>4 DEF UserSound

(* The other users are, after the swap in a hand of task t.                *)
LEMMA OthersKept ==
  ASSUME HInv, NEW t \in Tasks, NEW y, OtherHands(heap, y, InHand(ptr, call), t)
  PROVE  \A u \in Users \ {t} : UserSound(y, u, ptr[u], len[u], call[u], program)
<1> DEFINE f == InHand(ptr, call)
<1> TAKE u \in Users \ {t}
<1>1. /\ ptr \in [Users -> Nat] /\ call \in [Tasks -> Calls] /\ u \in Tasks
      /\ UserSound(heap, u, ptr[u], len[u], call[u], program) /\ len[u] \in Nat
  BY DEF HInv, Tasks
<1>2. /\ <<u, "ptr">> \in Hands /\ f[<<u, "ptr">>] = ptr[u]
      /\ <<u, "mem">> \in Hands /\ f[<<u, "mem">>] = call[u].mem
  BY <1>1, HandsAre
<1>3. <<u, "ptr">>[1] # t /\ <<u, "mem">>[1] # t
  OBVIOUS
<1> HIDE DEF f
<1>4. ptr[u] # NULL => SameBlock(heap, y, ptr[u] - 1) /\ Size(heap, ptr[u] - 1) \in Nat
  BY <1>2, <1>3 DEF OtherHands, f
<1>5. call[u].mem # NULL => SameBlock(heap, y, call[u].mem - 1) /\ Size(heap, call[u].mem - 1) \in Nat
  BY <1>2, <1>3 DEF OtherHands, f
<1> QED BY <1>1, <1>4, <1>5, UserKept

(* What the owner's writes leave: a user whose call has returned.          *)
LEMMA FilledIs ==
  ASSUME NEW h, NEW C, NEW b \in Nat \ {0}, b - 1 \in Alloc(h, C), NEW t, NEW n \in Nat \ {0}, n < Size(h, b - 1),
         NEW y, FilledSound(h, C, y, b - 1, t, n), NEW prog
  PROVE  UserSound(y, t, b, n, Out, prog)
<1>1. b - 1 \in C
  BY DEF Alloc
<1>2. Size(y, b - 1) = Size(h, b - 1)
  BY <1>1 DEF FilledSound, Scribbled
<1>3. Holds(y, b, t, n)
  BY DEF FilledSound
<1> QED BY <1>2, <1>3 DEF UserSound, NULL

(* The invariant after a step of task t.                                   *)
StepOf(t) ==
  /\ ptr' \in [Users -> Nat] /\ len' \in [Users -> Nat] /\ call' \in [Tasks -> Calls] /\ program' = program
  /\ \A u \in Users \ {t} : ptr'[u] = ptr[u] /\ len'[u] = len[u]
  /\ \A u \in Tasks \ {t} : call'[u] = call[u]

SoundAfter(t) ==
  /\ t \in Users => UserSound(heap', t, ptr'[t], len'[t], call'[t], program)
  /\ t = Collector => CollectorSound(call'[t])

(* The invariant after a step of one task: what is to be shown of it.      *)
LEMMA InvAfter ==
  ASSUME HInv, NEW t \in Tasks, StepOf(t), SoundAfter(t),
         NEW D, Kept(heap', D, InHand(ptr', call'), delayed', program),
         OtherHands(heap, heap', InHand(ptr, call), t)
  PROVE  HInv'
<1>1. /\ ptr' \in [Users -> Nat] /\ len' \in [Users -> Nat] /\ call' \in [Tasks -> Calls] /\ program' \in Programs
      /\ program' = program
  BY DEF StepOf, HInv
<1>2. \E C : Kept(heap', C, InHand(ptr', call'), delayed', program')
  BY <1>1
<1>3. \A u \in Users \ {t} : UserSound(heap', u, ptr[u], len[u], call[u], program)
  BY OthersKept
<1>4. ASSUME NEW u \in Users PROVE UserSound(heap', u, ptr'[u], len'[u], call'[u], program')
  <2>1. u \in Tasks
    BY DEF Tasks
  <2>2. CASE u = t
    BY <2>2, <1>1 DEF SoundAfter
  <2>3. CASE u # t
    BY <1>1, <1>3, <2>1, <2>3 DEF StepOf
  <2> QED BY <2>2, <2>3
<1>5. CollectorSound(call'[Collector])
  <2>1. CASE t = Collector
    BY <2>1 DEF SoundAfter
  <2>2. CASE t # Collector
    BY <2>2 DEF StepOf, HInv, Tasks
  <2> QED BY <2>1, <2>2
<1> QED BY <1>1, <1>2, <1>4, <1>5 DEF HInv

(* After a step that swaps the chunk of a user's block.                    *)
LEMMA PtrSwaps ==
  ASSUME HInv, NEW t \in Users, StepOf(t), SoundAfter(t), delayed' = delayed, call'[t].mem = call[t].mem,
         NEW C, Kept(heap, C, InHand(ptr, call), delayed, program),
         NEW D, Swaps(heap, C, heap', D, Chunk(ptr[t]), Chunk(ptr'[t])),
         "memalign" \notin program => Evens(heap', D)
  PROVE  HInv'
<1> DEFINE f == InHand(ptr, call)
           g == InHand(ptr', call')
           s == <<t, "ptr">>
<1>1. /\ ptr \in [Users -> Nat] /\ call \in [Tasks -> Calls] /\ t \in Tasks
      /\ ptr' \in [Users -> Nat] /\ call' \in [Tasks -> Calls]
      /\ \A u \in Users \ {t} : ptr'[u] = ptr[u]
      /\ \A u \in Tasks \ {t} : call'[u].mem = call[u].mem
  BY DEF HInv, StepOf, Tasks
<1>2. /\ f \in [Hands -> Nat] /\ g \in [Hands -> Nat] /\ s \in Hands /\ f[s] = ptr[t] /\ g[s] = ptr'[t]
  BY <1>1, HandsAre
<1>3. /\ \A r \in Hands : r # s /\ r # <<t, "mem">> => g[r] = f[r]
      /\ g[<<t, "mem">>] = f[<<t, "mem">>]
  <2>1. Differ(ptr, call, ptr', call', t)
    BY <1>1, HandsDiffer
  <2> QED BY <2>1 DEF Differ
<1>4. \A r \in Hands \ {s} : g[r] = f[r]
  BY <1>3
<1>5. Kept(heap, C, f, delayed, program)
  OBVIOUS
<1>6. s[1] = t
  OBVIOUS
<1> HIDE DEF f, g, s
<1>7. HandSwapped(heap, f, heap', D, g, delayed, s, program)
  BY <1>2, <1>4, <1>5, SwapKeeps
<1>8. Kept(heap', D, g, delayed', program) /\ OtherHands(heap, heap', f, t)
  BY <1>6, <1>7 DEF HandSwapped
<1>9. /\ Kept(heap', D, InHand(ptr', call'), delayed', program)
      /\ OtherHands(heap, heap', InHand(ptr, call), t)
  BY <1>8 DEF f, g
<1> QED BY <1>1, <1>9, InvAfter

(* Or that of the block in a task's call.                                  *)
LEMMA MemSwaps ==
  ASSUME HInv, NEW t \in Tasks, StepOf(t), SoundAfter(t), delayed' = delayed, ptr' = ptr,
         NEW C, Kept(heap, C, InHand(ptr, call), delayed, program),
         NEW D, Swaps(heap, C, heap', D, Chunk(call[t].mem), Chunk(call'[t].mem)),
         "memalign" \notin program => Evens(heap', D)
  PROVE  HInv'
<1> DEFINE f == InHand(ptr, call)
           g == InHand(ptr', call')
           s == <<t, "mem">>
<1>1. /\ ptr \in [Users -> Nat] /\ call \in [Tasks -> Calls]
      /\ ptr' \in [Users -> Nat] /\ call' \in [Tasks -> Calls]
      /\ \A u \in Users \ {t} : ptr'[u] = ptr[u]
      /\ \A u \in Tasks \ {t} : call'[u].mem = call[u].mem
  BY DEF HInv, StepOf
<1>2. /\ f \in [Hands -> Nat] /\ g \in [Hands -> Nat] /\ s \in Hands /\ f[s] = call[t].mem /\ g[s] = call'[t].mem
  BY <1>1, HandsAre
<1>3. /\ \A r \in Hands : r # s /\ r # <<t, "ptr">> => g[r] = f[r]
      /\ t \in Users => g[<<t, "ptr">>] = f[<<t, "ptr">>]
  <2>1. Differ(ptr, call, ptr', call', t)
    BY <1>1, HandsDiffer
  <2> QED BY <2>1 DEF Differ
<1>4. \A r \in Hands \ {s} : g[r] = f[r]
  BY <1>3 DEF Hands
<1>5. Kept(heap, C, f, delayed, program)
  OBVIOUS
<1>6. s[1] = t
  OBVIOUS
<1> HIDE DEF f, g, s
<1>7. HandSwapped(heap, f, heap', D, g, delayed, s, program)
  BY <1>2, <1>4, <1>5, SwapKeeps
<1>8. Kept(heap', D, g, delayed', program) /\ OtherHands(heap, heap', f, t)
  BY <1>6, <1>7 DEF HandSwapped
<1>9. /\ Kept(heap', D, InHand(ptr', call'), delayed', program)
      /\ OtherHands(heap, heap', InHand(ptr, call), t)
  BY <1>8 DEF f, g
<1> QED BY <1>1, <1>9, InvAfter

(* What the invariant says of a user that is about to make a call.         *)
LEMMA UserHas ==
  ASSUME HInv, NEW C, Kept(heap, C, InHand(ptr, call), delayed, program), NEW t \in Users
  PROVE  /\ Good(heap, C) /\ ("memalign" \notin program => Evens(heap, C))
         /\ ptr[t] \in Nat /\ len[t] \in Nat /\ call[t] \in Calls /\ t \in Tasks
         /\ UserSound(heap, t, ptr[t], len[t], call[t], program)
         /\ ptr[t] # NULL => /\ ptr[t] - 1 \in Alloc(heap, C) /\ Chunk(ptr[t]) = {ptr[t] - 1}
                             /\ len[t] \in Nat \ {0}
         /\ call[t].mem # NULL => call[t].mem - 1 \in Alloc(heap, C) /\ Chunk(call[t].mem) = {call[t].mem - 1}
         /\ ptr[t] # NULL /\ call[t].mem # NULL => ptr[t] # call[t].mem
<1> DEFINE f == InHand(ptr, call)
<1>1. /\ ptr \in [Users -> Nat] /\ len \in [Users -> Nat] /\ call \in [Tasks -> Calls] /\ t \in Tasks
      /\ UserSound(heap, t, ptr[t], len[t], call[t], program)
  BY DEF HInv, Tasks
<1>2. /\ <<t, "ptr">> \in Hands /\ f[<<t, "ptr">>] = ptr[t]
      /\ <<t, "mem">> \in Hands /\ f[<<t, "mem">>] = call[t].mem
      /\ <<t, "ptr">> # <<t, "mem">>
  BY <1>1, HandsAre
<1>3. Good(heap, C) /\ ("memalign" \notin program => Evens(heap, C)) /\ Owned(Alloc(heap, C), f, delayed)
  BY DEF Kept
<1> HIDE DEF f
<1>4. /\ ptr[t] # NULL => ptr[t] - 1 \in Alloc(heap, C)
      /\ call[t].mem # NULL => call[t].mem - 1 \in Alloc(heap, C)
      /\ ptr[t] # NULL /\ call[t].mem # NULL => ptr[t] # call[t].mem
  BY <1>2, <1>3 DEF Owned
<1>5. ptr[t] # NULL => len[t] \in Nat \ {0}
  BY <1>1 DEF UserSound
<1> QED BY <1>1, <1>3, <1>4, <1>5 DEF Chunk

-----------------------------------------------------------------------------
(* The calls keep the invariant.                                           *)

(* No program aligns blocks and resizes blocks.  Both together produce     *)
(* chunks that no free node fits in.                                       *)
Separate == \A prog \in Programs : ~({"memalign", "realloc"} \subseteq prog)

(* A task outside of any call has nothing in hand.                         *)
LEMMA OutIsCall == Out \in Calls /\ Out.mem = NULL /\ Out.at = "user"
BY DEF Out, Calls, NULL

(* A call returns.                                                         *)
LEMMA ReturnsStep ==
  ASSUME HInv, NEW t \in Users, NEW x, NEW b \in Nat, NEW n \in Nat, NEW kept, Returns(t, x, b, n, kept),
         program' = program
  PROVE  StepOf(t) /\ ptr'[t] = b /\ len'[t] = n /\ call'[t] = Out
<1>1. /\ ptr \in [Users -> Nat] /\ len \in [Users -> Nat] /\ call \in [Tasks -> Calls] /\ t \in Tasks /\ Out \in Calls
  BY OutIsCall DEF HInv, Tasks
<1>2. ptr' = [ptr EXCEPT ![t] = b] /\ len' = [len EXCEPT ![t] = n] /\ call' = [call EXCEPT ![t] = Out]
  BY DEF Returns
<1> QED BY <1>1, <1>2 DEF StepOf

(* A call that returns a block leaves it filled.                           *)
LEMMA ReturnsFill ==
  ASSUME NEW x, NEW D, Good(x, D), NEW b \in Nat, b - 1 \in Alloc(x, D), NEW t, NEW n \in Nat, NEW kept \in 0 .. n,
         n < Size(x, b - 1), Holds(x, b, t, kept), Returns(t, x, b, n, kept)
  PROVE  FilledSound(x, D, heap', b - 1, t, n)
<1>1. heap' = [x EXCEPT !.mem = Put(b + kept, [i \in 1 .. n - kept |-> Data(t, i + kept)], @)]
  BY DEF Returns
<1> QED BY <1>1, OwnerFills

(* malloc and realloc return a block.                                      *)
LEMMA ReturnSwaps ==
  ASSUME HInv, NEW C, Kept(heap, C, InHand(ptr, call), delayed, program), NEW t \in Users, call[t] = Out,
         NEW x, NEW D, NEW b \in Nat \ {0}, Swaps(heap, C, x, D, Chunk(ptr[t]), {b - 1}),
         "memalign" \notin program => Evens(x, D),
         NEW n \in Nat \ {0}, n < Size(x, b - 1), NEW kept \in 0 .. n, Holds(x, b, t, kept),
         Returns(t, x, b, n, kept), delayed' = delayed, program' = program
  PROVE  HInv'
<1>1. Good(x, D) /\ b - 1 \in Alloc(x, D)
  BY DEF Swaps
<1>2. FilledSound(x, D, heap', b - 1, t, n)
  BY <1>1, ReturnsFill
<1>3. StepOf(t) /\ ptr'[t] = b /\ len'[t] = n /\ call'[t] = Out
  BY ReturnsStep
<1>4. UserSound(heap', t, b, n, Out, program)
  BY <1>1, <1>2, FilledIs
<1>5. Swaps(x, D, heap', D, {b - 1}, {b - 1}) /\ (Evens(x, D) => Evens(heap', D))
  BY <1>2 DEF FilledSound, Scribbled
<1>6. Swaps(heap, C, heap', D, Chunk(ptr[t]), {b - 1})
  <2> DEFINE a == b - 1
             out == Chunk(ptr[t])
  <2>1. Swaps(heap, C, x, D, out, {a}) /\ Swaps(x, D, heap', D, {a}, {a})
    BY <1>5
  <2> HIDE DEF a, out
  <2>2. Swaps(heap, C, heap', D, out, {a})
    BY <2>1, SwapsTwice
  <2> QED BY <2>2 DEF a, out
<1>7. Chunk(ptr'[t]) = {b - 1}
  BY <1>3 DEF Chunk, NULL
<1>8. SoundAfter(t)
  BY <1>3, <1>4, HeapAssumption DEF SoundAfter
<1> QED BY <1>3, <1>5, <1>6, <1>7, <1>8, PtrSwaps

(* malloc keeps the invariant.                                             *)
LEMMA MallocKeeps ==
  ASSUME HInv, NEW t \in Users, NEW n \in Requests, malloc(t, n)
  PROVE  HInv'
<1> DEFINE r == malloc_section(heap, n)
           b == r.ret
           x == r.heap
           kept == 0
<1>1. PICK C : Kept(heap, C, InHand(ptr, call), delayed, program)
  BY DEF HInv
<1>2. /\ ptr[t] = NULL /\ call[t] = Out /\ b # NULL
      /\ Returns(t, x, b, n, kept) /\ delayed' = delayed /\ program' = program
  BY DEF malloc, Makes
<1>3. Good(heap, C) /\ ("memalign" \notin program => Evens(heap, C)) /\ n \in Nat \ {0}
  BY <1>1, UserHas, HeapAssumption
<1>4. b \in Nat \ {0} /\ MallocSound(heap, C, x, b - 1, AlignUp(n + 1))
  BY <1>2, <1>3, MallocSwaps
<1> HIDE DEF x, b
<1>5. PICK D : /\ Swaps(heap, C, x, D, {}, {b - 1}) /\ Size(x, b - 1) >= AlignUp(n + 1)
               /\ Evens(heap, C) => Evens(x, D)
  BY <1>4 DEF MallocSound
<1>6. n < Size(x, b - 1)
  <2>1. b - 1 \in D /\ Chain(x, D)
    BY <1>5 DEF Swaps, Alloc, Good, GoodBut
  <2>2. Size(x, b - 1) \in Nat
    BY <2>1 DEF Chain
  <2>3. AlignUp(n + 1) \in Nat /\ AlignUp(n + 1) >= n + 1
    BY <1>3, AlignUpIs
  <2> QED BY <1>3, <1>5, <2>2, <2>3
<1>7. kept \in 0 .. n /\ Holds(x, b, t, kept)
  BY <1>3 DEF Holds
<1>8. Chunk(ptr[t]) = {}
  BY <1>2 DEF Chunk
<1> HIDE DEF kept
<1> QED BY <1>1, <1>2, <1>3, <1>4, <1>5, <1>6, <1>7, <1>8, ReturnSwaps

(* free keeps the invariant.                                               *)
LEMMA FreeKeeps ==
  ASSUME HInv, NEW t \in Users, free(t)
  PROVE  HInv'
<1>1. PICK C : Kept(heap, C, InHand(ptr, call), delayed, program)
  BY DEF HInv
<1>2. /\ ptr[t] # NULL /\ call[t] = Out /\ heap' = free_section(heap, ptr[t])
      /\ ptr' = [ptr EXCEPT ![t] = NULL] /\ len' = [len EXCEPT ![t] = 0]
      /\ call' = call /\ delayed' = delayed /\ program' = program
  BY DEF free, Makes
<1>3. /\ Good(heap, C) /\ ("memalign" \notin program => Evens(heap, C)) /\ ptr[t] - 1 \in Alloc(heap, C)
      /\ Chunk(ptr[t]) = {ptr[t] - 1}
  BY <1>1, <1>2, UserHas
<1>4. FreeSound(heap, C, heap', ptr[t] - 1)
  BY <1>2, <1>3, FreeSwaps
<1>5. PICK D : Swaps(heap, C, heap', D, {ptr[t] - 1}, {}) /\ (Evens(heap, C) => Evens(heap', D))
  BY <1>4 DEF FreeSound
<1>6. StepOf(t) /\ ptr'[t] = NULL /\ len'[t] = 0
  BY <1>2 DEF StepOf, HInv, NULL
<1>7. SoundAfter(t)
  BY <1>2, <1>6, HeapAssumption DEF SoundAfter, UserSound
<1>8. Chunk(ptr'[t]) = {}
  BY <1>6 DEF Chunk
<1> QED BY <1>1, <1>2, <1>3, <1>5, <1>6, <1>7, <1>8, PtrSwaps

(* Only a program without memalign makes realloc.                          *)
LEMMA EvenInRealloc ==
  ASSUME Separate, HInv, NEW C, Kept(heap, C, InHand(ptr, call), delayed, program), "realloc" \in program
  PROVE  Evens(heap, C) /\ "memalign" \notin program
BY DEF Separate, HInv, Kept

(* realloc in place or nearly so.                                          *)
LEMMA ReallocInPlaceKeeps ==
  ASSUME Separate, HInv, NEW t \in Users, NEW n \in Requests, ptr[t] # NULL, Makes(t, "realloc"),
         LET r == realloc_section(heap, ptr[t], AlignUp(n + 1))
         IN  r.ret # NULL /\ Returns(t, r.heap, r.ret, n, Min({len[t], n})),
         delayed' = delayed, program' = program
  PROVE  HInv'
<1> DEFINE size == AlignUp(n + 1)
           p == ptr[t]
           l == len[t]
           r == realloc_section(heap, p, size)
           b == r.ret
           x == r.heap
           kept == Min({l, n})
<1>1. PICK C : Kept(heap, C, InHand(ptr, call), delayed, program)
  BY DEF HInv
<1>2. b # NULL /\ Returns(t, x, b, n, kept) /\ call[t] = Out /\ "realloc" \in program
  BY DEF Makes
<1>3. /\ Good(heap, C) /\ p \in Nat \ {0} /\ p - 1 \in Alloc(heap, C) /\ Chunk(p) = {p - 1}
      /\ UserSound(heap, t, p, l, call[t], program) /\ n \in Nat \ {0} /\ l \in Nat
  BY <1>1, UserHas, HeapAssumption DEF NULL
<1>4. Evens(heap, C) /\ "memalign" \notin program
  BY <1>1, <1>2, EvenInRealloc
<1>5. size \in Nat /\ size % 2 = 0 /\ size >= FreeNode /\ n < size
  BY <1>3, AlignUpIs, SMTT(60) DEF FreeNode
<1>6. p # NULL
  OBVIOUS
<1> HIDE DEF size, p, l
<1>7. b \in Nat \ {0} /\ MoveSound(heap, C, x, p - 1, b - 1, size)
  <2>1. \/ r.ret = NULL /\ r.heap = heap /\ Size(heap, p - 1) < size
        \/ r.ret \in Nat \ {0} /\ MoveSound(heap, C, r.heap, p - 1, r.ret - 1, size)
    BY <1>3, <1>4, <1>5, ReallocMoves
  <2> QED BY <1>2, <2>1
<1> HIDE DEF x, b
<1>8. PICK D : /\ Swaps(heap, C, x, D, {p - 1}, {b - 1}) /\ Size(x, b - 1) >= size
               /\ \A i \in 1 .. Size(heap, p - 1) - 1 : i < size => x.mem[b - 1 + i] = heap.mem[p - 1 + i]
               /\ Evens(x, D)
  BY <1>7 DEF MoveSound
<1>9. kept \in 0 .. n /\ kept <= l
  BY <1>3, MinMaxOfTwo
<1> HIDE DEF kept
<1>10. l < Size(heap, p - 1) /\ Holds(heap, p, t, l) /\ Size(heap, p - 1) \in Nat
  <2>1. p - 1 \in C /\ Chain(heap, C)
    BY <1>3 DEF Alloc, Good, GoodBut
  <2>2. Size(heap, p - 1) \in Nat
    BY <2>1 DEF Chain
  <2> QED BY <2>2, <1>3, <1>6 DEF UserSound
<1>11. Holds(x, b, t, kept)
  <2>1. ASSUME NEW i \in 1 .. kept PROVE x.mem[b + i - 1] = Data(t, i)
    <3>1. i \in 1 .. Size(heap, p - 1) - 1 /\ i < size /\ i \in 1 .. l
      BY <1>3, <1>5, <1>9, <1>10
    <3>2. x.mem[b - 1 + i] = heap.mem[p - 1 + i] /\ heap.mem[p + i - 1] = Data(t, i)
      BY <1>8, <1>10, <3>1 DEF Holds
    <3>3. b - 1 + i = b + i - 1 /\ p - 1 + i = p + i - 1
      BY <1>3, <1>7, <3>1
    <3> QED BY <3>2, <3>3
  <2> QED BY <2>1 DEF Holds
<1>12. n < Size(x, b - 1)
  <2>1. b - 1 \in D /\ Chain(x, D)
    BY <1>8 DEF Swaps, Alloc, Good, GoodBut
  <2>2. Size(x, b - 1) \in Nat
    BY <2>1 DEF Chain
  <2> QED BY <1>3, <1>5, <1>8, <2>2
<1>13. Swaps(heap, C, x, D, Chunk(ptr[t]), {b - 1})
  BY <1>3, <1>8 DEF p
<1> QED BY <1>1, <1>2, <1>3, <1>7, <1>8, <1>9, <1>11, <1>12, <1>13, ReturnSwaps

(* realloc that has to do it in three more steps.                          *)
LEMMA ReallocBeginsKeeps ==
  ASSUME Separate, HInv, NEW t \in Users, NEW n \in Requests, ptr[t] # NULL, Makes(t, "realloc"),
         realloc_section(heap, ptr[t], AlignUp(n + 1)).ret = NULL,
         call' = [call EXCEPT ![t] = [@ EXCEPT !.at = "realloc_malloc", !.n = n]],
         UNCHANGED <<heap, ptr, len, delayed, program>>
  PROVE  HInv'
<1> DEFINE size == AlignUp(n + 1)
           p == ptr[t]
           l == len[t]
           r == realloc_section(heap, p, size)
           f == InHand(ptr, call)
           g == InHand(ptr', call')
           c == [Out EXCEPT !.at = "realloc_malloc", !.n = n]
<1>1. PICK C : Kept(heap, C, f, delayed, program)
  BY DEF HInv
<1>2. r.ret = NULL /\ call[t] = Out /\ "realloc" \in program
  BY DEF Makes
<1>3. /\ Good(heap, C) /\ p \in Nat \ {0} /\ p - 1 \in Alloc(heap, C)
      /\ UserSound(heap, t, p, l, call[t], program) /\ n \in Nat \ {0} /\ l \in Nat \ {0}
      /\ t \in Tasks /\ t # Collector
  BY <1>1, UserHas, HeapAssumption DEF NULL
<1>4. Evens(heap, C)
  BY <1>1, <1>2, EvenInRealloc
<1>5. size \in Nat /\ size % 2 = 0 /\ size >= FreeNode /\ size <= n + 2
  BY <1>3, AlignUpIs DEF FreeNode
<1>6. p # NULL
  OBVIOUS
<1>7. call \in [Tasks -> Calls] /\ ptr \in [Users -> Nat] /\ len \in [Users -> Nat]
  BY DEF HInv
<1>8. c \in Calls /\ c.mem = NULL /\ c.at = "realloc_malloc" /\ c.n = n
  BY <1>3 DEF Out, Calls, NULL
<1>9. call' = [call EXCEPT ![t] = c]
  BY <1>2, <1>7, <1>3
<1> HIDE DEF c
<1>10. /\ call' \in [Tasks -> Calls] /\ call'[t] = c /\ \A u \in Tasks \ {t} : call'[u] = call[u]
       /\ ptr' = ptr /\ len' = len
  BY <1>3, <1>7, <1>8, <1>9
<1>11. StepOf(t)
  BY <1>7, <1>10 DEF StepOf
<1>12. Size(heap, p - 1) < size
  <2> HIDE DEF size, p
  <2>1. \/ r.ret = NULL /\ r.heap = heap /\ Size(heap, p - 1) < size
        \/ r.ret \in Nat \ {0} /\ MoveSound(heap, C, r.heap, p - 1, r.ret - 1, size)
    BY <1>3, <1>4, <1>5, ReallocMoves
  <2> QED BY <1>2, <2>1 DEF NULL
<1>13. l <= n
  <2>1. p - 1 \in C /\ Chain(heap, C)
    BY <1>3 DEF Alloc, Good, GoodBut
  <2>2. Size(heap, p - 1) \in Nat
    BY <2>1 DEF Chain
  <2>3. l < Size(heap, p - 1)
    BY <1>3, <1>6 DEF UserSound
  <2> HIDE DEF size
  <2> QED BY <1>3, <1>5, <1>12, <2>2, <2>3
<1>14. UserSound(heap, t, p, l, c, program)
  <2>1. l < Size(heap, p - 1) /\ Holds(heap, p, t, l) /\ l # 0
    BY <1>3, <1>6 DEF UserSound
  <2> QED BY <2>1, <1>2, <1>6, <1>8, <1>12, <1>13 DEF UserSound
<1>15. SoundAfter(t)
  BY <1>3, <1>10, <1>14 DEF SoundAfter
<1>16. g = f
  <2>1. Differ(ptr, call, ptr', call', t) /\ f \in [Hands -> Nat] /\ g \in [Hands -> Nat]
    BY <1>3, <1>7, <1>10, HandsDiffer, HandsAre
  <2>2. call[t].mem = NULL
    BY <1>2, OutIsCall
  <2> HIDE DEF f, g
  <2>3. \A s \in Hands : g[s] = f[s]
    BY <2>1, <2>2, <1>8, <1>10 DEF Differ, f, g
  <2> QED BY <2>1, <2>3
<1>17. Kept(heap', C, g, delayed', program)
  <2>1. heap' = heap /\ delayed' = delayed
    OBVIOUS
  <2> HIDE DEF f, g
  <2> QED BY <1>1, <1>16, <2>1
<1>18. OtherHands(heap, heap', f, t)
  <2>1. f \in [Hands -> Nat] /\ Owned(Alloc(heap, C), f, delayed) /\ heap' = heap /\ Chain(heap, C)
    BY <1>1, <1>3, <1>7, HandsAre DEF Kept, Good, GoodBut
  <2> HIDE DEF f
  <2>2. \A s \in Hands : f[s] # NULL => f[s] - 1 \in C
    BY <2>1 DEF Owned, Alloc
  <2> QED BY <2>1, <2>2 DEF OtherHands, SameBlock, Chain
<1> QED BY <1>3, <1>11, <1>15, <1>17, <1>18, InvAfter

(* A step that changes the call of user t alone.                           *)
LEMMA CallStep ==
  ASSUME HInv, NEW t \in Tasks, NEW c \in Calls, call' = [call EXCEPT ![t] = c],
         UNCHANGED <<ptr, len, delayed, program>>
  PROVE  StepOf(t) /\ ptr' = ptr /\ len' = len /\ call'[t] = c /\ delayed' = delayed /\ program' = program
BY DEF StepOf, HInv

(* And leaves the heap and the block in it alone.                          *)
LEMMA CallAlone ==
  ASSUME HInv, NEW t \in Tasks, NEW c \in Calls, call' = [call EXCEPT ![t] = c], c.mem = call[t].mem,
         UNCHANGED <<heap, ptr, len, delayed, program>>, SoundAfter(t)
  PROVE  HInv'
<1> DEFINE f == InHand(ptr, call)
           g == InHand(ptr', call')
<1>1. PICK C : Kept(heap, C, f, delayed, program)
  BY DEF HInv
<1>2. StepOf(t) /\ ptr' = ptr /\ call'[t] = c /\ delayed' = delayed /\ heap' = heap
  BY CallStep
<1>3. /\ call \in [Tasks -> Calls] /\ ptr \in [Users -> Nat] /\ call' \in [Tasks -> Calls]
      /\ \A u \in Tasks \ {t} : call'[u] = call[u]
  BY <1>2 DEF HInv, StepOf
<1>4. g = f
  <2>1. Differ(ptr, call, ptr', call', t) /\ f \in [Hands -> Nat] /\ g \in [Hands -> Nat]
    BY <1>2, <1>3, HandsDiffer, HandsAre
  <2> HIDE DEF f, g
  <2>2. \A s \in Hands : g[s] = f[s]
    <3>1. c.mem = call[t].mem /\ call'[t].mem = call[t].mem /\ (t \in Users => ptr'[t] = ptr[t])
      BY <1>2
    <3>2. /\ \A s \in Hands : s # <<t, "ptr">> /\ s # <<t, "mem">> => g[s] = f[s]
          /\ t \in Users => g[<<t, "ptr">>] = f[<<t, "ptr">>]
          /\ g[<<t, "mem">>] = f[<<t, "mem">>]
      BY <2>1, <3>1 DEF Differ, f, g
    <3> QED BY <3>2 DEF Hands
  <2> QED BY <2>1, <2>2
<1>5. Kept(heap', C, g, delayed', program)
  <2> HIDE DEF f, g
  <2> QED BY <1>1, <1>2, <1>4
<1>6. OtherHands(heap, heap', f, t)
  <2>1. f \in [Hands -> Nat] /\ Owned(Alloc(heap, C), f, delayed) /\ Chain(heap, C)
    BY <1>1, <1>3, HandsAre DEF Kept, Good, GoodBut
  <2> HIDE DEF f
  <2>2. \A s \in Hands : f[s] # NULL => f[s] - 1 \in C
    BY <2>1 DEF Owned, Alloc
  <2> QED BY <2>1, <2>2, <1>2 DEF OtherHands, SameBlock, Chain
<1> QED BY <1>2, <1>5, <1>6, InvAfter

(* The second step of realloc, malloc and memcpy, keeps the invariant.     *)
LEMMA ReallocMallocKeeps ==
  ASSUME Separate, HInv, NEW t \in Users, realloc_malloc(t)
  PROVE  HInv'
<1> DEFINE n == call[t].n
           m == AlignUp(n + 1)
           p == ptr[t]
           l == len[t]
           r == malloc_section(heap, m)
           b == r.ret
           x == r.heap
           k == Size(heap, p - 1)
           c == [call[t] EXCEPT !.at = "realloc_free", !.mem = b]
<1>1. PICK C : Kept(heap, C, InHand(ptr, call), delayed, program)
  BY DEF HInv
<1>2. /\ call[t].at = "realloc_malloc"
      /\ \/ /\ b # NULL
            /\ heap' = CopyWords(x, p, b, k)
            /\ call' = [call EXCEPT ![t] = [@ EXCEPT !.at = "realloc_free", !.mem = b]]
         \/ /\ b = NULL /\ call' = [call EXCEPT ![t] = Out] /\ heap' = heap
      /\ UNCHANGED <<ptr, len, delayed, program>>
  BY DEF realloc_malloc
<1>3. /\ Good(heap, C) /\ ("memalign" \notin program => Evens(heap, C))
      /\ p \in Nat /\ l \in Nat /\ call[t] \in Calls /\ t \in Tasks /\ t # Collector
      /\ UserSound(heap, t, p, l, call[t], program)
      /\ p # NULL => p - 1 \in Alloc(heap, C)
  BY <1>1, UserHas, HeapAssumption
<1>4. /\ n \in Requests /\ n \in Nat \ {0} /\ "realloc" \in program /\ p # NULL /\ call[t].mem = NULL
      /\ l <= n /\ k < m /\ l # 0 /\ l < k /\ Holds(heap, p, t, l)
  BY <1>2, <1>3, HeapAssumption, OutIsCall DEF UserSound
<1>5. call \in [Tasks -> Calls]
  BY DEF HInv
<1>6. CASE b = NULL
  <2>1. call' = [call EXCEPT ![t] = Out] /\ heap' = heap
    BY <1>2, <1>6
  <2>2. StepOf(t) /\ ptr' = ptr /\ len' = len /\ call'[t] = Out
    BY <1>2, <1>3, <2>1, CallStep, OutIsCall
  <2>3. UserSound(heap, t, p, l, Out, program)
    BY <1>4 DEF UserSound
  <2>4. SoundAfter(t)
    BY <1>3, <2>1, <2>2, <2>3 DEF SoundAfter
  <2> QED BY <1>2, <1>3, <1>4, <2>1, <2>4, CallAlone, OutIsCall
<1>7. CASE b # NULL
  <2>1. m \in Nat \ {0} /\ m >= n + 1 /\ AlignUp(m + 1) \in Nat /\ AlignUp(m + 1) >= m + 1
    <3>1. m \in Nat /\ m >= n + 1
      BY <1>4, AlignUpIs
    <3> HIDE DEF m
    <3> QED BY <3>1, <1>4, AlignUpIs
  <2> HIDE DEF m
  <2>2. b \in Nat \ {0} /\ MallocSound(heap, C, x, b - 1, AlignUp(m + 1))
    BY <1>3, <1>7, <2>1, MallocSwaps DEF NULL
  <2>3. heap' = CopyWords(x, p, b, k)
    BY <1>2, <1>7
  <2>4. c \in Calls /\ c.at = "realloc_free" /\ c.mem = b /\ c.n = n /\ call' = [call EXCEPT ![t] = c]
    <3>1. call' = [call EXCEPT ![t] = c]
      BY <1>2, <1>3, <1>5, <1>7
    <3>2. c \in Calls /\ c.at = "realloc_free" /\ c.mem = b /\ c.n = n
      <4> HIDE DEF b
      <4> QED BY <1>3, <2>2 DEF Calls
    <3> QED BY <3>1, <3>2
  <2> HIDE DEF c, x, b
  <2>5. PICK D : /\ Swaps(heap, C, x, D, {}, {b - 1}) /\ Size(x, b - 1) >= AlignUp(m + 1)
                 /\ Evens(heap, C) => Evens(x, D)
    BY <2>2 DEF MallocSound
  <2>6. /\ SameBlock(heap, x, p - 1) /\ p - 1 \in Alloc(x, D) /\ p - 1 \in Alloc(heap, C) /\ Good(x, D)
        /\ b - 1 \in Alloc(x, D) /\ p # b
    BY <1>3, <1>4, <2>5 DEF Swaps
  <2>7. Size(x, b - 1) \in Nat /\ k \in Nat /\ p - 1 \in D /\ b - 1 \in D /\ Size(x, p - 1) \in Nat
    <3>1. Chain(heap, C) /\ Chain(x, D)
      BY <1>3, <2>6 DEF Good, GoodBut
    <3> QED BY <3>1, <2>6 DEF Alloc, Chain
  <2>8. CopiedSound(x, D, heap', p, b, k)
    <3>1. k < Size(x, b - 1)
      BY <1>4, <2>1, <2>5, <2>7
    <3> HIDE DEF k
    <3> QED BY <1>3, <2>2, <2>3, <2>6, <2>7, <3>1, MemcpyCopies
  <2>9. /\ Swaps(x, D, heap', D, {b - 1}, {b - 1}) /\ (Evens(x, D) => Evens(heap', D))
        /\ Size(heap', b - 1) = Size(x, b - 1)
        /\ \A i \in 1 .. k : heap'.mem[b + i - 1] = x.mem[p + i - 1]
    BY <2>7, <2>8 DEF CopiedSound, Scribbled
  <2>10. Swaps(heap, C, heap', D, {}, {b - 1})
    <3> DEFINE a == b - 1
               out == {}
    <3>1. Swaps(heap, C, x, D, out, {a}) /\ Swaps(x, D, heap', D, {a}, {a})
      BY <2>5, <2>9
    <3> HIDE DEF a, out
    <3>2. Swaps(heap, C, heap', D, out, {a})
      BY <3>1, SwapsTwice
    <3> QED BY <3>2 DEF a, out
  <2>11. Size(heap', p - 1) = k /\ Holds(heap', p, t, l)
    <3>1. SameBlock(heap, heap', p - 1)
      BY <2>6, <2>10 DEF Swaps
    <3> QED BY <1>3, <1>4, <2>7, <3>1, HoldsKept DEF SameBlock
  <2>12. Holds(x, p, t, l)
    BY <1>3, <1>4, <2>6, <2>7, HoldsKept
  <2>13. Holds(heap', b, t, l)
    <3>1. \A i \in 1 .. l : i \in 1 .. k
      BY <1>3, <1>4, <2>7
    <3> QED BY <3>1, <2>9, <2>12 DEF Holds
  <2>14. n < Size(heap', b - 1)
    BY <1>4, <2>1, <2>5, <2>7, <2>9
  <2>15. StepOf(t) /\ ptr' = ptr /\ len' = len /\ call'[t] = c /\ delayed' = delayed
    BY <1>2, <1>3, <2>4, CallStep
  <2>16. UserSound(heap', t, p, l, c, program)
    BY <1>4, <2>2, <2>4, <2>11, <2>13, <2>14 DEF UserSound, NULL
  <2>17. SoundAfter(t)
    BY <1>3, <2>15, <2>16 DEF SoundAfter
  <2>18. Chunk(call[t].mem) = {} /\ Chunk(call'[t].mem) = {b - 1}
    BY <1>4, <2>2, <2>4, <2>15 DEF Chunk, NULL
  <2>19. Swaps(heap, C, heap', D, Chunk(call[t].mem), Chunk(call'[t].mem))
    BY <2>10, <2>18
  <2> QED BY <1>1, <1>3, <2>5, <2>9, <2>15, <2>17, <2>19, MemSwaps
<1> QED BY <1>6, <1>7

(* One swap after another by the same task.                                *)
LEMMA OtherHandsTwice ==
  ASSUME NEW h, NEW x, NEW y, NEW f, NEW g, NEW t, OtherHands(h, x, f, t), OtherHands(x, y, g, t),
         \A r \in Hands : r[1] # t => g[r] = f[r]
  PROVE  OtherHands(h, y, f, t)
<1> SUFFICES ASSUME NEW r \in Hands, r[1] # t, f[r] # NULL
             PROVE  SameBlock(h, y, f[r] - 1) /\ Size(h, f[r] - 1) \in Nat
  BY DEF OtherHands
<1> DEFINE a == f[r] - 1
<1>1. SameBlock(h, x, a) /\ Size(h, a) \in Nat
  BY DEF OtherHands
<1>2. g[r] = f[r]
  OBVIOUS
<1>3. SameBlock(x, y, a)
  BY <1>2 DEF OtherHands
<1> HIDE DEF a
<1>4. SameBlock(h, y, a)
  BY <1>1, <1>3 DEF SameBlock
<1> QED BY <1>1, <1>4 DEF a

(* A block passes from one hand of a task to the other.                    *)
LEMMA PassKeeps ==
  ASSUME NEW h, NEW C, NEW f \in [Hands -> Nat], NEW g \in [Hands -> Nat], NEW d, NEW prog, Kept(h, C, f, d, prog),
         NEW s \in Hands, NEW r \in Hands, s # r, f[r] = NULL, g[r] = f[s], g[s] = NULL,
         \A q \in Hands \ {s, r} : g[q] = f[q]
  PROVE  Kept(h, C, g, d, prog)
<1> DEFINE K == Alloc(h, C)
<1>1. K \in SUBSET Nat /\ Owned(K, f, d) /\ d \in Seq(Nat \ {0})
  <2>1. Chain(h, C)
    BY DEF Kept, Good, GoodBut
  <2>2. C \subseteq Nat
    BY <2>1 DEF Chain, Addrs
  <2> QED BY <2>2 DEF Alloc, Kept
<1> HIDE DEF K
<1>2. Owned(K, g, d)
  BY <1>1, HandsPass
<1> QED BY <1>2 DEF K, Kept

(* The old block is freed and the new one becomes the user's.              *)
LEMMA ReallocFreeKeeps ==
  ASSUME HInv, NEW t \in Users, realloc_free(t)
  PROVE  HInv'
<1> DEFINE n == call[t].n
           p == ptr[t]
           l == len[t]
           b == call[t].mem
           x == free_section(heap, p)
           f == InHand(ptr, call)
           g == InHand(ptr', call')
           sp == <<t, "ptr">>
           sm == <<t, "mem">>
           e == [f EXCEPT ![sp] = NULL]
<1>1. PICK C : Kept(heap, C, f, delayed, program)
  BY DEF HInv
<1>2. /\ call[t].at = "realloc_free" /\ Returns(t, x, b, n, l) /\ delayed' = delayed /\ program' = program
  BY DEF realloc_free
<1>3. /\ Good(heap, C) /\ ("memalign" \notin program => Evens(heap, C))
      /\ p \in Nat /\ l \in Nat /\ call[t] \in Calls /\ t \in Tasks /\ t # Collector
      /\ UserSound(heap, t, p, l, call[t], program)
      /\ p # NULL => p - 1 \in Alloc(heap, C) /\ Chunk(p) = {p - 1}
      /\ b # NULL => b - 1 \in Alloc(heap, C)
      /\ p # NULL /\ b # NULL => p # b
  BY <1>1, UserHas, HeapAssumption
<1>4. /\ n \in Nat \ {0} /\ p # NULL /\ b # NULL /\ l <= n /\ n < Size(heap, b - 1) /\ Holds(heap, b, t, l)
      /\ b \in Nat \ {0} /\ p \in Nat \ {0}
  BY <1>2, <1>3, HeapAssumption, OutIsCall DEF UserSound, NULL, Calls
<1>5. /\ ptr \in [Users -> Nat] /\ call \in [Tasks -> Calls]
  BY DEF HInv
<1>6. StepOf(t) /\ ptr'[t] = b /\ len'[t] = n /\ call'[t] = Out
  BY <1>2, <1>4, ReturnsStep
<1>7. /\ ptr' \in [Users -> Nat] /\ call' \in [Tasks -> Calls]
      /\ \A u \in Users \ {t} : ptr'[u] = ptr[u]
      /\ \A u \in Tasks \ {t} : call'[u] = call[u]
  BY <1>6 DEF StepOf
<1>8. /\ f \in [Hands -> Nat] /\ g \in [Hands -> Nat] /\ sp \in Hands /\ sm \in Hands /\ sp # sm
      /\ f[sp] = p /\ f[sm] = b /\ g[sp] = b /\ g[sm] = NULL
  BY <1>3, <1>5, <1>6, <1>7, HandsAre, OutIsCall
<1>9. Differ(ptr, call, ptr', call', t)
  BY <1>3, <1>5, <1>7, HandsDiffer
<1>10. \A r \in Hands \ {sp, sm} : g[r] = f[r]
  BY <1>9 DEF Differ
<1>11. sp[1] = t /\ sm[1] = t
  OBVIOUS
<1> HIDE DEF f, g, sp, sm
<1>12. /\ e \in [Hands -> Nat] /\ e[sp] = NULL /\ e[sm] = b /\ \A r \in Hands \ {sp} : e[r] = f[r]
  BY <1>8 DEF NULL
<1> HIDE DEF e
<1>13. FreeSound(heap, C, x, p - 1)
  BY <1>3, <1>4, FreeSwaps
<1> HIDE DEF x
<1>14. PICK B : Swaps(heap, C, x, B, {p - 1}, {}) /\ (Evens(heap, C) => Evens(x, B))
  BY <1>13 DEF FreeSound
<1>15. HandSwapped(heap, f, x, B, e, delayed, sp, program)
  <2>1. Chunk(f[sp]) = {p - 1} /\ Chunk(e[sp]) = {}
    BY <1>4, <1>8, <1>12, <1>3 DEF Chunk
  <2>2. Swaps(heap, C, x, B, Chunk(f[sp]), Chunk(e[sp]))
    BY <2>1, <1>14
  <2> QED BY <2>2, <1>1, <1>3, <1>8, <1>12, <1>14, SwapKeeps
<1>16. b - 1 \in Alloc(x, B) /\ SameBlock(heap, x, b - 1) /\ Good(x, B) /\ b - 1 \in Alloc(heap, C)
  <2>1. b - 1 \in Alloc(heap, C) \ {p - 1}
    BY <1>3, <1>4
  <2> QED BY <2>1, <1>14 DEF Swaps
<1>17. Size(heap, b - 1) \in Nat /\ Size(x, b - 1) = Size(heap, b - 1)
  <2>1. Chain(heap, C) /\ b - 1 \in C
    BY <1>3, <1>16 DEF Good, GoodBut, Alloc
  <2> QED BY <2>1, <1>16 DEF Chain, SameBlock
<1>18. Holds(x, b, t, l) /\ n < Size(x, b - 1) /\ l \in 0 .. n
  <2>1. l < Size(heap, b - 1)
    BY <1>3, <1>4, <1>17
  <2> QED BY <2>1, <1>3, <1>4, <1>16, <1>17, HoldsKept
<1>19. FilledSound(x, B, heap', b - 1, t, n)
  BY <1>2, <1>4, <1>16, <1>18, ReturnsFill
<1>20. UserSound(heap', t, b, n, Out, program)
  BY <1>4, <1>16, <1>18, <1>19, FilledIs
<1>21. HandSwapped(x, e, heap', B, e, delayed, sm, program)
  <2>1. Swaps(x, B, heap', B, {b - 1}, {b - 1}) /\ (Evens(x, B) => Evens(heap', B))
    BY <1>19 DEF FilledSound, Scribbled
  <2>2. Chunk(e[sm]) = {b - 1}
    BY <1>4, <1>12 DEF Chunk
  <2>3. Swaps(x, B, heap', B, Chunk(e[sm]), Chunk(e[sm]))
    BY <2>1, <2>2
  <2>4. Kept(x, B, e, delayed, program)
    BY <1>15 DEF HandSwapped
  <2> QED BY <2>1, <2>3, <2>4, <1>3, <1>8, <1>12, <1>14, SwapKeeps
<1>22. Kept(heap', B, g, delayed, program)
  <2>1. Kept(heap', B, e, delayed, program)
    BY <1>21 DEF HandSwapped
  <2>2. e[sp] = NULL /\ g[sp] = e[sm] /\ g[sm] = NULL /\ \A q \in Hands \ {sm, sp} : g[q] = e[q]
    BY <1>8, <1>10, <1>12
  <2> QED BY <2>1, <2>2, <1>8, <1>12, PassKeeps
<1>23. OtherHands(heap, heap', f, t)
  <2>1. OtherHands(heap, x, f, t) /\ OtherHands(x, heap', e, t)
    BY <1>11, <1>15, <1>21 DEF HandSwapped
  <2>2. \A r \in Hands : r[1] # t => e[r] = f[r]
    BY <1>11, <1>12
  <2> QED BY <2>1, <2>2, OtherHandsTwice
<1>24. SoundAfter(t)
  BY <1>3, <1>6, <1>20 DEF SoundAfter
<1>25. /\ Kept(heap', B, InHand(ptr', call'), delayed', program)
       /\ OtherHands(heap, heap', InHand(ptr, call), t)
  BY <1>2, <1>22, <1>23 DEF f, g
<1> QED BY <1>3, <1>6, <1>24, <1>25, InvAfter

(* The first section of memalign keeps the invariant.                      *)
LEMMA MemalignKeeps ==
  ASSUME HInv, NEW t \in Users, NEW al \in Alignments, NEW n \in Requests, memalign(t, al, n)
  PROVE  HInv'
<1> DEFINE m == AlignUp(n) + 2 * al
           r == malloc_section(heap, m)
           b == r.ret
           x == r.heap
           c == [at |-> "align", n |-> n, align |-> al, mem |-> b]
<1>1. PICK C : Kept(heap, C, InHand(ptr, call), delayed, program)
  BY DEF HInv
<1>2. /\ ptr[t] = NULL /\ call[t] = Out /\ "memalign" \in program /\ al > FreeNode /\ b # NULL
      /\ heap' = x /\ call' = [call EXCEPT ![t] = c]
      /\ UNCHANGED <<ptr, len, delayed, program>>
  BY DEF memalign, Makes
<1>3. /\ Good(heap, C) /\ n \in Nat \ {0} /\ al \in Nat /\ t \in Tasks /\ t # Collector
      /\ UserSound(heap, t, ptr[t], len[t], call[t], program)
  BY <1>1, UserHas, HeapAssumption
<1>4. /\ m \in Nat \ {0} /\ AlignUp(m + 1) \in Nat /\ AlignUp(m + 1) >= m + 1
  <2>1. AlignUp(n) \in Nat /\ n <= AlignUp(n)
    BY <1>3, AlignUpIs
  <2>2. m \in Nat \ {0}
    BY <2>1, <1>3
  <2> HIDE DEF m
  <2> QED BY <2>2, AlignUpIs
<1> HIDE DEF m
<1>5. b \in Nat \ {0} /\ MallocSound(heap, C, x, b - 1, AlignUp(m + 1))
  BY <1>2, <1>3, <1>4, MallocSwaps
<1> HIDE DEF x, b
<1>6. c \in Calls /\ c.mem = b /\ c.at = "align" /\ c.n = n /\ c.align = al
  BY <1>3, <1>5 DEF Calls
<1> HIDE DEF c
<1>7. PICK D : Swaps(heap, C, heap', D, {}, {b - 1}) /\ Size(heap', b - 1) >= AlignUp(m + 1)
  BY <1>2, <1>5 DEF MallocSound
<1>8. m < Size(heap', b - 1)
  <2>1. b - 1 \in D /\ Chain(heap', D)
    BY <1>7 DEF Swaps, Alloc, Good, GoodBut
  <2>2. Size(heap', b - 1) \in Nat
    BY <2>1 DEF Chain
  <2> QED BY <1>4, <1>7, <2>2
<1>9. StepOf(t) /\ ptr' = ptr /\ len' = len /\ call'[t] = c /\ delayed' = delayed
  BY <1>2, <1>3, <1>6, CallStep
<1>10. UserSound(heap', t, ptr[t], len[t], c, program)
  <2>1. b # NULL
    BY <1>5 DEF NULL
  <2> QED BY <2>1, <1>2, <1>3, <1>6, <1>8 DEF UserSound, m
<1>11. SoundAfter(t)
  BY <1>3, <1>9, <1>10 DEF SoundAfter
<1>12. Chunk(call[t].mem) = {} /\ Chunk(call'[t].mem) = {b - 1}
  BY <1>2, <1>5, <1>6, <1>9, OutIsCall DEF Chunk, NULL
<1>13. Swaps(heap, C, heap', D, Chunk(call[t].mem), Chunk(call'[t].mem))
  BY <1>7, <1>12
<1> QED BY <1>1, <1>2, <1>3, <1>9, <1>11, <1>13, MemSwaps

(* The aligned block becomes the user's, the rest of the raw one is free.  *)
LEMMA MemalignAlignsKeeps ==
  ASSUME HInv, NEW t \in Users, memalign_aligns(t)
  PROVE  HInv'
<1> DEFINE n == call[t].n
           al == call[t].align
           raw == call[t].mem
           r == memalign_section(heap, raw, al, n)
           b == r.ret
           x == r.heap
           kept == 0
           f == InHand(ptr, call)
           g == InHand(ptr', call')
           sp == <<t, "ptr">>
           sm == <<t, "mem">>
           e == [f EXCEPT ![sm] = b]
<1>1. PICK C : Kept(heap, C, f, delayed, program)
  BY DEF HInv
<1>2. /\ call[t].at = "align" /\ Returns(t, x, b, n, kept) /\ delayed' = delayed /\ program' = program
  BY DEF memalign_aligns
<1>3. /\ Good(heap, C) /\ call[t] \in Calls /\ t \in Tasks /\ t # Collector
      /\ UserSound(heap, t, ptr[t], len[t], call[t], program)
      /\ raw # NULL => raw - 1 \in Alloc(heap, C) /\ Chunk(raw) = {raw - 1}
  BY <1>1, UserHas, HeapAssumption
<1>4. /\ n \in Nat \ {0} /\ ptr[t] = NULL /\ raw # NULL /\ raw \in Nat \ {0} /\ al \in Nat /\ al > FreeNode
      /\ AlignUp(n) + 2 * al < Size(heap, raw - 1) /\ "memalign" \in program
  BY <1>2, <1>3, HeapAssumption, OutIsCall DEF UserSound, NULL, Calls
<1>5. /\ ptr \in [Users -> Nat] /\ call \in [Tasks -> Calls]
  BY DEF HInv
<1>6. b \in Nat \ {0} /\ AlignSound(heap, C, x, raw - 1, b - 1, n)
  <2>1. Size(heap, raw - 1) >= AlignUp(n) + 2 * al + 1
    <3>1. raw - 1 \in C /\ Chain(heap, C)
      BY <1>3, <1>4 DEF Alloc, Good, GoodBut
    <3>2. Size(heap, raw - 1) \in Nat
      BY <3>1 DEF Chain
    <3>3. AlignUp(n) \in Nat
      BY <1>4, AlignUpIs
    <3> QED BY <3>2, <3>3, <1>4
  <2> HIDE DEF n, al, raw
  <2> QED BY <2>1, <1>3, <1>4, MemalignAligns
<1>7. StepOf(t) /\ ptr'[t] = b /\ len'[t] = n /\ call'[t] = Out
  <2> HIDE DEF b, x, kept
  <2> QED BY <1>2, <1>4, <1>6, ReturnsStep
<1> HIDE DEF x, b
<1>8. /\ ptr' \in [Users -> Nat] /\ call' \in [Tasks -> Calls]
      /\ \A u \in Users \ {t} : ptr'[u] = ptr[u]
      /\ \A u \in Tasks \ {t} : call'[u] = call[u]
  BY <1>7 DEF StepOf
<1>9. /\ f \in [Hands -> Nat] /\ g \in [Hands -> Nat] /\ sp \in Hands /\ sm \in Hands /\ sp # sm
      /\ f[sp] = NULL /\ f[sm] = raw /\ g[sp] = b /\ g[sm] = NULL
  BY <1>3, <1>4, <1>5, <1>7, <1>8, HandsAre, OutIsCall
<1>10. Differ(ptr, call, ptr', call', t)
  BY <1>3, <1>5, <1>8, HandsDiffer
<1>11. \A q \in Hands \ {sp, sm} : g[q] = f[q]
  BY <1>10 DEF Differ
<1>12. sm[1] = t
  OBVIOUS
<1> HIDE DEF f, g, sp, sm
<1>13. /\ e \in [Hands -> Nat] /\ e[sm] = b /\ \A q \in Hands \ {sm} : e[q] = f[q]
  BY <1>6, <1>9
<1> HIDE DEF e
<1>14. PICK D : Swaps(heap, C, x, D, {raw - 1}, {b - 1}) /\ n < Size(x, b - 1)
  BY <1>6 DEF AlignSound
<1>15. Good(x, D) /\ b - 1 \in Alloc(x, D)
  BY <1>14 DEF Swaps
<1>16. FilledSound(x, D, heap', b - 1, t, n)
  <2>1. kept \in 0 .. n /\ Holds(x, b, t, kept)
    BY <1>4 DEF Holds
  <2> HIDE DEF kept
  <2> QED BY <2>1, <1>2, <1>4, <1>6, <1>14, <1>15, ReturnsFill
<1>17. UserSound(heap', t, b, n, Out, program)
  BY <1>4, <1>6, <1>14, <1>15, <1>16, FilledIs
<1>18. Swaps(heap, C, heap', D, {raw - 1}, {b - 1})
  <2> DEFINE a == b - 1
             out == {raw - 1}
  <2>1. Swaps(heap, C, x, D, out, {a}) /\ Swaps(x, D, heap', D, {a}, {a})
    BY <1>14, <1>16 DEF FilledSound, Scribbled
  <2> HIDE DEF a, out
  <2>2. Swaps(heap, C, heap', D, out, {a})
    BY <2>1, SwapsTwice
  <2> QED BY <2>2 DEF a, out
<1>19. HandSwapped(heap, f, heap', D, e, delayed, sm, program)
  <2>1. Chunk(f[sm]) = {raw - 1} /\ Chunk(e[sm]) = {b - 1}
    BY <1>3, <1>4, <1>6, <1>9, <1>13 DEF Chunk, NULL
  <2>2. Swaps(heap, C, heap', D, Chunk(f[sm]), Chunk(e[sm]))
    BY <2>1, <1>18
  <2> QED BY <2>2, <1>1, <1>4, <1>9, <1>13, SwapKeeps
<1>20. Kept(heap', D, g, delayed, program)
  <2>1. Kept(heap', D, e, delayed, program)
    BY <1>19 DEF HandSwapped
  <2>2. e[sp] = NULL /\ g[sp] = e[sm] /\ g[sm] = NULL /\ \A q \in Hands \ {sm, sp} : g[q] = e[q]
    BY <1>9, <1>11, <1>13
  <2> QED BY <2>1, <2>2, <1>9, <1>13, PassKeeps
<1>21. OtherHands(heap, heap', f, t)
  BY <1>12, <1>19 DEF HandSwapped
<1>22. SoundAfter(t)
  BY <1>3, <1>7, <1>17 DEF SoundAfter
<1>23. /\ Kept(heap', D, InHand(ptr', call'), delayed', program)
       /\ OtherHands(heap, heap', InHand(ptr, call), t)
  BY <1>2, <1>20, <1>21 DEF f, g
<1> QED BY <1>3, <1>7, <1>22, <1>23, InvAfter

(* A block goes to the queue of delayed deallocations.                     *)
LEMMA SchedFreeKeeps ==
  ASSUME HInv, NEW t \in Users, sched_free(t)
  PROVE  HInv'
<1> DEFINE p == ptr[t]
           f == InHand(ptr, call)
           g == InHand(ptr', call')
           sp == <<t, "ptr">>
           sm == <<t, "mem">>
<1>1. PICK C : Kept(heap, C, f, delayed, program)
  BY DEF HInv
<1>2. /\ p # NULL /\ call[t] = Out /\ delayed' = Append(delayed, p)
      /\ heap' = [heap EXCEPT !.mem = Put(p, Junks(len[t]), @)]
      /\ ptr' = [ptr EXCEPT ![t] = NULL] /\ len' = [len EXCEPT ![t] = 0]
      /\ call' = call /\ program' = program
  BY DEF sched_free, Makes
<1>3. /\ Good(heap, C) /\ ("memalign" \notin program => Evens(heap, C))
      /\ p \in Nat /\ len[t] \in Nat /\ p - 1 \in Alloc(heap, C) /\ Chunk(p) = {p - 1}
      /\ t \in Tasks /\ t # Collector /\ UserSound(heap, t, p, len[t], call[t], program)
  BY <1>1, <1>2, UserHas, HeapAssumption
<1>4. ptr \in [Users -> Nat] /\ call \in [Tasks -> Calls] /\ len \in [Users -> Nat]
  BY DEF HInv
<1>5. StepOf(t) /\ ptr'[t] = NULL /\ len'[t] = 0
  BY <1>2, <1>4 DEF StepOf, NULL
<1>6. /\ ptr' \in [Users -> Nat] /\ call' \in [Tasks -> Calls]
      /\ \A u \in Users \ {t} : ptr'[u] = ptr[u]
      /\ \A u \in Tasks \ {t} : call'[u] = call[u]
  BY <1>5 DEF StepOf
<1>7. /\ f \in [Hands -> Nat] /\ g \in [Hands -> Nat] /\ sp \in Hands /\ f[sp] = p /\ g[sp] = NULL
      /\ \A q \in Hands \ {sp} : g[q] = f[q]
  <2>1. /\ f \in [Hands -> Nat] /\ g \in [Hands -> Nat] /\ sp \in Hands /\ f[sp] = p /\ g[sp] = NULL
    BY <1>4, <1>5, <1>6, HandsAre
  <2>2. Differ(ptr, call, ptr', call', t)
    BY <1>3, <1>4, <1>6, HandsDiffer
  <2>3. (\A q \in Hands : q # sp /\ q # sm => g[q] = f[q]) /\ g[sm] = f[sm]
    BY <1>2, <2>2 DEF Differ
  <2> HIDE DEF f, g, sp, sm
  <2> QED BY <2>1, <2>3
<1>8. Scribbled(heap, C, heap', p - 1)
  <2>1. len[t] < Size(heap, p - 1)
    BY <1>2, <1>3 DEF UserSound
  <2> QED BY <2>1, <1>2, <1>3, JunkSwaps
<1>9. sp[1] = t
  OBVIOUS
<1> HIDE DEF f, g, sp, p
<1>10. HandSwapped(heap, f, heap', C, f, delayed, sp, program)
  <2>1. Swaps(heap, C, heap', C, Chunk(f[sp]), Chunk(f[sp])) /\ (Evens(heap, C) => Evens(heap', C))
    BY <1>3, <1>7, <1>8 DEF Scribbled
  <2> QED BY <2>1, <1>1, <1>3, <1>7, SwapKeeps
<1>11. Kept(heap', C, f, delayed, program) /\ OtherHands(heap, heap', f, t)
  BY <1>9, <1>10 DEF HandSwapped
<1>12. Kept(heap', C, g, delayed', program)
  <2> DEFINE K == Alloc(heap', C)
  <2>1. K \in SUBSET Nat /\ Owned(K, f, delayed) /\ delayed \in Seq(Nat \ {0})
    <3>1. Chain(heap', C)
      BY <1>11 DEF Kept, Good, GoodBut
    <3>2. C \subseteq Nat
      BY <3>1 DEF Chain, Addrs
    <3> QED BY <1>11, <3>2 DEF Alloc, Kept
  <2> HIDE DEF K
  <2>2. Owned(K, g, Append(delayed, f[sp])) /\ Append(delayed, f[sp]) \in Seq(Nat \ {0})
    BY <2>1, <1>2, <1>7, HandDelays
  <2>3. delayed' = Append(delayed, f[sp])
    BY <1>2, <1>7
  <2> QED BY <2>2, <2>3, <1>11 DEF Kept, K
<1>13. UserSound(heap', t, NULL, 0, Out, program)
  BY DEF UserSound, NULL
<1>14. SoundAfter(t)
  BY <1>2, <1>3, <1>5, <1>13 DEF SoundAfter
<1>15. /\ Kept(heap', C, InHand(ptr', call'), delayed', program)
       /\ OtherHands(heap, heap', InHand(ptr, call), t)
  BY <1>11, <1>12 DEF f, g
<1> QED BY <1>3, <1>5, <1>14, <1>15, InvAfter

(* The collector takes a block, and frees it in another step.              *)
LEMMA CollectKeeps ==
  ASSUME HInv, sched_garbagecollection
  PROVE  HInv'
<1> DEFINE t == Collector
           f == InHand(ptr, call)
           g == InHand(ptr', call')
           sp == <<t, "ptr">>
           sm == <<t, "mem">>
           b == Head(delayed)
           c == [Out EXCEPT !.at = "kfree", !.mem = b]
<1>1. PICK C : Kept(heap, C, f, delayed, program)
  BY DEF HInv
<1>2. /\ call[t] = Out /\ delayed # <<>> /\ call' = [call EXCEPT ![t] = c] /\ delayed' = Tail(delayed)
      /\ heap' = heap /\ ptr' = ptr /\ len' = len /\ program' = program
  BY DEF sched_garbagecollection
<1>3. /\ ptr \in [Users -> Nat] /\ call \in [Tasks -> Calls] /\ len \in [Users -> Nat]
      /\ t \in Tasks /\ t \notin Users
  BY HeapAssumption DEF HInv, Tasks
<1>4. delayed \in Seq(Nat \ {0}) /\ Good(heap, C) /\ Owned(Alloc(heap, C), f, delayed)
  BY <1>1 DEF Kept
<1>5. b \in Nat \ {0}
  BY <1>2, <1>4, HeadTailProperties
<1> HIDE DEF b
<1>6. c \in Calls /\ c.mem = b /\ c.at = "kfree"
  BY <1>5 DEF Calls, Out
<1> HIDE DEF c
<1>7. call' \in [Tasks -> Calls] /\ call'[t] = c /\ \A u \in Tasks \ {t} : call'[u] = call[u]
  BY <1>2, <1>3, <1>6
<1>8. StepOf(t)
  BY <1>2, <1>3, <1>7 DEF StepOf
<1>9. /\ f \in [Hands -> Nat] /\ g \in [Hands -> Nat] /\ sm \in Hands /\ f[sm] = NULL /\ g[sm] = b
  <2>1. /\ f \in [Hands -> Nat] /\ sm \in Hands /\ f[sm] = call[t].mem
    BY <1>3, HandsAre
  <2>2. ptr' \in [Users -> Nat]
    BY <1>2, <1>3
  <2>3. g \in [Hands -> Nat] /\ g[sm] = call'[t].mem
    BY <2>2, <1>3, <1>7, HandsAre
  <2> HIDE DEF f, g, sm
  <2> QED BY <2>1, <2>3, <1>2, <1>6, <1>7, OutIsCall
<1>10. \A q \in Hands \ {sm} : g[q] = f[q]
  <2>1. Differ(ptr, call, ptr', call', t)
    BY <1>2, <1>3, <1>7, HandsDiffer
  <2>2. \A q \in Hands : q # sp /\ q # sm => g[q] = f[q]
    BY <2>1 DEF Differ
  <2>3. sp \notin Hands
    BY <1>3 DEF Hands
  <2> HIDE DEF f, g, sp, sm
  <2> QED BY <2>2, <2>3
<1> HIDE DEF f, g, sm
<1>11. Alloc(heap, C) \subseteq Nat /\ Chain(heap, C)
  <2>1. Chain(heap, C)
    BY <1>4 DEF Good, GoodBut
  <2>2. C \subseteq Nat
    BY <2>1 DEF Chain, Addrs
  <2> QED BY <2>1, <2>2 DEF Alloc
<1>12. Kept(heap', C, g, delayed', program)
  <2> DEFINE K == Alloc(heap, C)
  <2>1. K \in SUBSET Nat /\ Owned(K, f, delayed)
    BY <1>4, <1>11
  <2> HIDE DEF K
  <2>2. Owned(K, g, Tail(delayed)) /\ Tail(delayed) \in Seq(Nat \ {0})
    BY <2>1, <1>2, <1>4, <1>9, <1>10, HandCollects DEF b
  <2> QED BY <2>2, <1>1, <1>2 DEF Kept, K
<1>13. OtherHands(heap, heap', f, t)
  <2>1. \A s \in Hands : f[s] # NULL => f[s] - 1 \in C
    BY <1>4 DEF Owned, Alloc
  <2> QED BY <2>1, <1>2, <1>11 DEF OtherHands, SameBlock, Chain
<1>14. SoundAfter(t)
  <2>1. b # NULL
    BY <1>5 DEF NULL
  <2>2. CollectorSound(c)
    BY <2>1, <1>6 DEF CollectorSound
  <2> QED BY <2>2, <1>3, <1>7 DEF SoundAfter
<1>15. /\ Kept(heap', C, InHand(ptr', call'), delayed', program)
       /\ OtherHands(heap, heap', InHand(ptr, call), t)
  BY <1>12, <1>13 DEF f, g
<1> QED BY <1>3, <1>8, <1>14, <1>15, InvAfter

(* The free of a delayed block keeps the invariant.                        *)
LEMMA KfreeKeeps ==
  ASSUME HInv, kfree
  PROVE  HInv'
<1> DEFINE t == Collector
           b == call[t].mem
           f == InHand(ptr, call)
<1>1. PICK C : Kept(heap, C, InHand(ptr, call), delayed, program)
  BY DEF HInv
<1>2. /\ call[t].at = "kfree" /\ heap' = free_section(heap, b) /\ call' = [call EXCEPT ![t] = Out]
      /\ UNCHANGED <<ptr, len, delayed, program>>
  BY DEF kfree
<1>3. /\ ptr \in [Users -> Nat] /\ call \in [Tasks -> Calls] /\ t \in Tasks /\ t \notin Users
      /\ CollectorSound(call[t])
  BY HeapAssumption DEF HInv, Tasks
<1>4. b # NULL /\ b \in Nat
  BY <1>2, <1>3, OutIsCall DEF CollectorSound, Calls
<1>5. /\ Good(heap, C) /\ ("memalign" \notin program => Evens(heap, C))
      /\ Owned(Alloc(heap, C), f, delayed)
  BY <1>1 DEF Kept
<1>6. b - 1 \in Alloc(heap, C)
  <2>1. <<t, "mem">> \in Hands /\ f[<<t, "mem">>] = b
    BY <1>3, HandsAre
  <2> HIDE DEF f, b
  <2> QED BY <2>1, <1>4, <1>5 DEF Owned
<1>7. FreeSound(heap, C, heap', b - 1)
  BY <1>2, <1>5, <1>6, FreeSwaps
<1>8. PICK D : Swaps(heap, C, heap', D, {b - 1}, {}) /\ (Evens(heap, C) => Evens(heap', D))
  BY <1>7 DEF FreeSound
<1>9. StepOf(t) /\ ptr' = ptr /\ call'[t] = Out /\ delayed' = delayed
  BY <1>2, <1>3, CallStep, OutIsCall
<1>10. SoundAfter(t)
  BY <1>3, <1>9 DEF SoundAfter, CollectorSound
<1>11. Chunk(call[t].mem) = {b - 1} /\ Chunk(call'[t].mem) = {}
  BY <1>4, <1>9, OutIsCall DEF Chunk
<1>12. Swaps(heap, C, heap', D, Chunk(call[t].mem), Chunk(call'[t].mem))
  BY <1>8, <1>11
<1> QED BY <1>1, <1>3, <1>5, <1>8, <1>9, <1>10, <1>12, MemSwaps

(* The region that mm_initialize makes: one free chunk between guards.     *)
InitSound(h, C) == Good(h, C) /\ Evens(h, C) /\ Alloc(h, C) = {}

(* mm_initialize makes a sound heap with nothing allocated.                *)
LEMMA InitialHeap == InitSound(mm_initialize, {0, 1, Top})
<1> DEFINE words == [w \in Addrs |-> Junk]
           lists == [k \in Classes |-> <<>>]
           empty == [mem |-> words, nodelist |-> lists]
           al == TRUE
           fr == FALSE
           start == SetHeader(empty, 0, 1, 0, al)
           node == SetHeader(start, 1, HeapWords, 1, fr)
           end == SetHeader(node, Top, 1, HeapWords, al)
           y == mm_addfreechunk(end, 1)
           C == {0, 1, Top}
           L == {1}
<1>1. mm_initialize = y
  BY DEF mm_initialize, Addrs, Classes
<1>2. /\ HeapWords \in Nat /\ HeapWords >= 2 /\ HeapWords % 2 = 0 /\ Top = HeapWords + 1 /\ Top \in Nat
      /\ 0 \in Addrs /\ 1 \in Addrs /\ Top \in Addrs /\ 0 # Top /\ 1 # Top /\ C \subseteq Addrs
  BY HeapAssumption DEF Top, Addrs
<1> HIDE DEF y
<1>3. IsHeap(empty)
  <2>1. lists \in [Classes -> Seq(Addrs)]
    OBVIOUS
  <2>2. empty.mem = words /\ empty.nodelist = lists
    OBVIOUS
  <2>3. words = [w \in Addrs |-> words[w]]
    OBVIOUS
  <2> HIDE DEF words, lists
  <2> QED BY <2>1, <2>2, <2>3 DEF IsHeap
<1>4. al \in BOOLEAN /\ fr \in BOOLEAN /\ empty.nodelist = lists
  OBVIOUS
<1>4a. al /\ ~fr
  OBVIOUS
<1> HIDE DEF empty, al, fr
<1>5. Wrote(empty, start, 0, Header(1, 0, al))
  BY <1>2, <1>3, SetHeaderWrites
<1> HIDE DEF start
<1>6. Wrote(start, node, 1, Header(HeapWords, 1, fr))
  BY <1>2, <1>5, SetHeaderWrites DEF Wrote
<1> HIDE DEF node
<1>7. Wrote(node, end, Top, Header(1, HeapWords, al))
  BY <1>2, <1>6, SetHeaderWrites DEF Wrote
<1> HIDE DEF end
<1>8. /\ IsHeap(end) /\ end.nodelist = lists
      /\ end.mem[0] = Header(1, 0, al) /\ end.mem[1] = Header(HeapWords, 1, fr)
      /\ end.mem[Top] = Header(1, HeapWords, al)
  <2>1. /\ IsHeap(end) /\ end.nodelist = node.nodelist /\ end.mem[Top] = Header(1, HeapWords, al)
        /\ end.mem[0] = node.mem[0] /\ end.mem[1] = node.mem[1]
    BY <1>2, <1>7 DEF Wrote
  <2>2. /\ node.nodelist = start.nodelist /\ node.mem[1] = Header(HeapWords, 1, fr) /\ node.mem[0] = start.mem[0]
    BY <1>2, <1>6 DEF Wrote
  <2>3. start.nodelist = lists /\ start.mem[0] = Header(1, 0, al)
    BY <1>4, <1>5 DEF Wrote
  <2> HIDE DEF lists
  <2> QED BY <2>1, <2>2, <2>3
<1>9. /\ IsHeader(end, 0) /\ Size(end, 0) = 1 /\ Preceding(end, 0) = 0 /\ Allocated(end, 0)
      /\ IsHeader(end, 1) /\ Size(end, 1) = HeapWords /\ Preceding(end, 1) = 1 /\ ~Allocated(end, 1)
      /\ IsHeader(end, Top) /\ Size(end, Top) = 1 /\ Preceding(end, Top) = HeapWords /\ Allocated(end, Top)
  <2>1. IsHeader(end, 0) /\ Size(end, 0) = 1 /\ Preceding(end, 0) = 0 /\ (Allocated(end, 0) <=> al)
    BY <1>4, <1>8, HeaderReads
  <2>2. /\ IsHeader(end, 1) /\ Size(end, 1) = HeapWords /\ Preceding(end, 1) = 1
        /\ (Allocated(end, 1) <=> fr)
    BY <1>4, <1>8, HeaderReads
  <2>3. /\ IsHeader(end, Top) /\ Size(end, Top) = 1 /\ Preceding(end, Top) = HeapWords
        /\ (Allocated(end, Top) <=> al)
    BY <1>4, <1>8, HeaderReads
  <2> QED BY <2>1, <2>2, <2>3, <1>4a
<1>10. Chain(end, C)
  <2>1. \A a \in C : IsHeader(end, a) /\ Size(end, a) \in Nat \ {0}
    BY <1>2, <1>9
  <2>3. \A a \in C \ {0} : /\ a - Preceding(end, a) \in C
                           /\ Size(end, a - Preceding(end, a)) = Preceding(end, a)
    <3> TAKE a \in C \ {0}
    <3>1. CASE a = 1
      <4>1. a - Preceding(end, a) = 0
        BY <3>1, <1>9
      <4> QED BY <3>1, <4>1, <1>9
    <3>2. CASE a = Top
      <4>1. a - Preceding(end, a) = 1
        BY <3>2, <1>2, <1>9
      <4> QED BY <3>2, <4>1, <1>9
    <3> QED BY <3>1, <3>2
  <2>4. \A a \in C \ {0, Top} : Size(end, a) >= FreeNode
    BY <1>2, <1>9 DEF FreeNode
  <2>5. /\ C \subseteq Addrs /\ 0 \in C /\ 1 \in C /\ Top \in C
        /\ \A c \in C : c = 0 \/ c = 1 \/ c = Top
    BY <1>2
  <2> HIDE DEF C
  <2>2. \A a \in C \ {Top} : /\ a + Size(end, a) \in C
                             /\ Preceding(end, a + Size(end, a)) = Size(end, a)
                             /\ \A c \in C : c <= a \/ a + Size(end, a) <= c
    <3> TAKE a \in C \ {Top}
    <3>0. a = 0 \/ a = 1
      BY <2>5
    <3>1. CASE a = 0
      <4>1. a + Size(end, a) = 1 /\ Size(end, a) = 1
        BY <3>1, <1>9
      <4>2. \A c \in C : c <= a \/ 1 <= c
        BY <2>5, <3>1, <1>2
      <4> QED BY <4>1, <4>2, <2>5, <1>9
    <3>2. CASE a = 1
      <4>1. a + Size(end, a) = Top /\ Size(end, a) = HeapWords
        BY <3>2, <1>2, <1>9
      <4>2. \A c \in C : c <= a \/ Top <= c
        BY <2>5, <3>2, <1>2
      <4>3. Preceding(end, a + Size(end, a)) = Preceding(end, Top)
        BY <4>1
      <4>4. Preceding(end, a + Size(end, a)) = Size(end, a)
        BY <4>1, <4>3, <1>9
      <4>5. a + Size(end, a) \in C
        BY <4>1, <2>5
      <4>6. \A c \in C : c <= a \/ a + Size(end, a) <= c
        BY <4>1, <4>2
      <4> QED BY <4>4, <4>5, <4>6
    <3> QED BY <3>0, <3>1, <3>2
  <2> QED BY <2>1, <2>2, <2>3, <2>4, <2>5, <1>9 DEF Chain
<1>11. Free(end, C) = L
  BY <1>2, <1>9 DEF Free
<1>12. Listed(end, {})
  <2>1. \A k \in Classes : end.nodelist[k] = <<>>
    BY <1>8
  <2>2. \A k \in Classes : DOMAIN end.nodelist[k] = {}
    BY <2>1
  <2> QED BY <2>2 DEF Listed, Linked, Distinct, Ascends
<1>13. GoodBut(end, C, L)
  <2>1. Free(end, C) \ L = {}
    BY <1>11
  <2> HIDE DEF C, L
  <2> QED BY <2>1, <1>8, <1>10, <1>12 DEF GoodBut
<1>14. Relisted(end, C, L, 1, y)
  <2>1. 1 \in L /\ 1 \in Free(end, C)
    BY <1>11
  <2> HIDE DEF C, L
  <2> QED BY <2>1, <1>13, AddRelists DEF y
<1>15. GoodBut(y, C, {}) /\ \A c \in C : y.mem[c] = end.mem[c]
  <2>1. L \ {1} = {}
    OBVIOUS
  <2>2. GoodBut(y, C, L \ {1}) /\ \A c \in C : y.mem[c] = end.mem[c]
    <3> HIDE DEF L
    <3> QED BY <1>14 DEF Relisted
  <2> HIDE DEF C, L
  <2> QED BY <2>1, <2>2
<1>16. Size(y, 1) = HeapWords /\ ~Allocated(y, 1)
  BY <1>9, <1>15, SameHeader
<1>17. Evens(y, C) /\ Alloc(y, C) = {}
  BY <1>2, <1>16 DEF Evens, Alloc
<1>18. Good(y, C)
  BY <1>15 DEF Good
<1> HIDE DEF C
<1>19. InitSound(y, C)
  BY <1>17, <1>18 DEF InitSound
<1> QED BY <1>1, <1>19 DEF C

(* It holds in the initial states.                                         *)
LEMMA InitHolds == HInit => HInv
<1> SUFFICES ASSUME HInit PROVE HInv
  OBVIOUS
<1> DEFINE C == {0, 1, Top}
           f == InHand(ptr, call)
<1>1. /\ heap = mm_initialize /\ ptr = [t \in Users |-> NULL] /\ len = [t \in Users |-> 0]
      /\ call = [t \in Tasks |-> Out] /\ delayed = <<>> /\ program \in Programs
  BY DEF HInit, Tasks
<1>2. /\ ptr \in [Users -> Nat] /\ len \in [Users -> Nat] /\ call \in [Tasks -> Calls]
      /\ \A t \in Users : ptr[t] = NULL /\ len[t] = 0
      /\ \A t \in Tasks : call[t] = Out
  BY <1>1, OutIsCall DEF NULL
<1>3. InitSound(heap, C)
  BY <1>1, InitialHeap
<1>4. \A s \in Hands : f[s] = NULL
  <2>1. \A s \in Hands : \/ \E t \in Users : s = <<t, "ptr">>
                         \/ \E t \in Tasks : s = <<t, "mem">>
    BY DEF Hands
  <2>2. (\A t \in Users : f[<<t, "ptr">>] = NULL) /\ (\A t \in Tasks : f[<<t, "mem">>] = NULL)
    BY <1>2, HandsAre, OutIsCall
  <2> HIDE DEF f
  <2> QED BY <2>1, <2>2
<1> HIDE DEF C, f
<1>5. delayed \in Seq(Nat \ {0}) /\ DOMAIN delayed = {}
  BY <1>1
<1>6. Owned({}, f, delayed)
  BY <1>4, <1>5 DEF Owned, Distinct, Linked
<1>7. Kept(heap, C, f, delayed, program)
  BY <1>3, <1>5, <1>6 DEF Kept, InitSound
<1>8. \A t \in Users : UserSound(heap, t, ptr[t], len[t], call[t], program)
  BY <1>2 DEF UserSound, Tasks
<1>9. CollectorSound(call[Collector])
  BY <1>2 DEF CollectorSound, Tasks
<1> QED BY <1>1, <1>2, <1>7, <1>8, <1>9 DEF HInv, f

(* Every step keeps it.                                                    *)
LEMMA NextKeeps ==
  ASSUME Separate, HInv, [HNext]_hvars
  PROVE  HInv'
<1>1. ASSUME NEW t \in Users, NEW n \in Requests, malloc(t, n) PROVE HInv'
  BY <1>1, MallocKeeps
<1>2. ASSUME NEW t \in Users, NEW n \in Requests, realloc(t, n) PROVE HInv'
  <2> DEFINE r == realloc_section(heap, ptr[t], AlignUp(n + 1))
  <2>1. /\ ptr[t] # NULL /\ Makes(t, "realloc") /\ delayed' = delayed /\ program' = program
        /\ \/ r.ret # NULL /\ Returns(t, r.heap, r.ret, n, Min({len[t], n}))
           \/ /\ r.ret = NULL
              /\ call' = [call EXCEPT ![t] = [@ EXCEPT !.at = "realloc_malloc", !.n = n]]
              /\ UNCHANGED <<heap, ptr, len>>
    BY <1>2 DEF realloc
  <2>2. CASE r.ret # NULL
    <3>1. r.ret # NULL /\ Returns(t, r.heap, r.ret, n, Min({len[t], n}))
      BY <2>1, <2>2
    <3> QED BY <2>1, <3>1, ReallocInPlaceKeeps
  <2>3. CASE r.ret = NULL
    <3>1. call' = [call EXCEPT ![t] = [@ EXCEPT !.at = "realloc_malloc", !.n = n]] /\ UNCHANGED <<heap, ptr, len>>
      BY <2>1, <2>3
    <3> QED BY <2>1, <2>3, <3>1, ReallocBeginsKeeps
  <2> QED BY <2>2, <2>3
<1>3. ASSUME NEW t \in Users, NEW n \in Requests, NEW al \in Alignments, memalign(t, al, n) PROVE HInv'
  BY <1>3, MemalignKeeps
<1>4. ASSUME NEW t \in Users, free(t) PROVE HInv'
  BY <1>4, FreeKeeps
<1>5. ASSUME NEW t \in Users, realloc_malloc(t) PROVE HInv'
  BY <1>5, ReallocMallocKeeps
<1>6. ASSUME NEW t \in Users, realloc_free(t) PROVE HInv'
  BY <1>6, ReallocFreeKeeps
<1>7. ASSUME NEW t \in Users, memalign_aligns(t) PROVE HInv'
  BY <1>7, MemalignAlignsKeeps
<1>8. ASSUME NEW t \in Users, sched_free(t) PROVE HInv'
  BY <1>8, SchedFreeKeeps
<1>9. CASE sched_garbagecollection
  BY <1>9, CollectKeeps
<1>10. CASE kfree
  BY <1>10, KfreeKeeps
<1>11. CASE UNCHANGED hvars
  BY <1>11 DEF hvars, HInv
<1> QED BY <1>1, <1>2, <1>3, <1>4, <1>5, <1>6, <1>7, <1>8, <1>9, <1>10, <1>11 DEF HNext

(* In every program that does not both align and resize blocks, every      *)
(* section of malloc, free, realloc, memalign, sched_free and              *)
(* sched_garbagecollection keeps headers, free lists, owners and words in  *)
(* agreement.                                                              *)
THEOREM HeapInvariant ==
  ASSUME Separate
  PROVE  HSpec => []HInv
<1>1. HInv /\ [HNext]_hvars => HInv'
  BY NextKeeps
<1> QED BY InitHolds, <1>1, PTL DEF HSpec

-----------------------------------------------------------------------------
(* The chunks are walked from header to header as far as any address.      *)
LEMMA Steps ==
  ASSUME NEW h, NEW C, Chain(h, C), NEW n \in Nat
  PROVE  \E f \in [0 .. n -> C] :
           /\ f[0] = 0
           /\ \A k \in 1 .. n : f[k] = IF f[k-1] >= Top THEN f[k-1] ELSE f[k-1] + Size(h, f[k-1])
<1> DEFINE next(a) == IF a >= Top THEN a ELSE a + Size(h, a)
           P(m) == \E f \in [0 .. m -> C] : f[0] = 0 /\ \A k \in 1 .. m : f[k] = next(f[k-1])
           F == {m \in Nat : ~P(m)}
<1>1. C \subseteq Nat /\ 0 \in C /\ Top \in Nat /\ \A a \in C : next(a) \in C
  <2>1. Top \in Nat /\ C \subseteq Addrs /\ Addrs \subseteq Nat
    BY HeapAssumption DEF Top, Addrs, Chain
  <2>2. \A a \in C : a < Top => a \in C \ {Top} /\ ~(a >= Top)
    BY <2>1
  <2> QED BY <2>1, <2>2 DEF Chain
<1> HIDE DEF next
<1>2. P(0)
  <2> DEFINE f == [k \in 0 .. 0 |-> 0]
  <2>1. f \in [0 .. 0 -> C] /\ f[0] = 0 /\ 1 .. 0 = {}
    BY <1>1
  <2> QED BY <2>1
<1>3. ASSUME NEW m \in Nat, P(m) PROVE P(m + 1)
  <2>1. PICK f \in [0 .. m -> C] : f[0] = 0 /\ \A k \in 1 .. m : f[k] = next(f[k-1])
    BY <1>3
  <2> DEFINE g == [k \in 0 .. m + 1 |-> IF k = m + 1 THEN next(f[m]) ELSE f[k]]
  <2>2. f[m] \in C /\ next(f[m]) \in C
    <3>1. m \in 0 .. m
      OBVIOUS
    <3> QED BY <3>1, <1>1
  <2>3. g \in [0 .. m + 1 -> C]
    BY <2>2
  <2>4. g[0] = 0 /\ \A k \in 0 .. m : g[k] = f[k]
    BY <2>1
  <2>5. \A k \in 1 .. m + 1 : g[k] = next(g[k-1])
    <3> TAKE k \in 1 .. m + 1
    <3>1. CASE k = m + 1
      <4>1. g[k] = next(f[m]) /\ k - 1 = m
        BY <3>1
      <4> QED BY <4>1, <2>4
    <3>2. CASE k # m + 1
      <4>1. k \in 1 .. m /\ k - 1 \in 0 .. m
        BY <3>2
      <4>2. g[k] = f[k] /\ g[k-1] = f[k-1]
        BY <4>1, <2>4
      <4> QED BY <4>1, <4>2, <2>1
    <3> QED BY <3>1, <3>2
  <2> HIDE DEF g
  <2> QED BY <2>3, <2>4, <2>5
<1>4. \A m \in Nat : P(m)
  <2> HIDE DEF P
  <2> SUFFICES ASSUME F # {} PROVE FALSE
    OBVIOUS
  <2>1. PICK m \in F : \A k \in F : m <= k
    <3>1. F \in SUBSET Nat
      OBVIOUS
    <3> HIDE DEF F
    <3> QED BY <3>1, LeastNatural
  <2>2. m \in Nat /\ ~P(m)
    OBVIOUS
  <2>3. m # 0
    BY <2>2, <1>2
  <2>4. m - 1 \in Nat /\ m - 1 \notin F
    BY <2>1, <2>2, <2>3
  <2>5. P((m - 1) + 1)
    BY <2>4, <1>3
  <2>6. (m - 1) + 1 = m
    BY <2>2
  <2> QED BY <2>2, <2>5, <2>6
<1> QED BY <1>4 DEF next

(* The walk of mallinfo comes past every chunk.                            *)
LEMMA WalkIsChain ==
  ASSUME NEW h, NEW C, Chain(h, C)
  PROVE  WalkOf(h) = C
<1> DEFINE next(a) == IF a >= Top THEN a ELSE a + Size(h, a)
           E(f) == [k \in 0 .. Top |-> IF k = 0 THEN 0 ELSE next(f[k-1])]
           at == CHOOSE f : f = E(f)
<1>1. WalkOf(h) = {at[k] : k \in 0 .. Top}
  BY DEF WalkOf
<1>2. Top \in Nat /\ C \subseteq 0 .. Top /\ 0 \in C /\ Top \in C
  BY HeapAssumption DEF Top, Addrs, Chain
<1>2a. \A c \in C : c \in Nat /\ c <= Top
  BY <1>2
<1>3. \E f : f = E(f)
  <2>1. PICK f \in [0 .. Top -> C] : f[0] = 0 /\ \A k \in 1 .. Top : f[k] = next(f[k-1])
    BY <1>2, Steps
  <2>2. \A k \in 0 .. Top : f[k] = IF k = 0 THEN 0 ELSE next(f[k-1])
    <3> HIDE DEF next
    <3> QED BY <2>1, <1>2
  <2>3. f = [k \in 0 .. Top |-> f[k]]
    BY <2>1
  <2> HIDE DEF next
  <2> QED BY <2>2, <2>3
<1>4. at = E(at)
  <2> HIDE DEF E
  <2> QED BY <1>3
<1> HIDE DEF at
<1>5. at[0] = 0 /\ \A k \in 1 .. Top : at[k] = next(at[k-1])
  <2> HIDE DEF next
  <2>1. \A k \in 0 .. Top : at[k] = IF k = 0 THEN 0 ELSE next(at[k-1])
    BY <1>4
  <2> QED BY <2>1, <1>2
<1>6. \A a \in C \ {Top} : /\ a < Top /\ next(a) \in C /\ next(a) > a
                           /\ \A c \in C : c <= a \/ next(a) <= c
  <2> TAKE a \in C \ {Top}
  <2>1. a \in Nat /\ a < Top /\ next(a) = a + Size(h, a)
    BY <1>2
  <2>2. /\ Size(h, a) \in Nat \ {0} /\ a + Size(h, a) \in C
        /\ \A c \in C : c <= a \/ a + Size(h, a) <= c
    BY DEF Chain
  <2> HIDE DEF next
  <2> QED BY <2>1, <2>2
<1>7. next(Top) = Top
  BY <1>2
<1> HIDE DEF next, E
<1> DEFINE P(k) == at[k] \in C /\ (at[k] >= k \/ at[k] = Top)
           F == {k \in 0 .. Top : ~P(k)}
<1>8. \A k \in 0 .. Top : P(k)
  <2>1. P(0)
    BY <1>2, <1>5
  <2>2. ASSUME NEW k \in 1 .. Top, P(k-1) PROVE P(k)
    <3>1. at[k] = next(at[k-1]) /\ at[k-1] \in C
      BY <1>5, <2>2
    <3>2. CASE at[k-1] = Top
      BY <3>1, <3>2, <1>2, <1>7
    <3>3. CASE at[k-1] # Top
      <4>1. at[k] \in C /\ at[k] > at[k-1]
        BY <3>1, <3>3, <1>6
      <4>2. at[k-1] >= k - 1 /\ at[k-1] \in Nat /\ at[k] \in Nat
        BY <2>2, <3>1, <3>3, <4>1, <1>2a
      <4>3. at[k] >= k
        BY <4>1, <4>2
      <4> QED BY <4>1, <4>3
    <3> QED BY <3>2, <3>3
  <2> HIDE DEF P
  <2> SUFFICES ASSUME F # {} PROVE FALSE
    OBVIOUS
  <2>3. PICK k \in F : \A j \in F : k <= j
    <3>1. F \in SUBSET Nat
      BY <1>2
    <3> HIDE DEF F
    <3> QED BY <3>1, LeastNatural
  <2>4. k \in 0 .. Top /\ ~P(k) /\ k # 0
    BY <2>1
  <2>5. k \in 1 .. Top /\ k - 1 \in 0 .. Top /\ k - 1 \notin F
    BY <2>3, <2>4, <1>2
  <2> QED BY <2>2, <2>4, <2>5
<1>9. at[Top] = Top
  <2>1. P(Top) /\ at[Top] \in 0 .. Top
    BY <1>2, <1>8
  <2> QED BY <2>1, <1>2
<1>10. ASSUME NEW c \in C PROVE \E k \in 0 .. Top : at[k] = c
  <2> DEFINE T == {k \in 0 .. Top : at[k] >= c}
  <2>1. Top \in T /\ T \in SUBSET Nat
    BY <1>2, <1>9
  <2>2. PICK k \in T : \A j \in T : k <= j
    <3> HIDE DEF T
    <3> QED BY <2>1, LeastNatural
  <2>3. CASE k = 0
    BY <2>3, <1>2, <1>5
  <2>4. CASE k # 0
    <3>1. k \in 1 .. Top /\ k - 1 \in 0 .. Top /\ k - 1 \notin T
      BY <2>2, <2>4, <1>2
    <3>2. at[k-1] \in C /\ at[k] = next(at[k-1]) /\ at[k] >= c
      BY <3>1, <1>5, <1>8
    <3>3. at[k-1] \in Nat /\ c \in Nat /\ c <= Top /\ ~(at[k-1] >= c)
      BY <3>1, <3>2, <1>2a
    <3>4. at[k-1] < c /\ at[k-1] # Top
      BY <3>3, <1>2
    <3>5. at[k] = c
      <4>1. at[k-1] \in C \ {Top}
        BY <3>2, <3>4
      <4>2. at[k] \in C /\ (c <= at[k-1] \/ at[k] <= c)
        BY <4>1, <3>2, <1>6
      <4>3. at[k] \in Nat
        BY <4>2, <1>2a
      <4> HIDE DEF T
      <4> QED BY <4>2, <4>3, <3>2, <3>3, <3>4
    <3> QED BY <3>1, <3>5
  <2> QED BY <2>3, <2>4
<1> QED BY <1>1, <1>8, <1>10

(* The nodes in the lists are the free chunks.                             *)
LEMMA ListedNodes ==
  ASSUME NEW C, Good(heap, C)
  PROVE  FreeNodes = Free(heap, C)
<1>1. /\ heap.nodelist \in [Classes -> Seq(Addrs)] /\ Listed(heap, Free(heap, C)) /\ Chain(heap, C)
      /\ Free(heap, C) \subseteq Addrs
  <2>1. Free(heap, C) \ {} = Free(heap, C)
    OBVIOUS
  <2> QED BY <2>1 DEF Good, GoodBut, IsHeap, Free, Chain
<1>2. ASSUME NEW k \in Classes PROVE ToSet(heap.nodelist[k]) = {a \in Addrs : Linked(heap.nodelist[k], a)}
  <2>1. \A i \in DOMAIN heap.nodelist[k] : heap.nodelist[k][i] \in Addrs
    BY <1>1
  <2> QED BY <2>1 DEF ToSet, Linked
<1>3. FreeNodes = UNION {ToSet(heap.nodelist[k]) : k \in Classes}
  BY DEF FreeNodes, Classes
<1>4. ASSUME NEW a \in FreeNodes PROVE a \in Free(heap, C)
  <2>1. PICK k \in Classes : a \in ToSet(heap.nodelist[k])
    BY <1>3
  <2>2. a \in Addrs /\ Linked(heap.nodelist[k], a)
    BY <1>2, <2>1
  <2> QED BY <1>1, <2>2 DEF Listed
<1>5. ASSUME NEW a \in Free(heap, C) PROVE a \in FreeNodes
  <2> DEFINE k == mm_size2ndx(Size(heap, a))
  <2>1. Size(heap, a) \in Nat /\ k \in Classes
    <3>1. Size(heap, a) \in Nat
      BY <1>1 DEF Chain, Free
    <3> QED BY <3>1, ClassOfSize
  <2>2. Linked(heap.nodelist[k], a) /\ a \in Addrs
    <3>1. a \in Addrs /\ k \in Classes
      BY <1>1, <2>1
    <3> QED BY <1>1, <3>1 DEF Listed
  <2> HIDE DEF k
  <2>3. a \in ToSet(heap.nodelist[k])
    BY <1>2, <2>1, <2>2
  <2> QED BY <1>3, <2>1, <2>3
<1> QED BY <1>4, <1>5

(* The invariant implies ListsMatchChunks.                                 *)
LEMMA ListsMatch ==
  ASSUME HInv
  PROVE  ListsMatchChunks
<1>1. PICK C : Kept(heap, C, InHand(ptr, call), delayed, program)
  BY DEF HInv
<1>2. Good(heap, C) /\ Chain(heap, C) /\ Walk = C
  <2>1. Good(heap, C) /\ Chain(heap, C)
    BY <1>1 DEF Kept, Good, GoodBut
  <2> QED BY <2>1, WalkIsChain DEF Walk
<1>3. FreeNodes = Free(heap, C)
  BY <1>2, ListedNodes
<1>4. Top \in Walk /\ Walk \subseteq 0 .. Top
  BY <1>2 DEF Chain, Addrs
<1>5. \A a \in Walk \ {Top} : Preceding(heap, a + Size(heap, a)) = Size(heap, a)
  BY <1>2 DEF Chain
<1>6. FreeNodes = {a \in Walk : ~Allocated(heap, a)}
  BY <1>2, <1>3 DEF Free
<1>7. \A a \in FreeNodes : Size(heap, a) >= FreeNode
  BY <1>2, <1>3 DEF Free, Chain
<1>8. ASSUME NEW k \in Classes
      PROVE  LET q == heap.nodelist[k]
             IN  \A i \in DOMAIN q :
                   /\ mm_size2ndx(Size(heap, q[i])) = k
                   /\ \A j \in 1 .. i - 1 : q[j] # q[i] /\ Size(heap, q[j]) <= Size(heap, q[i])
  <2> DEFINE q == heap.nodelist[k]
  <2>1. q \in Seq(Addrs) /\ Listed(heap, Free(heap, C))
    <3>1. Free(heap, C) \ {} = Free(heap, C)
      OBVIOUS
    <3> QED BY <1>2, <3>1 DEF Good, GoodBut, IsHeap
  <2>2. /\ \A a \in Addrs : Linked(q, a) => mm_size2ndx(Size(heap, a)) = k
        /\ Distinct(q) /\ Ascends(heap, q)
    BY <2>1 DEF Listed
  <2> HIDE DEF q
  <2>3. ASSUME NEW i \in DOMAIN q PROVE mm_size2ndx(Size(heap, q[i])) = k
    <3>1. q[i] \in Addrs
      BY <2>1
    <3>2. Linked(q, q[i])
      BY DEF Linked
    <3> QED BY <2>2, <3>1, <3>2
  <2>4. ASSUME NEW i \in DOMAIN q, NEW j \in 1 .. i - 1
        PROVE  q[j] # q[i] /\ Size(heap, q[j]) <= Size(heap, q[i])
    <3>1. DOMAIN q = 1 .. Len(q) /\ Len(q) \in Nat
      BY <2>1, LenProperties
    <3>2. i \in 1 .. Len(q) /\ j \in 1 .. Len(q) /\ j < i /\ j # i
      BY <3>1
    <3>3. j \in DOMAIN q
      BY <3>1, <3>2
    <3>4. q[j] # q[i]
      BY <2>2, <3>2, <3>3, Zenon DEF Distinct
    <3>5. Size(heap, q[j]) <= Size(heap, q[i])
      BY <2>2, <3>2, <3>3, Zenon DEF Ascends
    <3> QED BY <3>4, <3>5
  <2> QED BY <2>3, <2>4 DEF q
<1> HIDE DEF Walk, FreeNodes
<1> QED BY <1>4, <1>5, <1>6, <1>7, <1>8 DEF ListsMatchChunks, Classes

(* Through splits, merges, moves and delayed frees, the headers and the    *)
(* free lists agree (mm_addfreechunk, mm_shrinkchunk, realloc, memalign).  *)
THEOREM ListsMatchChunksAlways ==
  ASSUME Separate
  PROVE  HSpec => []ListsMatchChunks
<1>1. HInv => ListsMatchChunks
  BY ListsMatch
<1>2. HSpec => []HInv
  BY HeapInvariant
<1> QED BY <1>1, <1>2, PTL

(* mm_internal.h is right about programs that do not both align and resize: *)
(* the free nodes are headers of chunks with room for the links.           *)
THEOREM NoSmallChunkUnlessMixed ==
  ASSUME Separate
  PROVE  HSpec => []NoSmallChunk
<1>1. HInv => NoSmallChunk
  <2> SUFFICES ASSUME HInv
               PROVE  \A a \in FreeNodes : IsHeader(heap, a) /\ Size(heap, a) >= FreeNode
    BY DEF NoSmallChunk
  <2>1. PICK C : Kept(heap, C, InHand(ptr, call), delayed, program)
    BY DEF HInv
  <2>2. Good(heap, C) /\ Chain(heap, C)
    BY <2>1 DEF Kept, Good, GoodBut
  <2>3. FreeNodes = Free(heap, C)
    BY <2>2, ListedNodes
  <2> HIDE DEF FreeNodes
  <2> QED BY <2>2, <2>3 DEF Free, Chain
<1>2. HSpec => []HInv
  BY HeapInvariant
<1> QED BY <1>1, <1>2, PTL

(* The invariant implies FindsBest.                                        *)
LEMMA SearchIsBest ==
  ASSUME HInv
  PROVE  FindsBest
<1>1. PICK C : Kept(heap, C, InHand(ptr, call), delayed, program)
  BY DEF HInv
<1>2. Good(heap, C) /\ Chain(heap, C) /\ Walk = C
  <2>1. Good(heap, C) /\ Chain(heap, C)
    BY <1>1 DEF Kept, Good, GoodBut
  <2> QED BY <2>1, WalkIsChain DEF Walk
<1>3. ASSUME NEW n \in FreeNode .. HeapWords
      PROVE  LET size == AlignUp(n)
                 fits == {a \in Walk : ~Allocated(heap, a) /\ Size(heap, a) >= size}
                 node == SearchNodes(heap, size)
             IN  IF fits = {} THEN node = NULL
                 ELSE node \in fits /\ \A a \in fits : Size(heap, node) <= Size(heap, a)
  <2> DEFINE size == AlignUp(n)
             fits == {a \in Walk : ~Allocated(heap, a) /\ Size(heap, a) >= size}
             fit  == {a \in Free(heap, C) : Size(heap, a) >= size}
             node == SearchNodes(heap, size)
  <2>1. size \in Nat
    BY HeapAssumption DEF AlignUp, FreeNode
  <2>2. fits = fit
    BY <1>2 DEF Free
  <2> HIDE DEF size
  <2>3. IF fit = {} THEN node = NULL
        ELSE node \in fit /\ \A a \in fit : Size(heap, node) <= Size(heap, a)
    BY <1>2, <2>1, SearchFinds
  <2> HIDE DEF fits, fit, node
  <2>4. IF fits = {} THEN node = NULL
        ELSE node \in fits /\ \A a \in fits : Size(heap, node) <= Size(heap, a)
    BY <2>2, <2>3
  <2> QED BY <2>4 DEF fits, node, size
<1> HIDE DEF Walk
<1> QED BY <1>3, Zenon DEF FindsBest

(* In every heap that calls of any tasks lead to, malloc finds a smallest  *)
(* free chunk that is large enough, and one if there is one.               *)
THEOREM FindsBestAlways ==
  ASSUME Separate
  PROVE  HSpec => []FindsBest
<1>1. HInv => FindsBest
  BY SearchIsBest
<1>2. HSpec => []HInv
  BY HeapInvariant
<1> QED BY <1>1, <1>2, PTL

(* As many values as arguments, if no two have the same.                   *)
LEMMA ImageCounts ==
  ASSUME NEW S, IsFiniteSet(S), NEW f, \A x, y \in S : f[x] = f[y] => x = y
  PROVE  LET T == {f[x] : x \in S} IN IsFiniteSet(T) /\ Cardinality(T) = Cardinality(S)
<1> DEFINE T == {f[x] : x \in S}
           g == [x \in S |-> f[x]]
<1>1. g \in Injection(S, T) /\ g \in Surjection(S, T)
  BY DEF Injection, Surjection, IsInjective
<1>2. ExistsBijection(S, T)
  BY <1>1 DEF ExistsBijection, Bijection
<1> HIDE DEF T
<1>3. IsFiniteSet(T) /\ Cardinality(T) = Cardinality(S)
  BY <1>2, FS_Bijection
<1> QED BY <1>3 DEF T

(* The invariant implies EveryChunkHeldOnce.                               *)
LEMMA HeldOnce ==
  ASSUME HInv
  PROVE  EveryChunkHeldOnce
<1> DEFINE f == InHand(ptr, call)
           P == {ptr[t] : t \in Havers}
           mems == [t \in Dealers |-> call[t].mem]
           M == {mems[t] : t \in Dealers}
           Q == ToSet(delayed)
           places == 1 .. Len(delayed)
           after == [a \in Addrs |-> a + 1]
<1>1. PICK C : Kept(heap, C, f, delayed, program)
  BY DEF HInv
<1> DEFINE K == Alloc(heap, C)
           K1 == {after[a] : a \in K}
<1>2. Good(heap, C) /\ Chain(heap, C) /\ Walk = C
  <2>1. Good(heap, C) /\ Chain(heap, C)
    BY <1>1 DEF Kept, Good, GoodBut
  <2> QED BY <2>1, WalkIsChain DEF Walk
<1>3. /\ ptr \in [Users -> Nat] /\ call \in [Tasks -> Calls]
      /\ delayed \in Seq(Nat \ {0}) /\ Owned(K, f, delayed)
  BY <1>1 DEF HInv, Kept
<1>4. K = {x \in Walk \ {0, Top} : Allocated(heap, x)}
  BY <1>2 DEF Alloc
<1>5. K \subseteq Addrs /\ Addrs \subseteq Nat /\ IsFiniteSet(Addrs)
  <2>1. 0 \in Int /\ Top \in Int
    BY HeapAssumption DEF Top
  <2>2. IsFiniteSet(Addrs) /\ Addrs \subseteq Nat
    BY <2>1, FS_Interval DEF Addrs
  <2> QED BY <1>2, <2>2 DEF Alloc, Chain
<1>6. IsFiniteSet(K) /\ K1 = {a + 1 : a \in K}
  BY <1>5, FS_Subset
<1>7. /\ \A t \in Users : <<t, "ptr">> \in Hands /\ f[<<t, "ptr">>] = ptr[t]
      /\ \A t \in Tasks : <<t, "mem">> \in Hands /\ f[<<t, "mem">>] = call[t].mem
      /\ \A s \in Hands : f[s] \in Nat
      /\ \A s \in Hands : \/ \E t \in Users : s = <<t, "ptr">>
                          \/ \E t \in Tasks : s = <<t, "mem">>
  <2>1. \A s \in Hands : \/ \E t \in Users : s = <<t, "ptr">>
                         \/ \E t \in Tasks : s = <<t, "mem">>
    BY DEF Hands
  <2> HIDE DEF f
  <2>2. /\ f \in [Hands -> Nat]
        /\ \A t \in Users : <<t, "ptr">> \in Hands /\ f[<<t, "ptr">>] = ptr[t]
        /\ \A t \in Tasks : <<t, "mem">> \in Hands /\ f[<<t, "mem">>] = call[t].mem
    BY <1>3, HandsAre DEF f
  <2> QED BY <2>1, <2>2
<1> HIDE DEF f
<1>7a. \A s, r \in Hands : f[s] = f[r] /\ f[s] # NULL => s = r
  BY <1>3 DEF Owned
<1>7b. \A t \in Tasks : call[t].mem \in Nat
  BY <1>7
<1>8. Havers = {t \in Users : ptr[t] # NULL} /\ Dealers = {t \in Tasks : call[t].mem # NULL}
  BY <1>3 DEF Havers, Dealers
<1>9. IsFiniteSet(Users) /\ IsFiniteSet(Tasks) /\ IsFiniteSet(Havers) /\ IsFiniteSet(Dealers)
  <2>1. IsFiniteSet(Users) /\ IsFiniteSet({Collector})
    BY HeapAssumption, FS_Singleton
  <2>2. IsFiniteSet(Tasks)
    BY <2>1, FS_Union DEF Tasks
  <2>3. Havers \in SUBSET Users /\ Dealers \in SUBSET Tasks
    BY <1>8
  <2> QED BY <2>1, <2>2, <2>3, FS_Subset
<1>10. IsFiniteSet(P) /\ Cardinality(P) = Cardinality(Havers)
  <2>1. ASSUME NEW t \in Havers, NEW u \in Havers, ptr[t] = ptr[u] PROVE t = u
    <3>1. <<t, "ptr">> = <<u, "ptr">>
      <4>1. ptr[t] # NULL /\ t \in Users /\ u \in Users
        BY <1>8
      <4>2. /\ <<t, "ptr">> \in Hands /\ f[<<t, "ptr">>] = ptr[t]
            /\ <<u, "ptr">> \in Hands /\ f[<<u, "ptr">>] = ptr[u]
        BY <4>1, <1>7
      <4> QED BY <2>1, <4>1, <4>2, <1>7a
    <3> QED BY <3>1
  <2> QED BY <1>9, <2>1, ImageCounts
<1>11. IsFiniteSet(M) /\ Cardinality(M) = Cardinality(Dealers)
  <2>1. ASSUME NEW t \in Dealers, NEW u \in Dealers, mems[t] = mems[u] PROVE t = u
    <3>1. call[t].mem = call[u].mem /\ call[t].mem # NULL /\ t \in Tasks /\ u \in Tasks
      BY <1>8, <2>1
    <3>2. <<t, "mem">> = <<u, "mem">>
      <4>1. /\ <<t, "mem">> \in Hands /\ f[<<t, "mem">>] = call[t].mem
            /\ <<u, "mem">> \in Hands /\ f[<<u, "mem">>] = call[u].mem
        BY <3>1, <1>7
      <4> QED BY <3>1, <4>1, <1>7a
    <3> QED BY <3>2
  <2> HIDE DEF mems
  <2> QED BY <1>9, <2>1, ImageCounts
<1>12. IsFiniteSet(Q) /\ Cardinality(Q) = Len(delayed)
  <2>1. Len(delayed) \in Nat /\ DOMAIN delayed = places
    BY <1>3, LenProperties
  <2>2. IsFiniteSet(places) /\ Cardinality(places) = Len(delayed)
    <3>1. 1 \in Int /\ Len(delayed) \in Int
      BY <2>1
    <3>2. IsFiniteSet(places) /\ Cardinality(places) = IF 1 > Len(delayed) THEN 0 ELSE Len(delayed) - 1 + 1
      BY <3>1, FS_Interval
    <3> QED BY <2>1, <3>2
  <2>3. \A i, j \in places : delayed[i] = delayed[j] => i = j
    BY <1>3, <2>1 DEF Owned, Distinct
  <2>4. Q = {delayed[i] : i \in places}
    BY <2>1 DEF ToSet
  <2> HIDE DEF places, Q
  <2> QED BY <2>2, <2>3, <2>4, ImageCounts
<1>13. Cardinality(K1) = Cardinality(K)
  <2>1. ASSUME NEW x \in K, NEW y \in K, after[x] = after[y] PROVE x = y
    <3>1. after[x] = x + 1 /\ after[y] = y + 1 /\ x \in Nat /\ y \in Nat
      BY <1>5
    <3> QED BY <2>1, <3>1
  <2> HIDE DEF after, K
  <2> QED BY <1>6, <2>1, ImageCounts
<1>14. \A b \in Nat : Linked(delayed, b) <=> b \in Q
  BY DEF Linked, ToSet
<1>15. Q \subseteq Nat \ {0}
  BY <1>3 DEF ToSet
<1>16. M = {call[t].mem : t \in Dealers}
  OBVIOUS
<1> HIDE DEF Q, mems, after, P, M, K, K1
<1>17. \A b \in P : b \in Nat /\ \E t \in Users : b = ptr[t] /\ ptr[t] # NULL
  BY <1>3, <1>8 DEF P
<1>18. \A b \in M : b \in Nat /\ \E t \in Tasks : b = call[t].mem /\ call[t].mem # NULL
  BY <1>7b, <1>8, <1>16
<1>19. P \cap M = {} /\ (P \cup M) \cap Q = {}
  <2>1. ASSUME NEW b \in P PROVE b \notin M /\ b \notin Q
    <3>1. PICK t \in Users : b = ptr[t] /\ ptr[t] # NULL
      BY <1>17
    <3>2. b \notin Q
      BY <1>3, <1>7, <1>14, <1>17, <3>1 DEF Owned
    <3>3. ASSUME NEW u \in Tasks, b = call[u].mem PROVE FALSE
      <4>1. <<t, "ptr">> = <<u, "mem">>
        <5>1. /\ <<t, "ptr">> \in Hands /\ f[<<t, "ptr">>] = ptr[t]
              /\ <<u, "mem">> \in Hands /\ f[<<u, "mem">>] = call[u].mem
          BY <1>7
        <5> QED BY <3>1, <3>3, <5>1, <1>7a
      <4> QED BY <4>1
    <3> QED BY <3>2, <3>3, <1>18
  <2>2. ASSUME NEW b \in M PROVE b \notin Q
    <3>1. PICK t \in Tasks : b = call[t].mem /\ call[t].mem # NULL
      BY <1>18
    <3> QED BY <1>3, <1>7, <1>14, <1>18, <3>1 DEF Owned
  <2> QED BY <2>1, <2>2
<1>20. \A b : b \in K1 <=> b - 1 \in K /\ b \in Nat
  <2>1. \A b : b \in K1 <=> \E a \in K : b = a + 1
    BY <1>6
  <2> QED BY <2>1, <1>5
<1>21. (P \cup M) \cup Q = K1
  <2>1. ASSUME NEW b \in P PROVE b \in K1
    <3>1. PICK t \in Users : b = ptr[t] /\ ptr[t] # NULL
      BY <1>17
    <3>2. b - 1 \in K
      BY <1>3, <1>7, <3>1 DEF Owned
    <3> QED BY <1>17, <1>20, <3>2
  <2>2. ASSUME NEW b \in M PROVE b \in K1
    <3>1. PICK t \in Tasks : b = call[t].mem /\ call[t].mem # NULL
      BY <1>18
    <3>2. b - 1 \in K
      BY <1>3, <1>7, <3>1 DEF Owned
    <3> QED BY <1>18, <1>20, <3>2
  <2>3. ASSUME NEW b \in Q PROVE b \in K1
    <3>1. b \in Nat /\ Linked(delayed, b)
      BY <1>14, <1>15
    <3>2. b - 1 \in K
      BY <1>3, <3>1 DEF Owned
    <3> QED BY <1>20, <3>1, <3>2
  <2>4. ASSUME NEW b \in K1 PROVE b \in (P \cup M) \cup Q
    <3>1. PICK a \in K : b = a + 1 /\ a \in Nat
      BY <1>5, <1>6
    <3>2. CASE Linked(delayed, a + 1)
      BY <1>14, <3>1, <3>2
    <3>3. CASE \E s \in Hands : f[s] = a + 1
      <4>1. PICK s \in Hands : f[s] = a + 1
        BY <3>3
      <4>2. CASE \E t \in Users : s = <<t, "ptr">>
        <5>1. PICK t \in Users : s = <<t, "ptr">>
          BY <4>2
        <5>2. ptr[t] = b /\ b # NULL
          BY <1>7, <3>1, <4>1, <5>1 DEF NULL
        <5> QED BY <1>8, <5>2 DEF P
      <4>3. CASE \E t \in Tasks : s = <<t, "mem">>
        <5>1. PICK t \in Tasks : s = <<t, "mem">>
          BY <4>3
        <5>2. call[t].mem = b /\ b # NULL
          BY <1>7, <3>1, <4>1, <5>1 DEF NULL
        <5> QED BY <1>8, <1>16, <5>2
      <4> QED BY <1>7, <4>2, <4>3
    <3> QED BY <1>3, <3>1, <3>2, <3>3 DEF Owned
  <2> QED BY <2>1, <2>2, <2>3, <2>4
<1>22. Cardinality(Havers) + Cardinality(Dealers) + Len(delayed) = Cardinality(K)
  <2>1. IsFiniteSet(P \cup M) /\ Cardinality(P \cup M) = Cardinality(P) + Cardinality(M)
    <3>1. /\ IsFiniteSet(P \cup M)
          /\ Cardinality(P \cup M) = Cardinality(P) + Cardinality(M) - Cardinality({})
      BY <1>10, <1>11, <1>19, FS_Union
    <3>2. Cardinality({}) = 0 /\ Cardinality(P) \in Nat /\ Cardinality(M) \in Nat
      BY <1>10, <1>11, FS_EmptySet, FS_CardinalityType
    <3> QED BY <3>1, <3>2
  <2>2. Cardinality(K1) = Cardinality(P \cup M) + Cardinality(Q)
    <3>1. Cardinality((P \cup M) \cup Q) = Cardinality(P \cup M) + Cardinality(Q) - Cardinality({})
      BY <1>12, <1>19, <2>1, FS_Union
    <3>2. Cardinality({}) = 0 /\ Cardinality(P \cup M) \in Nat /\ Cardinality(Q) \in Nat
      BY <1>12, <2>1, FS_EmptySet, FS_CardinalityType
    <3>3. Cardinality((P \cup M) \cup Q) = Cardinality(K1)
      BY <1>21, Zenon
    <3> HIDE DEF K1, Q
    <3> QED BY <3>1, <3>2, <3>3, SMT
  <2> QED BY <2>1, <2>2, <1>10, <1>11, <1>12, <1>13
<1>23. {ptr[t] : t \in Havers} \cup {call[t].mem : t \in Dealers} \cup ToSet(delayed) = {a + 1 : a \in K}
  BY <1>6, <1>16, <1>21 DEF P, Q
<1>24. \A t \in Havers : len[t] < Size(heap, ptr[t] - 1)
  BY <1>8 DEF HInv, UserSound
<1> QED BY <1>4, <1>22, <1>23, <1>24 DEF EveryChunkHeldOnce

(* Every allocated chunk is in one hand, a user's, a call's or the queue   *)
(* of delayed frees (sched_free, sched_garbagecollection): none is leaked, *)
(* freed twice or handed out twice, and its owner's words fit.             *)
THEOREM EveryChunkHeldOnceAlways ==
  ASSUME Separate
  PROVE  HSpec => []EveryChunkHeldOnce
<1>1. HInv => EveryChunkHeldOnce
  BY HeldOnce
<1>2. HSpec => []HInv
  BY HeapInvariant
<1> QED BY <1>1, <1>2, PTL

(* The blocks as Allocator sees them.                                      *)
Blocks == [t \in Users |-> [i \in 1 .. len[t] |-> heap.mem[ptr[t] + i - 1]]]

AsWritten(b, l) == b = [t \in Users |-> A!Written(t, l[t])]

(* What the users wrote, and so much that only the lengths tell.           *)
LEMMA BlocksAre == HInv => AsWritten(Blocks, len)
<1> SUFFICES ASSUME HInv PROVE AsWritten(Blocks, len)
  OBVIOUS
<1>1. ASSUME NEW t \in Users
      PROVE  [i \in 1 .. len[t] |-> heap.mem[ptr[t] + i - 1]] = A!Written(t, len[t])
  <2>1. len[t] \in Nat /\ UserSound(heap, t, ptr[t], len[t], call[t], program)
    BY DEF HInv
  <2>2. ptr[t] = NULL => len[t] = 0
    BY <2>1 DEF UserSound
  <2>3. CASE ptr[t] = NULL
    <3>1. 1 .. len[t] = {}
      BY <2>1, <2>2, <2>3
    <3> QED BY <3>1 DEF A!Written
  <2>4. CASE ptr[t] # NULL
    <3>1. \A i \in 1 .. len[t] : heap.mem[ptr[t] + i - 1] = Data(t, i)
      BY <2>1, <2>4 DEF UserSound, Holds
    <3> QED BY <3>1 DEF A!Written, A!Data, Data
  <2> QED BY <2>3, <2>4
<1> QED BY <1>1 DEF Blocks, AsWritten

(* A user's block and the words of another length.                         *)
LEMMA WrittenIs ==
  ASSUME NEW t, NEW n \in Nat
  PROVE  /\ Len(A!Written(t, n)) = n
         /\ A!Written(t, n) = <<>> <=> n = 0
         /\ A!Written(t, 0) = <<>>
         /\ \A i \in 1 .. n : A!Written(t, n)[i] = A!Data(t, i)
<1>1. ASSUME NEW k \in Nat
      PROVE  A!Written(t, k) \in Seq({A!Data(t, i) : i \in 1 .. k}) /\ Len(A!Written(t, k)) = k
  BY DEF A!Written
<1>2. ASSUME NEW k \in Nat PROVE A!Written(t, k) = <<>> <=> k = 0
  BY <1>1, EmptySeq
<1>3. \A i \in 1 .. n : A!Written(t, n)[i] = A!Data(t, i)
  BY DEF A!Written
<1> QED BY <1>1, <1>2, <1>3

(* What the steps do to the lengths is what Allocator's do to the blocks.  *)
Resized(b, c, t, l, n) ==
  /\ b[t] = <<>> <=> l = 0
  /\ c = [b EXCEPT ![t] = A!Written(t, n)]
  /\ n = 0 => c = [b EXCEPT ![t] = <<>>]
  /\ c = [b EXCEPT ![t] = [i \in 1 .. n |-> IF i <= Len(@) THEN @[i] ELSE A!Data(t, i)]]

(* A change of one length is a change of one block.                        *)
LEMMA LengthsMap ==
  ASSUME NEW b, NEW c, NEW l \in [Users -> Nat], NEW m \in [Users -> Nat],
         AsWritten(b, l), AsWritten(c, m), NEW t \in Users, NEW n \in Nat, m = [l EXCEPT ![t] = n]
  PROVE  Resized(b, c, t, l[t], n)
<1>0. b = [u \in Users |-> A!Written(u, l[u])] /\ c = [u \in Users |-> A!Written(u, m[u])]
  BY DEF AsWritten
<1>1. b[t] = A!Written(t, l[t]) /\ l[t] \in Nat
  BY <1>0
<1>2. c = [b EXCEPT ![t] = A!Written(t, n)]
  <2>1. \A u \in Users : c[u] = IF u = t THEN A!Written(t, n) ELSE b[u]
    BY <1>0
  <2> QED BY <2>1, <1>0
<1>3. Len(b[t]) = l[t] /\ (b[t] = <<>> <=> l[t] = 0) /\ \A i \in 1 .. l[t] : b[t][i] = A!Data(t, i)
  BY <1>1, WrittenIs
<1>4. [i \in 1 .. n |-> IF i <= Len(b[t]) THEN b[t][i] ELSE A!Data(t, i)] = A!Written(t, n)
  <2>1. \A i \in 1 .. n : (IF i <= Len(b[t]) THEN b[t][i] ELSE A!Data(t, i)) = A!Data(t, i)
    BY <1>1, <1>3
  <2> QED BY <2>1 DEF A!Written
<1>5. n = 0 => A!Written(t, n) = <<>>
  BY WrittenIs
<1> QED BY <1>2, <1>3, <1>4, <1>5 DEF Resized

(* At first no user has a block, on either level.                          *)
LEMMA BlocksInit ==
  ASSUME HInit
  PROVE  A!AInit
<1>1. HInv /\ len = [t \in Users |-> 0]
  BY InitHolds DEF HInit
<1>2. Blocks = [t \in Users |-> A!Written(t, len[t])]
  BY <1>1, BlocksAre DEF AsWritten
<1>3. \A t \in Users : A!Written(t, len[t]) = <<>>
  BY <1>1, WrittenIs
<1> QED BY <1>2, <1>3 DEF A!AInit, Blocks

(* A step of the heap is one of Allocator's or changes no block.           *)
LEMMA BlocksStep ==
  ASSUME HInv, HInv', [HNext]_hvars
  PROVE  A!ANext \/ Blocks' = Blocks
<1>1. /\ AsWritten(Blocks, len) /\ len \in [Users -> Nat]
      /\ AsWritten(Blocks', len') /\ len' \in [Users -> Nat]
  <2>1. AsWritten(Blocks, len)'
    BY BlocksAre, PTL
  <2>2. AsWritten(Blocks', len')
    BY <2>1 DEF AsWritten
  <2> QED BY <2>2, BlocksAre DEF HInv
<1>2. Requests \subseteq Nat
  BY HeapAssumption
<1>3. \A t \in Users : len[t] = 0 <=> ptr[t] = NULL
  BY DEF HInv, UserSound
<1>4. CASE len' = len
  BY <1>1, <1>4 DEF AsWritten
<1> HIDE DEF Blocks
<1>4a. ASSUME NEW t \in Users, NEW n \in Nat, len' = [len EXCEPT ![t] = n]
       PROVE  Resized(Blocks, Blocks', t, len[t], n)
  BY <1>1, <1>4a, LengthsMap
<1>5. ASSUME NEW t \in Users, NEW n \in Requests, len' = [len EXCEPT ![t] = n], ptr[t] = NULL
      PROVE  A!ANext
  <2>1. Blocks[t] = <<>> /\ Blocks' = [Blocks EXCEPT ![t] = A!Written(t, n)]
    BY <1>2, <1>3, <1>4a, <1>5 DEF Resized
  <2>2. A!AAlloc(t, n)
    BY <2>1 DEF A!AAlloc, Blocks
  <2> QED BY <2>2 DEF A!ANext
<1>6. ASSUME NEW t \in Users, NEW n \in Requests, len' = [len EXCEPT ![t] = n], ptr[t] # NULL
      PROVE  A!ANext
  <2>1. /\ Blocks[t] # <<>>
        /\ Blocks' = [Blocks EXCEPT ![t] = [i \in 1 .. n |-> IF i <= Len(@) THEN @[i] ELSE A!Data(t, i)]]
    BY <1>2, <1>3, <1>4a, <1>6 DEF Resized
  <2>2. A!AResize(t, n)
    BY <2>1 DEF A!AResize, Blocks
  <2> QED BY <2>2 DEF A!ANext
<1>7. ASSUME NEW t \in Users, len' = [len EXCEPT ![t] = 0]
      PROVE  A!ANext
  <2>1. Blocks' = [Blocks EXCEPT ![t] = <<>>]
    BY <1>4a, <1>7 DEF Resized
  <2>2. A!AFree(t)
    BY <2>1 DEF A!AFree, Blocks
  <2> QED BY <2>2 DEF A!ANext
<1>8. ASSUME NEW t \in Users, NEW n \in Requests, malloc(t, n) PROVE A!ANext
  BY <1>5, <1>8 DEF malloc, Returns
<1>9. ASSUME NEW t \in Users, NEW n \in Requests, realloc(t, n) PROVE A!ANext \/ Blocks' = Blocks
  <2>1. ptr[t] # NULL /\ (len' = [len EXCEPT ![t] = n] \/ len' = len)
    BY <1>9 DEF realloc, Returns
  <2> QED BY <2>1, <1>4, <1>6
<1>10. ASSUME NEW t \in Users, NEW n \in Requests, NEW al \in Alignments, memalign(t, al, n)
       PROVE  A!ANext \/ Blocks' = Blocks
  <2>1. len' = len
    BY <1>10 DEF memalign
  <2> QED BY <2>1, <1>4
<1>11. ASSUME NEW t \in Users, free(t) PROVE A!ANext
  BY <1>7, <1>11 DEF free
<1>12. ASSUME NEW t \in Users, realloc_malloc(t) PROVE A!ANext \/ Blocks' = Blocks
  <2>1. len' = len
    BY <1>12 DEF realloc_malloc
  <2> QED BY <2>1, <1>4
<1>13. ASSUME NEW t \in Users, realloc_free(t) PROVE A!ANext
  <2>1. call[t].at = "realloc_free" /\ len' = [len EXCEPT ![t] = call[t].n]
    BY <1>13 DEF realloc_free, Returns
  <2>2. call[t].n \in Requests /\ ptr[t] # NULL
    BY <2>1 DEF HInv, UserSound, Out
  <2> QED BY <2>1, <2>2, <1>6
<1>14. ASSUME NEW t \in Users, memalign_aligns(t) PROVE A!ANext
  <2>1. call[t].at = "align" /\ len' = [len EXCEPT ![t] = call[t].n]
    BY <1>14 DEF memalign_aligns, Returns
  <2>2. call[t].n \in Requests /\ ptr[t] = NULL
    BY <2>1 DEF HInv, UserSound, Out
  <2> QED BY <2>1, <2>2, <1>5
<1>15. ASSUME NEW t \in Users, sched_free(t) PROVE A!ANext
  BY <1>7, <1>15 DEF sched_free
<1>16. CASE sched_garbagecollection
  BY <1>4, <1>16 DEF sched_garbagecollection
<1>17. CASE kfree
  BY <1>4, <1>17 DEF kfree
<1>18. CASE UNCHANGED hvars
  BY <1>4, <1>18 DEF hvars
<1> QED BY <1>8, <1>9, <1>10, <1>11, <1>12, <1>13, <1>14, <1>15, <1>16, <1>17, <1>18 DEF HNext

(* The heap implements Allocator: whatever calls the tasks make, and       *)
(* wherever splits, merges and moves put it, each block holds what its     *)
(* owner wrote into it (malloc, realloc, memalign, free, sched_free).      *)
THEOREM BlocksKeptAlways ==
  ASSUME Separate
  PROVE  HSpec => BlocksKept
<1>1. HInit => A!AInit
  BY BlocksInit
<1>2. HInv /\ HInv' /\ [HNext]_hvars => [A!ANext]_Blocks
  BY BlocksStep
<1>3. HSpec => []HInv
  BY HeapInvariant
<1> QED BY <1>1, <1>2, <1>3, PTL DEF HSpec, BlocksKept, A!ASpec, Blocks

=============================================================================
