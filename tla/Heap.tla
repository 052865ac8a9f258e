-------------------------------- MODULE Heap --------------------------------
(***************************************************************************)
(* The memory manager (mm/mm_*.c), with the delayed deallocations of       *)
(* sched_free and sched_garbagecollection.                                 *)
(*                                                                         *)
(* Memory is an array of words of SIZEOF_MM_ALLOCNODE (8) bytes; a free    *)
(* node takes two words and a granule is two words.  A chunk begins with   *)
(* its header, a free chunk has its list links in the second word, and an  *)
(* allocated one the words its owner writes.  Words nobody relies on are   *)
(* Junk.  A task holds at most one block.                                  *)
(***************************************************************************)
EXTENDS Integers, FiniteSets, Sequences, SequencesExt, FiniteSetsExt, TaskList

CONSTANTS Users,        \* tasks that allocate and free
          Collector,    \* the worker thread that runs sched_garbagecollection
          HeapWords,    \* heapsize - 2 * SIZEOF_MM_ALLOCNODE, in words
          MM_NNODES,    \* the number of lists of free nodes
          Requests,     \* the sizes that are asked for, in words
          Alignments,   \* the alignments given to memalign, in words
          MaxDelayed,   \* bound: blocks in the queue of delayed deallocations
          Programs      \* sets of calls: the users make those of one of them

ASSUME HeapAssumption ==
  /\ HeapWords \in Nat \ {0} /\ HeapWords % 2 = 0
  /\ MM_NNODES \in Nat \ {0} /\ MaxDelayed \in Nat
  /\ Requests \subseteq Nat \ {0} /\ Alignments \subseteq Nat
  /\ IsFiniteSet(Users) /\ Collector \notin Users

VARIABLES heap,         \* the words and the free lists: [mem, nodelist]
          ptr, len,     \* each user's block: address and words asked for
          call,         \* the call each task is in
          delayed,      \* g_delayeddeallocations
          program       \* the calls the users make

hvars == <<heap, ptr, len, call, delayed, program>>

NULL == 0               \* no block is at address 0
FreeNode == 2           \* SIZEOF_MM_FREENODE and MM_MIN_CHUNK, in words
Top == HeapWords + 1    \* g_heapend

Junk  == <<"junk">>
Links == <<"links">>
Data(t, i) == <<"data", t, i>>
Header(size, preceding, alloc) == <<"header", size, preceding, alloc>>

(* Memory with these words from address a on.                              *)
Put(a, words, mem) ==
  [w \in DOMAIN mem |-> IF w \in a .. a + Len(words) - 1 THEN words[w - a + 1] ELSE mem[w]]

Junks(n) == [i \in 1 .. n |-> Junk]

(* The words of memory from address a on.                                  *)
Get(a, n, mem) == [i \in 1 .. n |-> mem[a + i - 1]]

(* The fields of a header; a word that is none reads as anything.          *)
IsHeader(h, a)  == h.mem[a][1] = "header"
Size(h, a)      == IF IsHeader(h, a) THEN h.mem[a][2] ELSE 0
Preceding(h, a) == IF IsHeader(h, a) THEN h.mem[a][3] ELSE 0
Allocated(h, a) == IsHeader(h, a) /\ h.mem[a][4]

SetHeader(h, a, size, preceding, alloc) ==
  [h EXCEPT !.mem[a] = Header(size, preceding, alloc)]

(* next->preceding = size | (next->preceding & MM_ALLOC_BIT)               *)
SetPreceding(h, a, size) == SetHeader(h, a, Size(h, a), size, Allocated(h, a))

SetAlloc(h, a, alloc) == SetHeader(h, a, Size(h, a), Preceding(h, a), alloc)

(* MM_ALIGN_UP                                                             *)
AlignUp(n) == n + (n % FreeNode)

-----------------------------------------------------------------------------
(* The free lists.  g_nodelist[ndx] heads a part of one linked list; the   *)
(* parts are kept apart here.                                              *)

(* The index is the logarithm of the size in granules, as far as it goes.  *)
mm_size2ndx(size) ==
  Max({0} \cup {k \in 0 .. MM_NNODES - 1 : 2 ^ k <= size \div FreeNode})

(* A variant: in front of its list.                                        *)
mm_addfreechunk_First(h, a) ==
  [h EXCEPT !.nodelist[mm_size2ndx(Size(h, a))] = <<a>> \o @,
            !.mem = Put(a + 1, <<Links>>, Put(a + 2, Junks(Size(h, a) - 2), @))]

(* In front of the first chunk of its list that is not smaller.  What the  *)
(* rest of a free chunk holds no longer matters.                           *)
mm_addfreechunk(h, a) ==
  LET ndx  == mm_size2ndx(Size(h, a))
      q    == h.nodelist[ndx]
      next == Min({Len(q) + 1} \cup {i \in DOMAIN q : Size(h, q[i]) >= Size(h, a)})
  IN  [h EXCEPT !.nodelist[ndx] = InsertAt(q, next, a),
                !.mem = Put(a + 1, <<Links>>, Put(a + 2, Junks(Size(h, a) - 2), @))]

(* node->blink->flink = node->flink and the reverse.                       *)
Unlink(h, a) ==
  [h EXCEPT !.nodelist = [k \in DOMAIN @ |-> IF Linked(@[k], a) THEN dq_rem(@[k], a) ELSE @[k]]]

(* The search of malloc: from the list of the size on, the first chunk     *)
(* that is large enough.                                                   *)
SearchNodes(h, size) ==
  LET fits(k) == {i \in DOMAIN h.nodelist[k] : Size(h, h.nodelist[k][i]) >= size}
      lists   == {k \in mm_size2ndx(size) .. MM_NNODES - 1 : fits(k) # {}}
  IN  IF lists = {} THEN NULL ELSE h.nodelist[Min(lists)][Min(fits(Min(lists)))]

(* mm_addregion: guard nodes at both ends, one free node between them.     *)
mm_initialize ==
  LET words == [w \in 0 .. Top |-> Junk]
      empty == [mem |-> words, nodelist |-> [k \in 0 .. MM_NNODES - 1 |-> <<>>]]
      start == SetHeader(empty, 0, 1, 0, TRUE)
      node  == SetHeader(start, 1, HeapWords, 1, FALSE)
      end   == SetHeader(node, Top, 1, HeapWords, TRUE)
  IN  mm_addfreechunk(end, 1)

-----------------------------------------------------------------------------
(* The sections that are run with the mutex held, from a heap to a heap.   *)

(* malloc of n words: the chunk that is found, split if a free node is     *)
(* left over; NULL if none is found.                                       *)
malloc_section(h, n) ==
  LET size      == AlignUp(n + 1)
      node      == SearchNodes(h, size)
      remaining == Size(h, node) - size
      h1        == Unlink(h, node)
      next      == node + Size(h, node)
      split     == SetPreceding(
                     SetHeader(SetHeader(h1, node, size, Preceding(h, node), FALSE),
                               node + size, remaining, size, FALSE),
                     next, remaining)
      h2        == IF remaining >= FreeNode THEN mm_addfreechunk(split, node + size) ELSE h1
  IN  IF node = NULL THEN [heap |-> h, ret |-> NULL]
      ELSE [heap |-> SetAlloc(h2, node, TRUE), ret |-> node + 1]

(* A variant: the chunk beyond the merged ones keeps its preceding size.   *)
free_section_StalePreceding(h, mem) ==
  LET node == mem - 1
      next == node + Size(h, node)
      h1   == SetAlloc(h, node, FALSE)
      h2   == IF Allocated(h, next) THEN h1
              ELSE SetHeader(Unlink(h1, next), node, Size(h, node) + Size(h, next),
                             Preceding(h, node), FALSE)
  IN  mm_addfreechunk(h2, node)

(* free: merge with the next chunk, then with the previous one.            *)
free_section(h, mem) ==
  LET node   == mem - 1
      size   == Size(h, node)
      next   == node + size
      beyond == next + Size(h, next)
      h1     == SetAlloc(h, node, FALSE)
      h2     == IF Allocated(h1, next) THEN h1
                ELSE SetPreceding(SetHeader(Unlink(h1, next), node, size + Size(h, next),
                                            Preceding(h, node), FALSE),
                                  beyond, size + Size(h, next))
      after  == IF Allocated(h1, next) THEN next ELSE beyond
      prev   == node - Preceding(h2, node)
      total  == Size(h2, prev) + Size(h2, node)
      h3     == IF Allocated(h2, prev) THEN h2
                ELSE SetPreceding(SetHeader(Unlink(h2, prev), prev, total,
                                            Preceding(h2, prev), FALSE),
                                  after, total)
  IN  mm_addfreechunk(h3, IF Allocated(h2, prev) THEN node ELSE prev)

(* mm_shrinkchunk: the tail goes to the next chunk if that is free, or     *)
(* becomes a chunk if there is room for a free node.                       *)
mm_shrinkchunk(h, node, size) ==
  LET next   == node + Size(h, node)
      beyond == next + Size(h, next)
      cut(x, tail, after) ==
        mm_addfreechunk(
          SetPreceding(SetHeader(SetHeader(x, node, size, Preceding(h, node), Allocated(h, node)),
                                 node + size, tail, size, FALSE),
                       after, tail),
          node + size)
  IN  IF ~Allocated(h, next)
      THEN cut(Unlink(h, next), Size(h, next) + Size(h, node) - size, beyond)
      ELSE IF Size(h, node) >= size + FreeNode THEN cut(h, Size(h, node) - size, next)
      ELSE h

-----------------------------------------------------------------------------
(* realloc, to a chunk of the given size.                                  *)

(* The free size of a neighbour.                                           *)
FreeSize(h, a) == IF Allocated(h, a) THEN 0 ELSE Size(h, a)

(* How much to take from the previous and from the next chunk.             *)
Shares(needed, prevsize, nextsize) ==
  IF prevsize > 0 /\ (nextsize >= prevsize \/ nextsize = 0)
  THEN [prev |-> Min({needed, prevsize}), next |-> Max({0, needed - prevsize})]
  ELSE [prev |-> Max({0, needed - nextsize}), next |-> Min({needed, nextsize})]

(* Into the previous chunk, which goes back to the free list with what is  *)
(* left of it.                                                             *)
GrowDown(h, node, take) ==
  LET prev    == node - Preceding(h, node)
      newnode == node - take
      next    == node + Size(h, node)
      size    == Size(h, node) + take
      part    == Size(h, prev) - take
      h1      == Unlink(h, prev)
  IN  IF take < Size(h, prev)
      THEN mm_addfreechunk(
             SetPreceding(SetHeader(SetHeader(h1, prev, part, Preceding(h, prev), FALSE),
                                    newnode, size, part, TRUE), next, size), prev)
      ELSE SetPreceding(SetHeader(h1, prev, size, Preceding(h, prev), TRUE), next, size)

(* A variant: the user's words are not moved.                              *)
ExtendDown_NoCopy(h, node, take) == GrowDown(h, node, take)

(* Then memcpy moves the words down.  It copies as many words as the new   *)
(* chunk has, so it also reads what follows the old one.                   *)
ExtendDown(h, node, take) ==
  LET h1    == GrowDown(h, node, take)
      moved == Get(node + 1, Size(h, node) - 1, h1.mem)
  IN  [h1 EXCEPT !.mem = Put(node - take + 1,
                             moved \o Junks(Size(h1, node - take) - 1 - Len(moved)), @)]

(* Into the next chunk; what is left of it becomes a free chunk.           *)
ExtendUp(h, node, take) ==
  LET next     == node + Size(h, node)
      nextsize == Size(h, next)
      size     == Size(h, node) + take
      beyond   == next + nextsize
      h1       == SetHeader(Unlink(h, next), node, size, Preceding(h, node), Allocated(h, node))
  IN  IF take < nextsize
      THEN mm_addfreechunk(
             SetPreceding(SetHeader(h1, node + size, nextsize - take, size, FALSE),
                          beyond, nextsize - take),
             node + size)
      ELSE SetPreceding(h1, beyond, size)

(* The first section: shrink, or extend, or give up (NULL).                *)
realloc_section(h, mem, size) ==
  LET node     == mem - 1
      oldsize  == Size(h, node)
      nextsize == FreeSize(h, node + oldsize)
      prevsize == FreeSize(h, node - Preceding(h, node))
      take     == Shares(size - oldsize, prevsize, nextsize)
      h1       == IF take.prev > 0 THEN ExtendDown(h, node, take.prev) ELSE h
      node1    == node - take.prev
      h2       == IF take.next > 0 THEN ExtendUp(h1, node1, take.next) ELSE h1
  IN  IF size <= oldsize
      THEN [heap |-> IF size < oldsize THEN mm_shrinkchunk(h, node, size) ELSE h, ret |-> mem]
      ELSE IF nextsize + prevsize + oldsize >= size
           THEN [heap |-> h2, ret |-> node1 + 1]
           ELSE [heap |-> h, ret |-> NULL]

(* memcpy of the fallback: from one block to another.                      *)
CopyWords(h, from, to, n) == [h EXCEPT !.mem = Put(to, Get(from, n, @), @)]

(* The second section of memalign: free the part before the aligned        *)
(* address, the second such address if that part is too small for a free   *)
(* node; then the end.                                                     *)
memalign_section(h, raw, alignment, n) ==
  LET node    == raw - 1
      next    == node + Size(h, node)
      first   == raw + ((-raw) % alignment)
      aligned == IF first # raw /\ first - raw < FreeNode THEN first + alignment ELSE first
      newnode == aligned - 1
      lead    == aligned - raw
      h1      == IF aligned = raw THEN h
                 ELSE mm_addfreechunk(
                        SetPreceding(
                          SetHeader(SetHeader(h, newnode, next - newnode, lead, TRUE),
                                    node, lead, Preceding(h, node), FALSE),
                          next, next - newnode),
                        node)
      size    == AlignUp(n)
      allocsize == IF aligned = raw THEN size + 2 * alignment ELSE next - newnode - 1
  IN  [heap |-> IF allocsize > size THEN mm_shrinkchunk(h1, newnode, size + 1) ELSE h1,
       ret  |-> aligned]

-----------------------------------------------------------------------------
(* The calls.  Each section runs with the mutex of mm_sem.c held, so it is *)
(* one step; between the sections of a call other tasks make theirs.       *)

Out == [at |-> "user", n |-> 0, align |-> 0, mem |-> NULL]

Makes(t, what) == call[t] = Out /\ what \in program

(* A call returns a block, whose owner fills what is new in it.            *)
Returns(t, h, mem, n, kept) ==
  /\ heap' = [h EXCEPT !.mem = Put(mem + kept, [i \in 1 .. n - kept |-> Data(t, i + kept)], @)]
  /\ ptr' = [ptr EXCEPT ![t] = mem]
  /\ len' = [len EXCEPT ![t] = n]
  /\ call' = [call EXCEPT ![t] = Out]

(* malloc and zalloc.                                                      *)
malloc(t, n) ==
  LET r == malloc_section(heap, n)
  IN  /\ ptr[t] = NULL /\ Makes(t, "malloc")
      /\ r.ret # NULL
      /\ Returns(t, r.heap, r.ret, n, 0)
      /\ UNCHANGED <<delayed, program>>

free(t) ==
  /\ ptr[t] # NULL /\ Makes(t, "free")
  /\ heap' = free_section(heap, ptr[t])
  /\ ptr' = [ptr EXCEPT ![t] = NULL]
  /\ len' = [len EXCEPT ![t] = 0]
  /\ UNCHANGED <<call, delayed, program>>

(* realloc of a block the user has, to some size: in place or nearly so,   *)
(* or in three more steps.  (realloc of NULL is malloc, to no size free.)  *)
realloc(t, n) ==
  LET r == realloc_section(heap, ptr[t], AlignUp(n + 1))
  IN  /\ ptr[t] # NULL /\ Makes(t, "realloc")
      /\ \/ /\ r.ret # NULL
            /\ Returns(t, r.heap, r.ret, n, Min({len[t], n}))
         \/ /\ r.ret = NULL
            /\ call' = [call EXCEPT ![t] = [@ EXCEPT !.at = "realloc_malloc", !.n = n]]
            /\ UNCHANGED <<heap, ptr, len>>
      /\ UNCHANGED <<delayed, program>>

(* malloc, with the size that already has the header in it, and memcpy of  *)
(* as much as the old chunk's size.                                        *)
realloc_malloc(t) ==
  LET r == malloc_section(heap, AlignUp(call[t].n + 1))
  IN  /\ call[t].at = "realloc_malloc"
      /\ \/ /\ r.ret # NULL
            /\ heap' = CopyWords(r.heap, ptr[t], r.ret, Size(heap, ptr[t] - 1))
            /\ call' = [call EXCEPT ![t] = [@ EXCEPT !.at = "realloc_free", !.mem = r.ret]]
         \/ /\ r.ret = NULL
            /\ call' = [call EXCEPT ![t] = Out]
            /\ UNCHANGED heap
      /\ UNCHANGED <<ptr, len, delayed, program>>

(* A variant: the old block is not freed.                                  *)
realloc_free_Leaks(t) ==
  /\ call[t].at = "realloc_free"
  /\ Returns(t, heap, call[t].mem, call[t].n, len[t])
  /\ UNCHANGED <<delayed, program>>

realloc_free(t) ==
  /\ call[t].at = "realloc_free"
  /\ Returns(t, free_section(heap, ptr[t]), call[t].mem, call[t].n, len[t])
  /\ UNCHANGED <<delayed, program>>

(* memalign, to more than a granule: malloc of twice the alignment more,   *)
(* then the second section.                                                *)
memalign(t, alignment, n) ==
  LET r == malloc_section(heap, AlignUp(n) + 2 * alignment)
  IN  /\ ptr[t] = NULL /\ Makes(t, "memalign")
      /\ alignment > FreeNode
      /\ r.ret # NULL
      /\ heap' = r.heap
      /\ call' = [call EXCEPT ![t] = [at |-> "align", n |-> n, align |-> alignment, mem |-> r.ret]]
      /\ UNCHANGED <<ptr, len, delayed, program>>

memalign_aligns(t) ==
  LET r == memalign_section(heap, call[t].mem, call[t].align, call[t].n)
  IN  /\ call[t].at = "align"
      /\ Returns(t, r.heap, r.ret, call[t].n, 0)
      /\ UNCHANGED <<delayed, program>>

-----------------------------------------------------------------------------
(* sched_free in an interrupt handler, or while another task holds the     *)
(* mutex: the block is put aside.  (Otherwise sched_free is free.)         *)
sched_free(t) ==
  /\ ptr[t] # NULL /\ Makes(t, "sched_free")
  /\ Len(delayed) < MaxDelayed
  /\ delayed' = Append(delayed, ptr[t])
  /\ heap' = [heap EXCEPT !.mem = Put(ptr[t], Junks(len[t]), @)]
  /\ ptr' = [ptr EXCEPT ![t] = NULL]
  /\ len' = [len EXCEPT ![t] = 0]
  /\ UNCHANGED <<call, program>>

(* sched_garbagecollection: take one from the queue, then free it.         *)
sched_garbagecollection ==
  /\ call[Collector] = Out
  /\ delayed # <<>>
  /\ call' = [call EXCEPT ![Collector] = [Out EXCEPT !.at = "kfree", !.mem = Head(delayed)]]
  /\ delayed' = Tail(delayed)
  /\ UNCHANGED <<heap, ptr, len, program>>

kfree ==
  /\ call[Collector].at = "kfree"
  /\ heap' = free_section(heap, call[Collector].mem)
  /\ call' = [call EXCEPT ![Collector] = Out]
  /\ UNCHANGED <<ptr, len, delayed, program>>

-----------------------------------------------------------------------------
HInit ==
  /\ heap = mm_initialize
  /\ ptr = [t \in Users |-> NULL]
  /\ len = [t \in Users |-> 0]
  /\ call = [t \in Users \cup {Collector} |-> Out]
  /\ delayed = <<>>
  /\ program \in Programs

HNext ==
  \/ \E t \in Users : \/ \E n \in Requests : \/ malloc(t, n) \/ realloc(t, n)
                                             \/ \E al \in Alignments : memalign(t, al, n)
                      \/ free(t) \/ realloc_malloc(t) \/ realloc_free(t)
                      \/ memalign_aligns(t) \/ sched_free(t)
  \/ sched_garbagecollection \/ kfree

HSpec == HInit /\ [][HNext]_hvars

-----------------------------------------------------------------------------
(* The chunks, found by walking from one header to the next as mallinfo    *)
(* does; the walk ends at the guard node.                                  *)
WalkOf(h) ==
  LET at[k \in 0 .. Top] ==
        IF k = 0 THEN 0
        ELSE LET node == at[k-1] IN IF node >= Top THEN node ELSE node + Size(h, node)
  IN  {at[k] : k \in 0 .. Top}

Walk == WalkOf(heap)

FreeNodes == UNION {ToSet(heap.nodelist[k]) : k \in 0 .. MM_NNODES - 1}

(* The headers and the lists agree: the walk reaches g_heapend, every      *)
(* chunk has the size of the one before it, the free chunks are those of   *)
(* the lists, once each, in the list of their size, in order, with room    *)
(* for the links; allocations, frees, splits and moves in between.         *)
ListsMatchChunks ==
  /\ Top \in Walk /\ Walk \subseteq 0 .. Top
  /\ \A a \in Walk \ {Top} : Preceding(heap, a + Size(heap, a)) = Size(heap, a)
  /\ FreeNodes = {a \in Walk : ~Allocated(heap, a)}
  /\ \A a \in FreeNodes : Size(heap, a) >= FreeNode
  /\ \A k \in 0 .. MM_NNODES - 1 :
       LET q == heap.nodelist[k]
       IN  \A i \in DOMAIN q :
             /\ mm_size2ndx(Size(heap, q[i])) = k
             /\ \A j \in 1 .. i - 1 : q[j] # q[i] /\ Size(heap, q[j]) <= Size(heap, q[i])

(* The users that have a block, and the calls that have one to deal with.  *)
Havers  == {t \in Users : ptr[t] # NULL}
Dealers == {t \in DOMAIN call : call[t].mem # NULL}

(* Every allocated chunk is in one hand, a user's, a call's in progress or *)
(* the queue of delayed deallocations, and everything in hand is a chunk:  *)
(* no call leaks a block, frees one twice or hands one out twice, and a    *)
(* user's words fit in its chunk.                                          *)
EveryChunkHeldOnce ==
  /\ {ptr[t] : t \in Havers} \cup {call[t].mem : t \in Dealers} \cup ToSet(delayed)
       = {a + 1 : a \in {x \in Walk \ {0, Top} : Allocated(heap, x)}}
  /\ Cardinality(Havers) + Cardinality(Dealers) + Len(delayed)
       = Cardinality({x \in Walk \ {0, Top} : Allocated(heap, x)})
  /\ \A t \in Havers : len[t] < Size(heap, ptr[t] - 1)

(* In every heap that can arise, the search of malloc finds a smallest     *)
(* chunk that satisfies the request and fails only if there is none.       *)
FindsBest ==
  \A size \in {AlignUp(n) : n \in FreeNode .. HeapWords} :
    LET fits == {a \in Walk : ~Allocated(heap, a) /\ Size(heap, a) >= size}
        node == SearchNodes(heap, size)
    IN  IF fits = {} THEN node = NULL
        ELSE node \in fits /\ \A a \in fits : Size(heap, node) <= Size(heap, a)

A == INSTANCE Allocator WITH
       Owners <- Users, Sizes <- Requests,
       block  <- [t \in Users |-> [i \in 1 .. len[t] |-> heap.mem[ptr[t] + i - 1]]]

(* Each user's block holds what the user wrote, through every split, merge *)
(* and move that the calls of all tasks make: the heap, read at the        *)
(* pointers the users were given, implements Allocator.                    *)
BlocksKept == A!ASpec

-----------------------------------------------------------------------------
(* What the documentation says and the code does not keep.                 *)

(* mm_internal.h, of MM_MIN_CHUNK, the smallest chunk: "It must be at      *)
(* least a large as sizeof(struct mm_freenode_s)".                         *)
NoSmallChunk ==
  \A a \in FreeNodes : IsHeader(heap, a) /\ Size(heap, a) >= FreeNode
=============================================================================
