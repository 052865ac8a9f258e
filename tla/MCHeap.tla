------------------------------- MODULE MCHeap -------------------------------
(* Small heaps: users that are alike, a few sizes, one larger alignment.   *)
EXTENDS Heap

CONSTANTS a, b, c

Three == {a, b, c}

UserSymmetry == Permutations(Users)

(* Programs that align blocks and programs that resize them.               *)
OneOrOther == {{"malloc", "free", "sched_free", "memalign"}, {"malloc", "free", "realloc"}}

(* A program that does both.                                               *)
Both == {{"malloc", "free", "realloc", "memalign"}}
=============================================================================
