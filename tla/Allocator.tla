----------------------------- MODULE Allocator ------------------------------
(***************************************************************************)
(* What the heap promises its users (the headers of mm_malloc.c,           *)
(* mm_realloc.c and mm_free.c): a block is its owner's until the owner     *)
(* frees it, it holds what the owner wrote into it whatever calls others   *)
(* make meanwhile, realloc keeps the words both sizes have, and a call     *)
(* that fails changes nothing.  Where blocks lie is not visible here.      *)
(***************************************************************************)
EXTENDS Integers, Sequences

CONSTANTS Owners, Sizes

VARIABLE block          \* the words of each owner's block; <<>> is no block

(* What owner o writes into word i of its block.                           *)
Data(o, i) == <<"data", o, i>>

Written(o, n) == [i \in 1 .. n |-> Data(o, i)]

AInit == block = [o \in Owners |-> <<>>]

AAlloc(o, n) ==
  /\ block[o] = <<>>
  /\ block' = [block EXCEPT ![o] = Written(o, n)]

AFree(o) ==
  /\ block' = [block EXCEPT ![o] = <<>>]

(* The owner fills what the larger block has more.                         *)
AResize(o, n) ==
  /\ block[o] # <<>>
  /\ block' = [block EXCEPT ![o] =
                 [i \in 1 .. n |-> IF i <= Len(@) THEN @[i] ELSE Data(o, i)]]

ANext ==
  \E o \in Owners : AFree(o) \/ \E n \in Sizes : AAlloc(o, n) \/ AResize(o, n)

ASpec == AInit /\ [][ANext]_block
=============================================================================
