------------------------------ MODULE Streams -------------------------------
(***************************************************************************)
(* What a TCP connection promises its two programs: each gets the bytes    *)
(* that the other offers, every one once and in order, until one of them   *)
(* gives the connection up.  No segments, sequence numbers or timers.      *)
(* The bytes that an end offers are numbered from 1.                       *)
(***************************************************************************)
EXTENDS Naturals, Sequences

CONSTANT Peer

Ends == DOMAIN Peer

VARIABLES
  offered,    \* bytes that the program of this end has passed to send
  delivered,  \* bytes that recv has returned to the program of this end
  held,       \* bytes that this end has taken but not yet delivered
  lost        \* this end has thrown bytes away and takes no more

vars == <<offered, delivered, held, lost>>

Following(n, k) == [i \in 1..k |-> n + i]

Init ==
  /\ offered   = [e \in Ends |-> 0]
  /\ delivered = [e \in Ends |-> <<>>]
  /\ held      = [e \in Ends |-> <<>>]
  /\ lost      = [e \in Ends |-> FALSE]

Offer(e) ==
  /\ offered'[e] > offered[e]
  /\ offered' = [offered EXCEPT ![e] = offered'[e]]
  /\ UNCHANGED <<delivered, held, lost>>

(* The next bytes of the other end, and no others.                         *)
Take(e) ==
  LET n == Len(delivered[e]) + Len(held[e])
  IN  /\ ~lost[e]
      /\ \E k \in 1..(offered[Peer[e]] - n) :
           held' = [held EXCEPT ![e] = @ \o Following(n, k)]
      /\ UNCHANGED <<offered, delivered, lost>>

Deliver(e) ==
  /\ \E k \in 1..Len(held[e]) :
       /\ delivered' = [delivered EXCEPT ![e] = @ \o SubSeq(held[e], 1, k)]
       /\ held'      = [held EXCEPT ![e] = SubSeq(@, k + 1, Len(@))]
  /\ UNCHANGED <<offered, lost>>

Discard(e) ==
  /\ lost' = [lost EXCEPT ![e] = TRUE]
  /\ held' = [held EXCEPT ![e] = <<>>]
  /\ UNCHANGED <<offered, delivered>>

Next == \E e \in Ends : Offer(e) \/ Take(e) \/ Deliver(e) \/ Discard(e)

Spec == Init /\ [][Next]_vars
=============================================================================
