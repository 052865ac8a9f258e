----------------------------- MODULE MCWatchdog -----------------------------
(* Small instances of Watchdog.                                            *)
EXTENDS Watchdog

CONSTANTS w1, w2, w3

Three == {w1, w2, w3}

(* An invalid delay, none, and delays that tie with others on their way.   *)
ManyDelays == {-1, 0, 1, 2, 3}
=============================================================================
