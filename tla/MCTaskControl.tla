--------------------------- MODULE MCTaskControl ----------------------------
(* Small instances of TaskControl.                                         *)
EXTENDS TaskControl

CONSTANTS a, b, c

Three == {Idle, a, b, c}

(* One task deletes and restarts the others; one locks, yields and sets     *)
(* priorities, an invalid one included; one blocks and exits.              *)
CoreWorkload ==
  [t \in Tasks |-> CASE t = Idle -> {"create"}
                     [] t = a    -> {"delete", "restart", "restart_failing", "block"}
                     [] t = b    -> {"lock", "yield", "setparam", "block"}
                     [] OTHER    -> {"block", "exit"}]
=============================================================================
