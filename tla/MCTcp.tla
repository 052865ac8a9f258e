------------------------------- MODULE MCTcp --------------------------------
(* Small instances of Tcp.                                                 *)
EXTENDS Tcp

NearWrap  == [client |-> {0}, server |-> {15}]
Lengths   == [client |-> {3}, server |-> {1}]
Reads     == [client |-> {1}, server |-> {1, 2}]
OneAndTwo == [client |-> 1, server |-> 2]
Bytes     == [client |-> 3, server |-> 1]

(* The client speaks first; the server answers.                            *)
ClientFirst ==
  [client |-> {"connect", "send", "recv", "close"},
   server |-> {"accept", "recv", "reply", "close"}]

(* The server greets.                                                      *)
ServerFirst ==
  [client |-> {"connect", "recv"},
   server |-> {"accept", "send"}]
=============================================================================
