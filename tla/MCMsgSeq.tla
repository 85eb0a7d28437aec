------------------------------ MODULE MCMsgSeq -------------------------------
(* An int of 7 bits: 2 of time, 3 of server id, 2 of server type. *)
EXTENDS MsgSeq

DISCOVER == 1
ACCESS   == 2
MCServers == {[type |-> ACCESS, id |-> 1], [type |-> ACCESS, id |-> 4],
              [type |-> DISCOVER, id |-> 2]}
ASSUME ServerAssumption
==============================================================================
