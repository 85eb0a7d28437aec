------------------------------ MODULE MCRpcCall ------------------------------
(***************************************************************************)
(* Instances of RpcCall: two calls that expect a response and one push, all *)
(* numbered by GenerateMsgSeq of the millisecond they were generated in,    *)
(* over one channel or two.                                                 *)
(***************************************************************************)
EXTENDS RpcCall, TLC

CONSTANTS c1, c2, p1, chA, chB

\* The layout of FuncUtil at a reduced width: 2 bits of time.
Numbering == INSTANCE FuncUtil WITH
  TimeBits <- 2, IdShift <- 2, TypeShift <- 4, IntBits <- 6
MsgSeqAt(ms) == Numbering!GenerateMsgSeq(2, 1, ms)

\* Every request in a millisecond of its own, and two calls that share one.
DistinctTicks == (c1 :> 0) @@ (c2 :> 1) @@ (p1 :> 2)
SharedTick    == (c1 :> 1) @@ (c2 :> 1) @@ (p1 :> 2)
DistinctSeqs == [c \in Calls |-> MsgSeqAt(DistinctTicks[c])]
SharedSeq    == [c \in Calls |-> MsgSeqAt(SharedTick[c])]

OneChannel  == [c \in Calls |-> chA]
TwoChannels == [c \in Calls |-> IF c = c2 THEN chB ELSE chA]
==============================================================================
