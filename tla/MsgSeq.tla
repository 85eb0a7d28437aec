------------------------------- MODULE MsgSeq --------------------------------
(***************************************************************************)
(* The numbering of requests: every process of the system stamps each      *)
(* request it generates (RpcClientManger.generateRpcRequest,               *)
(* DiscoverClient.generateDiscoverMsg) with FuncUtil.GenerateMsgSeq of its *)
(* type, its id and the milliseconds since ServerInfo.init ran in it.  The *)
(* clock is the wall clock, which may be set back.                         *)
(***************************************************************************)
EXTENDS FuncUtil, Sequences

CONSTANTS
  Servers,    \* the processes, as records [type, id]
  MaxClock,   \* bound on the wall clock
  MaxIssued   \* bound on the requests generated

VARIABLES
  now,          \* Instant.now(), in milliseconds
  startInstant, \* ServerInfo.startInstant of each process
  issued        \* the requests generated, in order

vars == <<now, startInstant, issued>>

\* The ids and types fit their fields and tell the processes apart.
ServerAssumption ==
  /\ \A sv \in Servers : /\ Bits(sv.id) \subseteq 0 .. (TypeShift - IdShift - 1)
                         /\ Bits(sv.type) \subseteq 0 .. (IntBits - TypeShift - 1)
  /\ \A sv, tv \in Servers :
       Bits(sv.id) = Bits(tv.id) /\ Bits(sv.type) = Bits(tv.type) => sv = tv

Init == /\ now = 0
        /\ startInstant = [sv \in Servers |-> 0]
        /\ issued = <<>>

Tick == /\ now < MaxClock
        /\ now' = now + 1
        /\ UNCHANGED <<startInstant, issued>>

\* The host's clock is corrected backwards; that it goes back to before a process
\* started, where the uptime would be negative, is left out.
SetBack == /\ \E t \in 0 .. now - 1 : now' = t
           /\ \A sv \in Servers : startInstant[sv] <= now'
           /\ UNCHANGED <<startInstant, issued>>

\* The process is started again: ServerInfo.init.
Restart(sv) == /\ startInstant' = [startInstant EXCEPT ![sv] = now]
               /\ UNCHANGED <<now, issued>>

getMilliSecsFrom(instant) == now - instant

Generate(sv) ==
  /\ Len(issued) < MaxIssued
  /\ LET ms == getMilliSecsFrom(startInstant[sv])
     IN  issued' = Append(issued, [server |-> sv, ms |-> ms,
                                   seq |-> GenerateMsgSeq(sv.type, sv.id, ms)])
  /\ UNCHANGED <<now, startInstant>>

Next == Tick \/ SetBack \/ \E sv \in Servers : Restart(sv) \/ Generate(sv)

Spec == Init /\ [][Next]_vars
-------------------------------------------------------------------------------
\* Requests of different processes never carry the same msgSeq, as long as the
\* server ids and types fit the fields the layout gives them.
NoCrossServerCollision ==
  \A i, j \in DOMAIN issued :
    issued[i].seq = issued[j].seq => issued[i].server = issued[j].server

\* Within a process two requests share a msgSeq exactly when they were generated
\* in the same millisecond of its uptime, up to the wrap of the 24-bit counter.
CollisionOnlySameTick ==
  \A i, j \in DOMAIN issued :
    issued[i].server = issued[j].server =>
      (issued[i].seq = issued[j].seq <=>
         issued[i].ms % 2^TimeBits = issued[j].ms % 2^TimeBits)
==============================================================================
