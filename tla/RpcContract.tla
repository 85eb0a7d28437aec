----------------------------- MODULE RpcContract -----------------------------
(***************************************************************************)
(* What RpcClientHandler.write promises its caller, whatever threads, maps *)
(* and timers implement it: a call that was made comes back exactly once,  *)
(* and the response it brings back, if any, is the one the server produced *)
(* for that very request.                                                  *)
(***************************************************************************)
CONSTANTS
  Calls,      \* the invocations of write
  NoCall      \* the null response

VARIABLES
  phase,      \* where each call stands: idle, pending or done
  answer,     \* the response a finished call returned, named by its request
  served      \* the requests the server has answered

cvars == <<phase, answer, served>>

Init ==
  /\ phase  = [c \in Calls |-> "idle"]
  /\ answer = [c \in Calls |-> NoCall]
  /\ served = {}

Invoke(c) ==
  /\ phase[c] = "idle"
  /\ phase' = [phase EXCEPT ![c] = "pending"]
  /\ UNCHANGED <<answer, served>>

\* A request that expects no response is over as soon as it is written.
Tell(c) ==
  /\ phase[c] = "idle"
  /\ phase' = [phase EXCEPT ![c] = "done"]
  /\ UNCHANGED <<answer, served>>

\* The server answers a request it was sent, and answers it once.
Serve(c) ==
  /\ phase[c] # "idle"
  /\ c \notin served
  /\ served' = served \cup {c}
  /\ UNCHANGED <<phase, answer>>

\* The call returns its own answer, or null.
Finish(c) ==
  /\ phase[c] = "pending"
  /\ phase' = [phase EXCEPT ![c] = "done"]
  /\ \/ UNCHANGED answer
     \/ c \in served /\ answer' = [answer EXCEPT ![c] = c]
  /\ UNCHANGED served

Next == \E c \in Calls : Invoke(c) \/ Tell(c) \/ Serve(c) \/ Finish(c)

Safety == Init /\ [][Next]_cvars

\* The 100 ms bound of write: a pending call does not stay pending.
Spec == Safety /\ \A c \in Calls : WF_cvars(Finish(c))
==============================================================================
