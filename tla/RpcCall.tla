------------------------------- MODULE RpcCall -------------------------------
(***************************************************************************)
(* The client side of an RPC: RpcClientHandler.write, run by the threads   *)
(* that call it and by the fixed pool `service`, against channelRead0, run *)
(* by the event loop of each channel.  They share threadObjectMap,         *)
(* responseMap and, per request, the monitor of the request object.  A     *)
(* call is named by its request object; a response by the request it       *)
(* answers, whose msgSeq RpcServerHandler copies into it.                  *)
(***************************************************************************)
EXTENDS Naturals, Sequences, FiniteSets

CONSTANTS
  Calls,           \* the invocations of write(request, client)
  Pushes,          \* those whose request has needResponse = false
  SeqOf,           \* the msgSeq of each request
  Channels,        \* the netty channels, each with its own event loop
  ChannelOf,       \* the channel of the client each call was given
  PoolSize,        \* threads of the pool `service`
  SpuriousWakeups, \* may Object.wait return although nobody notified
  NoCall           \* null

Seqs  == {SeqOf[c] : c \in Calls}
Reading(pc, rsp, obj) == [pc |-> pc, rsp |-> rsp, obj |-> obj]
NoRead == Reading("idle", NoCall, NoCall)

ASSUME CallAssumption ==
  /\ Pushes \subseteq Calls
  /\ NoCall \notin Calls
  /\ ChannelOf \in [Calls -> Channels]
  /\ PoolSize \in Nat \ {0}
  /\ SpuriousWakeups \in BOOLEAN

VARIABLES
  caller,          \* where the calling thread stands inside write
  task,            \* where the Callable of the call stands
  future,          \* the value the Callable returned
  queue,           \* submitted tasks no pool thread has taken yet
  threadObjectMap, \* msgSeq -> the request object a pool thread waits on
  responseMap,     \* msgSeq -> the response that arrived for it
  io,              \* per channel, where its event loop stands in channelRead0
  up,              \* the channels that are open
  requests,        \* per channel, requests on their way to the server
  responses,       \* per channel, responses on their way back
  answered         \* requests the server has written a response for

threads == <<caller, task, future, queue>>
maps    == <<threadObjectMap, responseMap>>
wire    == <<up, requests, responses, answered>>
vars    == <<threads, maps, io, wire>>

\* Where an event loop can be inside channelRead0.
Reads ==
  {NoRead} \cup [pc: {"matched", "stored"}, rsp: Calls, obj: {NoCall}]
           \cup [pc: {"taken"}, rsp: Calls, obj: Calls]

\* A Callable that occupies a pool thread, and one that no longer will.
Running == {"sending", "sent", "absent", "registered", "parked", "woken"}
Over    == {"finished", "failed"}
Done    == {"returned", "timedOut", "threw"}

TypeOK ==
  /\ caller \in [Calls -> {"idle", "waiting", "expired", "notified"} \cup Done]
  /\ task \in [Calls -> {"none", "queued"} \cup Running \cup Over]
  /\ future \in [Calls -> Calls \cup {NoCall}]
  /\ queue \in Seq(Calls)
  /\ threadObjectMap \in [Seqs -> Calls \cup {NoCall}]
  /\ responseMap \in [Seqs -> Calls \cup {NoCall}]
  /\ io \in [Channels -> Reads]
  /\ up \in SUBSET Channels
  /\ requests \in [Channels -> Seq(Calls)]
  /\ responses \in [Channels -> Seq(Calls)]
  /\ answered \in SUBSET Calls

Init ==
  /\ caller = [c \in Calls |-> "idle"]
  /\ task = [c \in Calls |-> "none"]
  /\ future = [c \in Calls |-> NoCall]
  /\ queue = <<>>
  /\ threadObjectMap = [s \in Seqs |-> NoCall]
  /\ responseMap = [s \in Seqs |-> NoCall]
  /\ io = [ch \in Channels |-> NoRead]
  /\ up = Channels
  /\ requests = [ch \in Channels |-> <<>>]
  /\ responses = [ch \in Channels |-> <<>>]
  /\ answered = {}

Step(pcs, c, from, to) == pcs[c] = from /\ pcs' = [pcs EXCEPT ![c] = to]

\* Map.remove.  The mutation is Map.get in its place.
Keep(map, s)    == map
Without(map, s) == [map EXCEPT ![s] = NoCall]

\* Object.notify: wakes the pool thread if it is inside wait, else is lost.
Notify(c) ==
  task' = IF task[c] = "parked" THEN [task EXCEPT ![c] = "woken"] ELSE task

\* writeAndFlush on an open channel; on a closed one the write fails.
Write(c) ==
  requests' = IF ChannelOf[c] \in up
              THEN [requests EXCEPT ![ChannelOf[c]] = Append(@, c)]
              ELSE requests
-------------------------------------------------------------------------------
(* The calling thread. *)

\* needResponse = false: written, and null returned at once.
Push(c) ==
  /\ c \in Pushes
  /\ Step(caller, c, "idle", "returned")
  /\ Write(c)
  /\ UNCHANGED <<task, future, queue, maps, io, up, responses, answered>>

\* service.submit, then Future.get(100 ms).
Submit(c) ==
  /\ c \notin Pushes
  /\ Step(caller, c, "idle", "waiting")
  /\ task' = [task EXCEPT ![c] = "queued"]
  /\ queue' = Append(queue, c)
  /\ UNCHANGED <<future, maps, io, wire>>

\* get returns the Callable's value, or throws the exception that ended it.
Return(c) ==
  /\ task[c] \in Over
  /\ Step(caller, c, "waiting",
          IF task[c] = "finished" THEN "returned" ELSE "threw")
  /\ UNCHANGED <<task, future, queue, maps, io, wire>>

\* Mutation: the 100 ms are counted from the start of the task.
ExpireStarted(c) ==
  /\ task[c] \notin Over \cup {"queued"}
  /\ Step(caller, c, "waiting", "expired")
  /\ UNCHANGED <<task, future, queue, maps, io, wire>>

\* The 100 ms pass first: TimeoutException.  The task is not cancelled.
Expire(c) ==
  /\ task[c] \notin Over
  /\ Step(caller, c, "waiting", "expired")
  /\ UNCHANGED <<task, future, queue, maps, io, wire>>

\* Mutation: the caller gives up without notifying.
GiveUpSilently(c) ==
  /\ Step(caller, c, "expired", "notified")
  /\ UNCHANGED <<task, future, queue, maps, io, wire>>

NotifyExpired(c) ==
  /\ Step(caller, c, "expired", "notified")
  /\ Notify(c)
  /\ UNCHANGED <<future, queue, maps, io, wire>>

RemoveThreadObject(c) ==
  /\ Step(caller, c, "notified", "timedOut")
  /\ threadObjectMap' = Without(threadObjectMap, SeqOf[c])
  /\ UNCHANGED <<task, future, queue, responseMap, io, wire>>

CallerStep(c) == Return(c) \/ Expire(c) \/ NotifyExpired(c) \/ RemoveThreadObject(c)
-------------------------------------------------------------------------------
(* The pool thread that runs the Callable of c. *)

Busy == {c \in Calls : task[c] \in Running}

\* A free pool thread takes the oldest task.
StartTask(c) ==
  /\ queue # <<>> /\ c = Head(queue)
  /\ Cardinality(Busy) < PoolSize
  /\ Step(task, c, "queued", "sending")
  /\ queue' = Tail(queue)
  /\ UNCHANGED <<caller, future, maps, io, wire>>

\* channel.writeAndFlush(msg).sync(), which throws if the channel is closed.
SendRequest(c) ==
  /\ Step(task, c, "sending", IF ChannelOf[c] \in up THEN "sent" ELSE "failed")
  /\ Write(c)
  /\ UNCHANGED <<caller, future, queue, maps, io, up, responses, answered>>

\* Mutation: the test of putThreadObject is the wrong way round.
CheckInverted(c) ==
  /\ Step(task, c, "sent",
          IF threadObjectMap[SeqOf[c]] = NoCall THEN "registered" ELSE "absent")
  /\ UNCHANGED <<caller, future, queue, maps, io, wire>>

\* putThreadObject: containsKey and put are two accesses of the map, and the
\* thread goes on to wait even if it put nothing.
CheckThreadObject(c) ==
  /\ Step(task, c, "sent",
          IF threadObjectMap[SeqOf[c]] = NoCall THEN "absent" ELSE "registered")
  /\ UNCHANGED <<caller, future, queue, maps, io, wire>>

PutThreadObject(c) ==
  /\ Step(task, c, "absent", "registered")
  /\ threadObjectMap' = [threadObjectMap EXCEPT ![SeqOf[c]] = c]
  /\ UNCHANGED <<caller, future, queue, responseMap, io, wire>>

\* Mutation: wait with a timeout that passes at once.
WaitBriefly(c) ==
  /\ Step(task, c, "registered", "woken")
  /\ UNCHANGED <<caller, future, queue, maps, io, wire>>

\* synchronized (msg) { msg.wait(); } -- without a condition and a timeout.
Wait(c) ==
  /\ Step(task, c, "registered", "parked")
  /\ UNCHANGED <<caller, future, queue, maps, io, wire>>

WakeSpuriously(c) ==
  /\ SpuriousWakeups
  /\ Step(task, c, "parked", "woken")
  /\ UNCHANGED <<caller, future, queue, maps, io, wire>>

\* What getResponse finds; the mutation does not look at the msgSeq.
FoundAny(c) == IF \A s \in Seqs : responseMap[s] = NoCall THEN NoCall
               ELSE CHOOSE r \in Calls : \E s \in Seqs : responseMap[s] = r
Found(c) == responseMap[SeqOf[c]]

\* getResponse removes the response; its value completes the future.
GetResponse(c) ==
  /\ Step(task, c, "woken", "finished")
  /\ future' = [future EXCEPT ![c] = Found(c)]
  /\ responseMap' = Without(responseMap, SeqOf[c])
  /\ UNCHANGED <<caller, queue, threadObjectMap, io, wire>>

TaskStep(c) ==
  \/ StartTask(c) \/ SendRequest(c) \/ CheckThreadObject(c)
  \/ PutThreadObject(c) \/ Wait(c) \/ GetResponse(c)
-------------------------------------------------------------------------------
(* The event loop of channel ch, inside channelRead0. *)

\* The next response is kept only if its msgSeq is registered.
ReadResponse(ch) ==
  /\ io[ch] = NoRead /\ responses[ch] # <<>>
  /\ LET rsp == Head(responses[ch])
     IN  io' = IF threadObjectMap[SeqOf[rsp]] # NoCall
               THEN [io EXCEPT ![ch] = Reading("matched", rsp, NoCall)]
               ELSE io
  /\ responses' = [responses EXCEPT ![ch] = Tail(@)]
  /\ UNCHANGED <<threads, maps, up, requests, answered>>

StoreResponse(ch) ==
  /\ io[ch].pc = "matched"
  /\ responseMap' = [responseMap EXCEPT ![SeqOf[io[ch].rsp]] = io[ch].rsp]
  /\ io' = [io EXCEPT ![ch] = Reading("stored", @.rsp, NoCall)]
  /\ UNCHANGED <<threads, threadObjectMap, wire>>

\* If the entry is gone by now, remove returns null, synchronized (null)
\* throws and the response stays in responseMap.  The mutation goes on.
TakeUnchecked(rsp, obj) == Reading("taken", rsp, obj)
AfterTake(rsp, obj) == IF obj = NoCall THEN NoRead ELSE Reading("taken", rsp, obj)

TakeThreadObject(ch) ==
  /\ io[ch].pc = "stored"
  /\ LET s == SeqOf[io[ch].rsp]
     IN  /\ io' = [io EXCEPT ![ch] = AfterTake(@.rsp, threadObjectMap[s])]
         /\ threadObjectMap' = Without(threadObjectMap, s)
  /\ UNCHANGED <<threads, responseMap, wire>>

NotifyWaiter(ch) ==
  /\ io[ch].pc = "taken"
  /\ Notify(io[ch].obj)
  /\ io' = [io EXCEPT ![ch] = NoRead]
  /\ UNCHANGED <<caller, future, queue, maps, wire>>

IoStep(ch) ==
  ReadResponse(ch) \/ StoreResponse(ch) \/ TakeThreadObject(ch) \/ NotifyWaiter(ch)
-------------------------------------------------------------------------------
(* The other end of channel ch. *)

\* RpcServerHandler.channelRead0: the handler's result, unless it is null, goes
\* back with the msgSeq of the request; needResponse is not looked at.
ServeRequest(ch) ==
  /\ requests[ch] # <<>>
  /\ requests' = [requests EXCEPT ![ch] = Tail(@)]
  /\ \/ UNCHANGED <<responses, answered>>
     \/ /\ responses' = [responses EXCEPT ![ch] = Append(@, Head(requests[ch]))]
        /\ answered' = answered \cup {Head(requests[ch])}
  /\ UNCHANGED <<threads, maps, io, up>>

\* The connection breaks and what was in flight is lost.
CloseChannel(ch) ==
  /\ ch \in up
  /\ up' = up \ {ch}
  /\ requests' = [requests EXCEPT ![ch] = <<>>]
  /\ responses' = [responses EXCEPT ![ch] = <<>>]
  /\ UNCHANGED <<threads, maps, io, answered>>

Next ==
  \/ \E c \in Calls :
       Push(c) \/ Submit(c) \/ CallerStep(c) \/ TaskStep(c) \/ WakeSpuriously(c)
  \/ \E ch \in Channels : IoStep(ch) \/ ServeRequest(ch) \/ CloseChannel(ch)

Spec == Init /\ [][Next]_vars

\* Threads and event loops run and the 100 ms pass; nothing obliges a caller to
\* call, the server to answer or a connection to break.
FairSpec ==
  /\ Spec
  /\ \A c \in Calls : WF_vars(CallerStep(c)) /\ WF_vars(TaskStep(c))
  /\ \A ch \in Channels : WF_vars(IoStep(ch))
-------------------------------------------------------------------------------
(* Correctness. *)

\* A response that write returns is the answer to the request it was given:
\* rpcMsg.proto promises that a response is identified by its request's msgSeq.
AnswersOwnRequest ==
  \A c \in Calls : caller[c] = "returned" => future[c] \in {c, NoCall}

\* write returns null only for a push or after its timeout; a pool thread woken
\* in time finds the response, because channelRead0 stores it before notifying.
NoEmptyAnswer ==
  \A c \in Calls \ Pushes : caller[c] = "returned" => future[c] # NoCall

\* The calls whose msgSeq no other request carries.
Unshared == {c \in Calls : \A d \in Calls : SeqOf[d] = SeqOf[c] => d = c}

\* What stays in the maps under the msgSeq of one call, when every thread is at rest,
\* was left by a call that got no answer: because it timed out while channelRead0 was
\* delivering its response, or because its pool thread woke up without a notify.  An
\* entry that stays is that of a pool thread that waits for ever.
Quiet == /\ \A c \in Calls : caller[c] \in {"idle"} \cup Done
                             /\ task[c] \in {"none", "parked"} \cup Over
         /\ \A ch \in Channels : io[ch] = NoRead
Unanswered(c) == caller[c] = "timedOut" \/ (caller[c] = "returned" /\ future[c] = NoCall)
ResidueOnlyOfUnanswered ==
  Quiet => \A c \in Unshared :
    /\ responseMap[SeqOf[c]] # NoCall => Unanswered(c)
    /\ threadObjectMap[SeqOf[c]] # NoCall =>
         Unanswered(c) /\ (task[c] = "parked" \/ SpuriousWakeups)

\* channelRead0 never discards the response of a call whose pool thread has registered
\* for it and whose caller has not given up, if no other call has the same msgSeq.
Discards(ch, c) ==
  ReadResponse(ch) /\ Head(responses[ch]) = c /\ io'[ch] = NoRead
KeepsAwaitedResponse ==
  [][\A ch \in Channels, c \in Unshared :
       Discards(ch, c) =>
         ~(task[c] \in {"registered", "parked"} /\ caller[c] = "waiting")]_vars

\* write comes back whatever the pool, the network and the server do.
EveryCallReturns == \A c \in Calls : caller[c] = "waiting" ~> caller[c] \in Done

\* A pool thread that is waiting before its caller gives up is given back to
\* the pool: by the response or by the caller's notify.
ParkedThreadFreed ==
  \A c \in Calls : task[c] = "parked" /\ caller[c] = "waiting" ~> task[c] = "finished"

\* write implements what RpcContract promises.
Contract == INSTANCE RpcContract WITH
  phase  <- [c \in Calls |-> IF caller[c] = "idle" THEN "idle"
                             ELSE IF caller[c] \in Done THEN "done" ELSE "pending"],
  answer <- [c \in Calls |-> IF caller[c] = "returned" THEN future[c] ELSE NoCall],
  served <- answered
ContractSafety == Contract!Safety
ContractSpec   == Contract!Spec
-------------------------------------------------------------------------------
(* Why it holds: the inductive invariant of the theorems in RpcCallProofs. *)

\* No two requests carry the same msgSeq.
UniqueSeqs == Unshared = Calls

Written == {c \in Calls : /\ caller[c] # "idle"
                          /\ c \in Pushes \/ task[c] \notin {"none", "queued", "sending"}}

\* How far the two threads of a call can be apart.
ThreadsAgree ==
  /\ \A c \in Calls : caller[c] = "idle" => task[c] = "none"
  /\ \A c \in Pushes : caller[c] \in {"idle", "returned"} /\ task[c] = "none"
  /\ \A c \in Calls \ Pushes : caller[c] = "returned" => task[c] = "finished"
  /\ \A c \in Calls : future[c] # NoCall => task[c] = "finished"
  /\ \A c \in Calls : caller[c] = "threw" => task[c] = "failed"

\* A request is on the wire once, after it was written and before it is answered.
RequestsOnce ==
  /\ answered \subseteq Written
  /\ \A ch \in Channels : \A i \in 1 .. Len(requests[ch]) :
       /\ ChannelOf[requests[ch][i]] = ch
       /\ requests[ch][i] \in Written \ answered
       /\ \A j \in 1 .. Len(requests[ch]) : requests[ch][i] = requests[ch][j] => i = j

\* What a response is, wherever it is: the server's, and under its own msgSeq;
\* what the Callable of a call returns has the msgSeq of the call.
ResponsesKeyed ==
  /\ \A ch \in Channels : \A i \in 1 .. Len(responses[ch]) : responses[ch][i] \in answered
  /\ \A ch \in Channels : io[ch] # NoRead => io[ch].rsp \in answered
  /\ \A s \in Seqs : responseMap[s] # NoCall =>
       responseMap[s] \in answered /\ SeqOf[responseMap[s]] = s
  /\ \A c \in Calls : future[c] # NoCall =>
       future[c] \in answered /\ SeqOf[future[c]] = SeqOf[c]

\* The object channelRead0 notifies is the request its response answers.
ObjectsKeyed ==
  /\ \A s \in Seqs : threadObjectMap[s] # NoCall => SeqOf[threadObjectMap[s]] = s
  /\ \A ch \in Channels : io[ch].pc = "taken" =>
       io[ch].obj \in Calls /\ SeqOf[io[ch].obj] = SeqOf[io[ch].rsp]

\* From its put until its pool thread takes it, the response of a call that has
\* not timed out is in responseMap; in particular when the thread wakes up.
StoredUntilTaken ==
  /\ \A ch \in Channels : io[ch].pc \in {"stored", "taken"} =>
       LET c == io[ch].rsp
       IN  caller[c] = "waiting" /\ task[c] \notin Over => responseMap[SeqOf[c]] = c
  /\ \A c \in Calls : caller[c] = "waiting" =>
       /\ task[c] = "woken" => responseMap[SeqOf[c]] = c
       /\ task[c] = "finished" => future[c] = c

\* A response is on its way back once, on the channel of its request.
ResponsesOnce ==
  \A ch \in Channels :
    /\ \A i \in 1 .. Len(responses[ch]) :
         /\ ChannelOf[responses[ch][i]] = ch
         /\ \A j \in 1 .. Len(responses[ch]) : responses[ch][i] = responses[ch][j] => i = j
    /\ io[ch] # NoRead =>
         /\ ChannelOf[io[ch].rsp] = ch
         /\ \A i \in 1 .. Len(responses[ch]) : responses[ch][i] # io[ch].rsp

\* The response of c has come off the wire.
Arrived(c) ==
  /\ c \in answered
  /\ \A i \in 1 .. Len(responses[ChannelOf[c]]) : responses[ChannelOf[c]][i] # c

\* The rest is about a call whose msgSeq is its own: what the maps have under it, and
\* the event loop of its channel while it reads the response.
Entry(c)  == threadObjectMap[SeqOf[c]] # NoCall
Stored(c) == responseMap[SeqOf[c]] # NoCall
ReadsAt(c, pc) == io[ChannelOf[c]].pc = pc /\ io[ChannelOf[c]].rsp = c

\* The entry of a call that is awaited goes only when its response has arrived.
Awaited(c) ==
  task[c] \in {"registered", "parked"} /\ caller[c] = "waiting" => Entry(c) \/ Arrived(c)

\* An entry belongs to a call whose task has registered; that of a task that no longer
\* waits is about to be removed by its caller, unless the task woke up by itself.
Registered == {c \in Calls : task[c] \in {"registered", "parked", "woken", "finished"}}
Entered(c) ==
  Entry(c) => /\ c \in Registered
              /\ task[c] \in {"woken", "finished"} => caller[c] = "notified" \/ SpuriousWakeups

\* A response that is kept is that of a call whose task has registered, and comes no
\* more; the entry is taken before anything else is read, and the response once.
Taken(c) ==
  /\ \A pc \in {"matched", "stored", "taken"} : ReadsAt(c, pc) => c \in Registered
  /\ ReadsAt(c, "taken") => ~Entry(c)
  /\ Stored(c) \/ future[c] # NoCall =>
       /\ c \in Registered /\ Arrived(c) /\ ~ReadsAt(c, "matched")
       /\ Entry(c) => ReadsAt(c, "stored")
  /\ future[c] # NoCall => ~Stored(c)

Inv == TypeOK /\ ThreadsAgree /\ RequestsOnce /\ ResponsesKeyed
Settled(c) == Awaited(c) /\ Entered(c) /\ Taken(c)
Residue == ObjectsKeyed /\ ResponsesOnce /\ \A c \in Unshared : Settled(c)
Delivery == Residue /\ StoredUntilTaken
==============================================================================
