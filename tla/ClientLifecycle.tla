--------------------------- MODULE ClientLifecycle ---------------------------
(***************************************************************************)
(* The connection of a server to discover: RpcBaseClient.connect,          *)
(* doConnect and close, DiscoverClient.clientActive, clientInactive and    *)
(* destroy, RpcClientHandler.channelInactive, RpcClientManger.addClient    *)
(* and removeClient, in one process with one client.  The threads are the  *)
(* starter, the retry threads and the event loops, all of which may be in  *)
(* doConnect; the event loop of each channel, which runs its tasks in      *)
(* order; and the thread that runs destroy.  Each access of a field or a   *)
(* map that another thread uses too is a step.                             *)
(***************************************************************************)
EXTENDS Naturals, SequencesExt

CONSTANTS
  MaxChannels,  \* bound on the channels opened before the group shuts down
  MaxFaults,    \* bound on lost connections and stops of discover
  None          \* a Java null

Channels == 1 .. MaxChannels
Tasks    == {"listener", "close", "inactive"}

ASSUME LifecycleAssumption ==
  MaxChannels \in Nat \ {0, 1} /\ MaxFaults \in Nat /\ None \notin Channels

VARIABLES
  discoverUp,   \* discover accepts connections
  faults,       \* faults so far
  group,        \* workerGroup: "open", "quiet" (shutting down) or "terminated"
  status,       \* per channel: "unused", "open" or "closed"
  tasks,        \* per channel, what its event loop has still to run
  loop,         \* per channel, where its event loop is
  checking,     \* threads that enter doConnect
  dialing,      \* threads in sync() of doConnect
  resuming,     \* channels that are connected and whose thread is not back from sync()
  retries,      \* scheduled executions of doConnect
  channel,      \* the field
  future,       \* the field: the channel of the future
  byType,       \* the client is in rpcClientMap
  byChannel,    \* the keys of rpcChannelClientMap
  destroyer,    \* where destroy is
  early,        \* history: channels closed before their listener had run
  said,         \* history: per channel, the last message: "nothing", "register" or "unregister"
  withdrawn     \* history: destroy took the client out of rpcChannelClientMap

network == <<discoverUp, faults, group>>
loops   == <<status, tasks, loop>>
dials   == <<checking, dialing, resuming, retries>>
fields  == <<channel, future>>
maps    == <<byType, byChannel>>
history == <<early, said, withdrawn>>
vars    == <<network, loops, dials, fields, maps, destroyer, history>>

Open(c) == c # None /\ status[c] = "open"
\* The listener has not run yet.
Unheard == resuming \cup {c \in Channels : Contains(tasks[c], "listener")}

Init ==
  /\ discoverUp \in BOOLEAN /\ faults = 0 /\ group = "open"
  /\ status = [c \in Channels |-> "unused"]
  /\ tasks = [c \in Channels |-> <<>>]
  /\ loop = [c \in Channels |-> "idle"]
  /\ checking = 1 /\ dialing = 0 /\ resuming = {} /\ retries = 0
  /\ channel = None /\ future = None
  /\ byType = FALSE /\ byChannel = {}
  /\ destroyer = "none"
  /\ early = {} /\ said = [c \in Channels |-> "nothing"] /\ withdrawn = FALSE
-------------------------------------------------------------------------------
(* doConnect. *)

\* A channel that is active is kept.
Check == /\ checking > 0
         /\ checking' = checking - 1
         /\ dialing' = IF Open(channel) THEN dialing ELSE dialing + 1
         /\ UNCHANGED <<network, loops, resuming, retries, fields, maps, destroyer, history>>

\* A channel is a new one.  While the group shuts down there is no bound on them: the
\* last number stands for every later channel, each in use when the one before is not.
New(c) ==
  \/ status[c] = "unused" /\ \A b \in 1 .. c - 1 : status[b] # "unused"
  \/ /\ group = "quiet" /\ c = MaxChannels /\ status[c] = "closed"
     /\ tasks[c] = <<>> /\ loop[c] = "idle" /\ c \notin resuming \cup byChannel

DialSucceeds ==
  /\ dialing > 0 /\ discoverUp /\ group # "terminated"
  /\ \E c \in Channels :
       /\ New(c)
       /\ status' = [status EXCEPT ![c] = "open"]
       /\ resuming' = resuming \cup {c}
  /\ dialing' = dialing - 1
  /\ UNCHANGED <<network, tasks, loop, checking, retries, fields, maps, destroyer, history>>

\* Mutation: the first failure is the last.
DialFailsForGood ==
  /\ dialing > 0 /\ (~discoverUp \/ group = "terminated")
  /\ dialing' = dialing - 1
  /\ UNCHANGED <<network, loops, checking, resuming, retries, fields, maps, destroyer, history>>
\* sync() throws: a new executor will run doConnect once more in 10 s.
DialFails ==
  /\ dialing > 0 /\ (~discoverUp \/ group = "terminated")
  /\ dialing' = dialing - 1 /\ retries' = retries + 1
  /\ UNCHANGED <<network, loops, checking, resuming, fields, maps, destroyer, history>>

\* Mutation: the executor runs doConnect whether or not a failure scheduled it.
RetryAlways ==
  /\ retries' = retries - 1 /\ checking' = checking + 1
  /\ UNCHANGED <<network, loops, dialing, resuming, fields, maps, destroyer, history>>
Retry == /\ retries > 0
         /\ retries' = retries - 1 /\ checking' = checking + 1
         /\ UNCHANGED <<network, loops, dialing, resuming, fields, maps, destroyer, history>>

Queue(c, task) == tasks' = [tasks EXCEPT ![c] = Append(@, task)]

\* The future is kept and the listener handed to the channel's event loop, which
\* takes nothing any more once the group has terminated.
Resume(c) ==
  /\ c \in resuming
  /\ resuming' = resuming \ {c}
  /\ future' = c
  /\ IF group = "terminated" THEN UNCHANGED tasks ELSE Queue(c, "listener")
  /\ UNCHANGED <<network, status, loop, checking, dialing, retries, channel, maps,
                 destroyer, history>>
-------------------------------------------------------------------------------
(* The event loop of channel c. *)

Runs(c, task) == loop[c] = "idle" /\ tasks[c] # <<>> /\ Head(tasks[c]) = task
Done(c) == tasks' = [tasks EXCEPT ![c] = Tail(@)]
\* What is written on a channel that is not active is lost.
Write(c, message) == said' = IF Open(c) THEN [said EXCEPT ![c] = message] ELSE said
Goto(c, place) == loop' = [loop EXCEPT ![c] = place]

\* Mutation: register is written once and not again after a reconnection.
ListenerOnce(c) ==
  /\ Runs(c, "listener") /\ Done(c)
  /\ channel' = c
  /\ IF \A b \in Channels : said[b] = "nothing" THEN Write(c, "register") ELSE UNCHANGED said
  /\ Goto(c, "addType")
  /\ UNCHANGED <<network, status, dials, future, maps, destroyer, early, withdrawn>>
\* The listener: remoteAddress() of a closed channel may be null, which ends it with
\* a NullPointerException; else clientActive writes register and goes on to addClient.
Listener(c) ==
  /\ Runs(c, "listener") /\ Done(c)
  /\ channel' = c
  /\ \/ ~Open(c) /\ UNCHANGED <<loop, said>>
     \/ /\ Write(c, "register")
        /\ Goto(c, "addType")
  /\ UNCHANGED <<network, status, dials, future, maps, destroyer, early, withdrawn>>

AddType(c) ==
  /\ loop[c] = "addType" /\ Goto(c, "addChannel")
  /\ byType' = TRUE
  /\ UNCHANGED <<network, status, tasks, dials, fields, byChannel, destroyer, history>>

AddChannel(c) ==
  /\ loop[c] = "addChannel" /\ Goto(c, "idle")
  /\ byChannel' = byChannel \cup {channel}
  /\ UNCHANGED <<network, status, tasks, dials, fields, byType, destroyer, history>>

\* The task of future.channel().close().
CloseTask(c) ==
  /\ Runs(c, "close")
  /\ status' = [status EXCEPT ![c] = "closed"]
  /\ tasks' = [tasks EXCEPT ![c] = IF Open(c) THEN Append(Tail(@), "inactive") ELSE Tail(@)]
  /\ early' = early \cup ({c} \cap Unheard)
  /\ UNCHANGED <<network, loop, dials, fields, maps, destroyer, said, withdrawn>>

\* Mutation: channelInactive reconnects whether or not it finds the client.
InactiveAlways(c) ==
  /\ Runs(c, "inactive") /\ Done(c) /\ Goto(c, "removeType")
  /\ byChannel' = byChannel \ {c}
  /\ UNCHANGED <<network, status, dials, fields, byType, destroyer, history>>

\* Mutation: channelInactive looks the client up without removing it.
InactiveKeeps(c) ==
  /\ Runs(c, "inactive") /\ Done(c)
  /\ IF c \in byChannel THEN Goto(c, "removeType") ELSE UNCHANGED loop
  /\ UNCHANGED <<network, status, dials, fields, maps, destroyer, history>>
\* channelInactive: removeClient(channel); a client that is not found is null and
\* clientInactive of it ends with a NullPointerException.
Inactive(c) ==
  /\ Runs(c, "inactive") /\ Done(c)
  /\ IF c \in byChannel THEN Goto(c, "removeType") ELSE UNCHANGED loop
  /\ byChannel' = byChannel \ {c}
  /\ UNCHANGED <<network, status, dials, fields, byType, destroyer, history>>

\* The rest of removeClient(channel); then clientInactive calls connect, doConnect.
RemoveType(c) ==
  /\ loop[c] = "removeType" /\ Goto(c, "idle")
  /\ byType' = FALSE
  /\ checking' = checking + 1
  /\ UNCHANGED <<network, status, tasks, dialing, resuming, retries, fields, byChannel,
                 destroyer, history>>

LoopStep(c) == \/ Listener(c) \/ AddType(c) \/ AddChannel(c)
               \/ CloseTask(c) \/ Inactive(c) \/ RemoveType(c)
-------------------------------------------------------------------------------
(* destroy. *)

\* unregister is written; without a channel that throws, and is caught.
Destroy ==
  /\ destroyer = "none" /\ destroyer' = "close"
  /\ Write(channel, "unregister")
  /\ UNCHANGED <<network, loops, dials, fields, maps, early, withdrawn>>

\* close: without a future it throws before the group is shut down.
Close ==
  /\ destroyer = "close"
  /\ IF future = None THEN destroyer' = "removeType" /\ UNCHANGED tasks
                      ELSE destroyer' = "shutdown" /\ Queue(future, "close")
  /\ UNCHANGED <<network, status, loop, dials, fields, maps, history>>

\* Mutation: close closes the channel and leaves the group as it is.
CloseOnly ==
  /\ destroyer = "shutdown" /\ destroyer' = "removeType"
  /\ UNCHANGED <<network, loops, dials, fields, maps, history>>
ShutdownGracefully ==
  /\ destroyer = "shutdown" /\ destroyer' = "removeType"
  /\ group' = "quiet"
  /\ UNCHANGED <<discoverUp, faults, loops, dials, fields, maps, history>>

\* removeClient(this)
DestroyRemoveType ==
  /\ destroyer = "removeType" /\ destroyer' = "removeChannel"
  /\ byType' = FALSE
  /\ UNCHANGED <<network, loops, dials, fields, byChannel, history>>

DestroyRemoveChannel ==
  /\ destroyer = "removeChannel" /\ destroyer' = "done"
  /\ byChannel' = byChannel \ {channel}
  /\ withdrawn' = (channel \in byChannel)
  /\ UNCHANGED <<network, loops, dials, fields, byType, early, said>>

DestroyStep == Close \/ ShutdownGracefully \/ DestroyRemoveType \/ DestroyRemoveChannel
-------------------------------------------------------------------------------
(* The network, and the group that shuts down. *)

\* The event loop finds its channel closed.
Lose(c) ==
  /\ Open(c) /\ loop[c] = "idle"
  /\ status' = [status EXCEPT ![c] = "closed"]
  /\ Queue(c, "inactive")
  /\ early' = early \cup ({c} \cap Unheard)
  /\ UNCHANGED <<loop, dials, fields, maps, destroyer, said, withdrawn>>

Fault == faults < MaxFaults /\ faults' = faults + 1

Break(c) == Fault /\ Lose(c) /\ UNCHANGED <<discoverUp, group>>

DiscoverStops == /\ discoverUp /\ discoverUp' = FALSE /\ Fault
                 /\ UNCHANGED <<group, loops, dials, fields, maps, destroyer, history>>

\* Its connections break with it.
BreakDown(c) == ~discoverUp /\ Lose(c) /\ UNCHANGED network

\* Not before the client has found its connections broken: a restart that is faster than
\* that is left out.
DiscoverStarts == /\ ~discoverUp /\ discoverUp' = TRUE
                  /\ \A c \in Channels : ~Open(c)
                  /\ UNCHANGED <<faults, group, loops, dials, fields, maps, destroyer, history>>

\* While it shuts down a loop closes the channels it finds, those opened since too.
CloseAll(c) == group = "quiet" /\ Lose(c) /\ UNCHANGED network

\* The loops have run what they had, and nothing came in the quiet period.
Terminate ==
  /\ group = "quiet"
  /\ \A c \in Channels : ~Open(c) /\ tasks[c] = <<>> /\ loop[c] = "idle"
  /\ group' = "terminated"
  /\ UNCHANGED <<discoverUp, faults, loops, dials, fields, maps, destroyer, history>>

DoConnectStep == Check \/ DialSucceeds \/ DialFails \/ Retry \/ \E c \in Channels : Resume(c)
BreakStep == \E c \in Channels : CloseAll(c) \/ BreakDown(c)

Next == \/ DoConnectStep
        \/ \E c \in Channels : LoopStep(c) \/ Break(c)
        \/ Destroy \/ DestroyStep
        \/ DiscoverStops \/ DiscoverStarts
        \/ Terminate \/ BreakStep

Spec == Init /\ [][Next]_vars
-------------------------------------------------------------------------------
TypeOK ==
  /\ discoverUp \in BOOLEAN /\ faults \in 0 .. MaxFaults
  /\ group \in {"open", "quiet", "terminated"}
  /\ status \in [Channels -> {"unused", "open", "closed"}]
  /\ tasks \in [Channels -> Seq(Tasks)]
  /\ loop \in [Channels -> {"idle", "addType", "addChannel", "removeType"}]
  /\ checking \in Nat /\ dialing \in Nat /\ retries \in Nat /\ resuming \subseteq Channels
  /\ channel \in Channels \cup {None} /\ future \in Channels \cup {None}
  /\ byType \in BOOLEAN /\ byChannel \subseteq Channels
  /\ destroyer \in {"none", "close", "shutdown", "removeType", "removeChannel", "done"}
  /\ early \subseteq Channels /\ withdrawn \in BOOLEAN
  /\ said \in [Channels -> {"nothing", "register", "unregister"}]

Attempts == checking + dialing + retries + Cardinality(resuming)
Returning == {c \in Channels : loop[c] = "removeType"}
Linked == {c \in Channels : Open(c) /\ c \notin resuming}

\* The starter, the retries and the event loops never connect beside each other: at
\* any time there is one attempt at most, and none while a connection is open.
OneAttempt == Attempts + Cardinality(Returning) + Cardinality(Linked) <= 1

\* Until it is destroyed, a client that is not connected is trying to be, unless a
\* connection was lost before its listener had run: then it never tries again.
NotForgotten ==
  destroyer = "none" /\ early = {} =>
    \/ Attempts > 0 \/ Returning # {} \/ Linked # {}
    \/ \E c \in Channels : Contains(tasks[c], "inactive")

\* Until destroy, a connection whose event loop has nothing left to do has been
\* registered with discover and is what the manager has for the client in both maps.
LinkedIsKnown ==
  \A c \in Linked :
    destroyer = "none" /\ tasks[c] = <<>> /\ loop[c] = "idle" =>
      channel = c /\ byType /\ byChannel = {c} /\ said[c] = "register"

\* A closed channel stays in rpcChannelClientMap only if it was lost that early.
ResidueOnlyEarly ==
  \A c \in byChannel : Open(c) \/ Contains(tasks[c], "inactive") \/ c \in early

\* If destroy takes the client out of the map before channelInactive does, the client
\* stays down; otherwise channelInactive finds it and it connects again.
StaysDown == withdrawn => Attempts = 0 /\ Returning = {}

\* Once destroy closes the connection and shuts the group down, none stays open,
\* whatever reconnections go on meanwhile.
EventuallyClosed == destroyer = "shutdown" ~> [](\A c \in Channels : ~Open(c))
==============================================================================
