---------------------------- MODULE Registration -----------------------------
(***************************************************************************)
(* A server and discover together: the client of ClientLifecycle at one    *)
(* end of each connection, the event loops of DiscoverHandler at the       *)
(* other.  What the client writes on channel c is read by the event loop   *)
(* of session c.                                                           *)
(***************************************************************************)
EXTENDS ClientLifecycle

CONSTANT Server  \* <<type, id>>

VARIABLES
  created, serverMap, inbox, handler, outcome, steady  \* of DiscoverHandler

discover == <<created, serverMap, inbox, handler, outcome, steady>>

D == INSTANCE DiscoverHandler WITH
       Servers <- {Server}, Targets <- {Server}, MaxSession <- MaxChannels,
       MaxConns <- MaxChannels, MaxAsks <- 0, Overlapping <- {Server}, loop <- handler,
       process <- [s \in {Server} |-> "up"], session <- [s \in {Server} |-> MaxChannels],
       linked <- {}, asked <- [s \in {Server} |-> 0]

Conn(c) == <<Server, c>>

NoSession(value) == [k \in D!Conns |-> value]

DInit == /\ created = {} /\ serverMap = [s \in {Server} |-> 0]
         /\ inbox = NoSession(<<>>) /\ handler = NoSession(D!Idle)
         /\ outcome = NoSession(D!NoOutcome) /\ steady = NoSession({})

RInit == Init /\ DInit

Rest == UNCHANGED <<created, serverMap, handler, outcome, steady>>

\* What a step of the client writes on channel c, if discover is there to read it; on a
\* number that is used again it may be another register.
Again(c) == said[c] = "register" /\ Open(c) /\ loop[c] # "addType" /\ loop'[c] = "addType"
Written(c) ==
  IF discoverUp /\ (said'[c] # said[c] \/ Again(c))
  THEN <<D!Request(said'[c], Server)>> ELSE <<>>

\* A number is used again when discover too is done with the channel before.
Reusable(c) ==
  status[c] = "closed" /\ status'[c] = "open" =>
    inbox[Conn(c)] = <<>> /\ handler[Conn(c)] = D!Idle

Writes == /\ \A c \in Channels : Reusable(c)
          /\ inbox' = [k \in D!Conns |-> inbox[k] \o Written(k[2])]
          /\ Rest

ClientStep ==
  /\ \/ DoConnectStep \/ Destroy \/ DestroyStep \/ Terminate
     \/ \E c \in Channels : LoopStep(c) \/ CloseAll(c) \/ BreakDown(c)
  /\ Writes

\* Of a connection that breaks, a part of what was written does not arrive.
BreakInTransit(c) ==
  /\ Break(c)
  /\ \E n \in 0 .. Len(inbox[Conn(c)]) :
       inbox' = [inbox EXCEPT ![Conn(c)] = SubSeq(@, 1, n)]
  /\ Rest

\* Discover ends with its map and what it has not read, and starts with an empty one.
DiscoverEnds ==
  /\ DiscoverStops
  /\ created' = {} /\ serverMap' = [s \in {Server} |-> 0]
  /\ inbox' = NoSession(<<>>) /\ handler' = NoSession(D!Idle)
  /\ outcome' = NoSession(D!NoOutcome) /\ steady' = NoSession({})

DiscoverStep == discoverUp /\ UNCHANGED vars /\ \E k \in D!Conns : D!Handle(k)

RNext == \/ ClientStep
         \/ \E c \in Channels : BreakInTransit(c)
         \/ DiscoverEnds
         \/ DiscoverStarts /\ UNCHANGED discover
         \/ DiscoverStep

rvars == <<vars, discover>>
RSpec == RInit /\ [][RNext]_rvars

\* Threads run, timers fire, the event loops of discover run and discover is started
\* again.  Nothing has to be destroyed.  After the timeout of shutdownGracefully an event
\* loop ends as soon as it has nothing to run, however often there is something again.
FairRSpec ==
  /\ RSpec
  /\ WF_vars(DoConnectStep) /\ \A c \in Channels : WF_vars(LoopStep(c))
  /\ WF_vars(DestroyStep \/ BreakStep) /\ SF_vars(Terminate)
  /\ WF_rvars(DiscoverStep \/ (DiscoverStarts /\ UNCHANGED discover))
-------------------------------------------------------------------------------
\* Nothing is left to do at either end.
Settled == /\ D!AllHandled(Server)
           /\ \A c \in Channels : tasks[c] = <<>> /\ loop[c] = "idle"

\* When both ends have handled all there was, a server that is connected and not
\* being destroyed is known to discover, after any reconnections.
LinkedIsRegistered ==
  Settled /\ discoverUp /\ destroyer = "none" /\ Linked # {} => serverMap[Server] # 0

\* A server whose last word was unregister is not known any more, although the
\* client may be reconnecting while destroy runs: as long as no connection was lost,
\* with an unregister on it or with a register that discover reads later.
LastWordCounts ==
  LET LastOn(c) == said[c] # "nothing" /\ \A d \in c + 1 .. MaxChannels : said[d] = "nothing"
  IN  Settled /\ (\E c \in Channels : LastOn(c) /\ said[c] = "unregister") =>
        serverMap[Server] = 0 \/ faults > 0

\* Lost connections and restarts of discover having come to an end, a server is
\* known to discover for good, unless it is destroyed or lost a connection too early.
EventuallyRegistered ==
  <>[](destroyer # "none" \/ early # {} \/ serverMap[Server] # 0)
==============================================================================
