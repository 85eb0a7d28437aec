# SeeU: specification, model checking and proofs

SeeU is a small server framework in Java: servers talk to each other by RPC
(protobuf over netty), find each other through a *discover* service, and serve
game clients over websockets; the clients are a JavaScript program with generated
protobuf code. This directory holds TLA+ modules for it, the TLC configurations
that check them and TLAPS proofs of what matters most.

Short paths: `F/` is `src/server/common/src/main/java/com/seeu/framework/`,
`D/` is `src/server/discover/src/main/java/com/seeu/discover/`, `A/` is
`src/server/access/src/main/java/com/seeu/access/`.

## The system

| component | state | operations | interacts by | hard behaviour | correct if |
|---|---|---|---|---|---|
| RPC call, `F/rpc/RpcClientHandler.java` | `threadObjectMap`, `responseMap` (ConcurrentHashMap, keyed by msgSeq), a fixed pool, the monitor of each request | `write`, `channelRead0`, `channelInactive` | calls from any thread; event loops of all channels | three kinds of thread per call, wait/notify without a condition, a 100 ms timeout that races everything | a call returns, with its own answer or null |
| RPC server, `F/rpc/RpcServerHandler.java`, `F/scanner/` | tables filled at start-up, reflection caches | dispatch of a request to a method | event loops | exceptions become null, and null becomes silence | a request is answered at most once, under its msgSeq |
| Numbering, `F/utils/FuncUtil.java`, `F/discover/ServerInfo.java` | the start instant | `GenerateMsgSeq` | called for every request | millisecond granularity, wrap, restart, clock set back, shared bits | distinct requests have distinct numbers |
| Discover registry, `D/DiscoverHandler.java` | `serverTypeSetMap`, a map of maps | `register`, `unregister`, `getServiceInfo` | RPC, one event loop per connection, no lock | check-then-act over two maps, empty maps, no lease, sessions that overtake each other | a server that is there is found; the registry follows the sessions |
| Discover client and connections, `F/discover/DiscoverClient.java`, `F/rpc/RpcBaseClient.java` | channel, future, worker group, retry executors | `connect`, `doConnect`, `close`, `clientActive`, `clientInactive`, `destroy` | starter, netty listener, event loop, retry thread, destroyer | listener against channelInactive, destroy against reconnection, retry after destroy | a running server is registered, a stopped one is not |
| Client manager, `F/rpc/RpcClientManger.java` | two HashMaps of clients | `addClient`, `removeClient`, `request`, `push`, `broadcast`, `broadcastByType` | threads of the application, event loops | unsynchronised maps, iterators gone stale, an inverted null test | live clients are reached, dead ones forgotten |
| Transport, `F/rpc/RpcBaseServer.java`, pipelines of `RpcBaseClient` | - | decode, encode | TCP | no framing: a read is not a message | messages arrive as sent |
| User connections, `A/UserConnectionMgr.java`, `A/AccessWebsocketHandler.java` | three HashMaps by uid, device and remote address | add, update, delete, send | application, `channelInactive` | the maps drift apart; addresses are reused | the three maps agree on every user |
| Websocket pipeline, `F/websocket/` | - | tag, decode, read timeout | netty, game clients | fragments without an aggregator, malformed messages, silence | a message is delivered once or not at all; a silent client is disconnected |
| Client message codec, `src/client/assets/proto/wsMsg_pb.js` | the array of a message object | getters, setters, `serializeBinary`, `deserializeBinary`, `toObject` | the game client, the websocket | defaults, int32 range, repeated and unknown fields, reading into an object in use | what is written is read back |
| Protobuf generator, `src/proto/replace.js` | the generated files | replace a package in all of them | node's callbacks, the disk | callbacks in any order, refused reads and writes, kills in the middle of a write, runs again | a file is replaced whole |
| Redis, `F/redis/RedisOps.java` | keys in a cluster | `autoId` and single commands | many processes | `autoId` is GET, SET, INCR | ids grow |
| Class scan, `F/utils/PackageUtil.java` | a cache of packages | `getClasses` | nobody calls it | cache ignores `recursive`, differs by jar and file | the classes of the package |

Start-up code (`AccessServerInitializer`, the Spring mains), property classes,
`tools/`, the rest of the client's assets and the generated Java code hold no logic
of their own.

## Modules

**RPC.** `RpcContract` is what `write` promises, abstractly: `Invoke`, `Tell` (a push),
`Serve` and `Finish`: a call is over once, with its own served answer or none.
`RpcCall` is `RpcClientHandler.write` and `channelRead0`, with `RpcServerHandler` at the
other end; it implements `RpcContract`. A call is named by its request object. `caller[c]` is where the
calling thread is, `task[c]` where the Callable on the pool is, `io[ch]` where the
event loop of a channel is in `channelRead0`. Each access of a shared map, each
send, wait and notify is a step; `Notify` is lost unless the thread is parked.
`CloseChannel` loses what is in flight. The server may never answer (a null result,
an exception), and answers pushes too, because `needResponse` is not looked at.
`FuncUtil` and `MsgSeq` are `GenerateMsgSeq` on sets of bit positions, so shifts and
masks are what they are in Java, with the processes, the wall clock, restarts and a
clock set back around it.

**Discover.** `DiscoverHandler` has the three methods, step by step over `created` (the
keys of `serverTypeSetMap`) and `serverMap`, run by one event loop per connection;
around them, abstractly, sessions of server processes: connect and register, ask,
destroy, crash (a prefix of what was sent arrives), connect again, and a restart
of discover. `steady` is a history variable: the servers present ever since the
running query began. `ClientLifecycle` has the other end in detail, one client in its
process: `checking`, `dialing`, `resuming` and `retries` are threads inside `doConnect`
or scheduled to be, whoever they are; `tasks[c]` is the queue of the event loop of
channel c and `loop[c]` where it is; `destroyer` is where `destroy` is. Each access of a
field or map that another thread uses is a step. `Registration` composes the two:
what the client of `ClientLifecycle` writes on channel c is read by the event loop of
session c of an instance of `DiscoverHandler`, whose own processes take no steps.

**Manager and users.** `ClientManager` has the maps of `RpcClientManger`, the event loop
of each client that adds and removes it, and threads that request or broadcast, with
the iterators of the HashMaps and when they throw. `UserConnections` has the three maps of
`UserConnectionMgr`, an event loop per connection that logs in, takes over an info or
removes its own, and addresses that are used again before `channelInactive` has run.
In `ClientManager` a connection is open before its event loop comes to the listener, and
may be lost before that: `channelInactive` then finds no client, and the listener, if it
does not fail for want of a remote address, adds a dead one (`early`). A client that
`request` makes is put into the map without a channel and gets it at any time after, by
the listener of a dial that succeeded or a retry 10 s later, or never (`GetsChannel`).

**Messages.** `WsMsg` has the functions of the generated `wsMsg_pb.js` over the array of a
message, a binary message being the sequence of its fields. `MessageExchange` is a
program that constructs, sets, writes and reads its object, and others that write
messages of their own version. `WsPipeline` is one websocket connection: a client that
sends messages whole or in fragments with pings in between, `WebSocketMessagePreProcess`,
`WebsocketMsgDecoder` and the handler, malformed messages, and the read timeout. A text goes
through `new String(bytes)` and `JsonFormat.merge`: the fields it names are set one by one
(`FieldsOfJson`), each text as the platform's charset decodes it (`Charset`, any function on
texts that keeps the empty one), and what is no JSON, or a part of it, is dropped. An
exception of `ProtobufDecoder` closes the connection, after the frames that were read
together with the bad one have been handled (`Reject`). An empty frame of a binary message
is a message of defaults, also if the rest of it is none.

**Others.** `AutoId` is `RedisOps.autoId`, each Redis command a step, with crashes in between.
`ProtoReplace` is `replace.js` with every callback and its error path.

`MC*` modules give constants their values. Modules named `*Proofs` hold theorems; where
one holds those of two specifications, each has a name of its own (`Spec` and `RSpec`, `AutoIdSpec`,
`ExchangeSpec`). Definitions
commented as mutations are faults the properties must detect; no action uses them.

## Runs

| run | instance | shows |
|---|---|---|
| `call_safety` | two calls and a push over two channels, pool of two, distinct milliseconds | own answers, no empty answer, leftovers only of calls without an answer, nothing awaited is dropped, the safety of `RpcContract` |
| `call_live` | two calls, pool of one, spurious wakeups, `FairSpec` | every call returns; a thread parked before its caller gave up is freed; `RpcContract` with its liveness |
| `call_sametick` | two calls in one millisecond | **violation**: one returns the other's response |
| `msgseq` | three processes, two requests, clock to 5 over 2 bits of time | no collision across processes; within one exactly by millisecond, wrap included |
| `discover` | two servers of one type, one of which may have sessions that overlap, three sessions in all, a query each | a server that stays registered is found; the registry follows sessions that are ordered; only an own late unregister removes a connected server |
| `registration` | one server and discover, three channels of which the last is used again during shutdown, two faults, destroy at any point, `FairRSpec` | one attempt to connect at a time, none forgotten, the maps of the manager and the registry right once things are quiet, destroy closes for good, and a server that is not destroyed is registered in the end |
| `client_manager` | a client of each of two types, two threads | a broadcast that ends normally has reached all that were there and connected throughout; dead clients are forgotten, but for one lost before its listener ran |
| `user_connections` | three connections, two of one address, one uid, one device | who shares nothing with others is found until closed; who is gone is forgotten |
| `message_exchange` | integers of 3 bits and values around and beyond their range, messages of other versions | round trip; the last occurrence of a field wins; reading into an object overlays it |
| `ws_pipeline` | three messages of four kinds, two frames in flight, a charset that changes one text, `FairSpec` | once and in order, own fields only, no whole message lost, silence ends in a disconnect |
| `proto_replace` | two scripts and a meta file, three runs | files hold what protoc wrote or what is left of their replacement |
| `auto_id` | three processes, two calls each, a key that is missing, a number, no number or at its maximum | ids grow from call to later call |

**Bounds.** Two calls meet in every way the maps allow: each access concerns one
msgSeq, so a third call adds only more of the same pairs; the push covers responses
nobody registered for, the second channel event loops that meet in the maps. A pool
of one already makes a call wait for another's parked thread, a pool of two makes
two tasks overlap. Two bits of clock wrap within the bound of `msgseq`. Two servers,
of which one stays while the other goes, and a second session of one of them, are
the cases `getServiceInfo` tells apart. Three channels are a first connection, one after a
loss and one after a second loss, of which one may be a stop of discover; a
connection that destroy closes and one that its race with `channelInactive` opens
again are among them. With three messages a fragmented or malformed one lies between
two others. The bounds that appear in guards are `MaxClock`, `MaxIssued`, `MaxSession`, `MaxConns`,
`MaxAsks`, `MaxChannels`, `MaxFaults`, `MaxMessages`, `MaxFrames`, `MaxWire`, `MaxCalls` and `MaxRuns`.
`MaxChannels` is not what stops a client: until destroy each channel but the first
follows a fault, and while the group shuts down, when `channelInactive` may reconnect
again and again, the last number stands for every further channel (`New`): it is used
again once the channel before it is closed, has nothing left to run, and discover has
handled what was said on it (`Reusable`). What ends this is what ends it in the code, the
timeout of `shutdownGracefully` (see below). Deadlock is not checked where the system may stop: every
call returned, every bound used up.

**Fairness.** `RpcCall!FairSpec`: threads and event loops that can step do, and the
100 ms pass (`Expire`). Nothing makes the server answer, a channel stay open or a
waiting thread wake spuriously. `Registration!FairRSpec`: threads run, timers fire, event
loops of both ends run their tasks, and discover is
started again after it stopped; faults are at most `MaxFaults`, and nothing has to be
destroyed. The conjuncts are few because there is one attempt to connect at most, so that
weak fairness of `DoConnectStep` as a whole is that of whoever makes it, and because discover
starts, at most `MaxFaults` + 1 times, only when it takes no step of its own. Termination
of the group is strongly fair: `shutdownGracefully()` has a timeout of 15 s, after which an
event loop ends as soon as it finds nothing to run, although a reconnection keeps giving
it something again; with weak fairness `EventuallyClosed` fails, by a client that is closed
and reconnects for ever. `WsPipeline!FairSpec`: the event loop reads what has arrived, and time passes.

**Sessions that overtake each other.** Nothing in the code orders two sessions of one
server: an `unregister` of the first may be handled after the `register` of the second. The
constant `Overlapping` names the servers that may do so. `RegistryFollowsSessions` is about
the others, in the presence of these; `OnlyOwnUnregisterRemoves` says what is left for all.

## Findings

`call_sametick`: msgSeq is not unique (`F/utils/FuncUtil.java:15` against
`proto/rpcMsg.proto:16`): two requests of one process in one millisecond share
it, and one caller is given the other's response.

The models show more places where code and comment differ; they are visible in one
definition each and have no run:

* a query for a type whose map is empty gets no response, where `proto/discover.proto:30`
  says UNKNOWN (`D/DiscoverHandler.java:69`, `FirstServer`);
* a substitute server is returned under the id asked for, where `proto/discover.proto:31`
  says its own (`D/DiscoverHandler.java:73`, `Found`);
* the test for a client that is missing is inverted (`F/rpc/RpcClientManger.java:96` against
  the comment at line 81), so `request` never connects to a server it has no client for
  (`GetAgain`; the new client it makes where there is one is `ConnectClient`);
* the pipelines have no framing, so a read is one message only by chance.

What the models exclude by a condition of a property is also behaviour of the code: a
connection lost before its listener has run is never replaced (`early`), and the manager
keeps its client; a `destroy` that
finds no future leaves the worker group running, and the client connects and
registers afterwards; overlapping calls of `autoId` may return one id; a user whose
address was used before may be removed by the earlier connection's `channelInactive`; the
first fragment of a message is handled as if it were all of it.

## Proofs

**`RpcCallProofs`**, from `CallAssumption` (types of the constants), for any calls,
channels and pool:

* `TypeCorrect`: `Spec => []TypeOK`.
* `Invariance`: `Spec => []Inv`, whatever numbers the requests have. `AnswersOwnRequest`
  is not inductive: a pool thread takes what `responseMap` holds under its msgSeq, so
  one must know what is stored there, hence what event loops carry, hence what is on the
  wire. `ResponsesKeyed` says all of it: a response, wherever it is, was produced
  by the server and is kept under the number of its own request. `RequestsOnce` says a
  request is on the wire once and not yet answered, `ThreadsAgree` how far the caller and
  its task can be apart. Every part has a lemma that its steps preserve it.
* `KeepsAwaited`, the action property `KeepsAwaitedResponse`, and `Residues`,
  `[]ResidueOnlyOfUnanswered`: both are about the calls whose number no other call has
  (`Unshared`), whatever numbers the others share and whether or not threads wake up
  spuriously. They rest on `Residue`, which says of each such call (`Settled`) where its
  response and its entry can be: the response comes once, on the channel of its request;
  the entry of an awaited call goes only when its response has come off the wire
  (`Awaited`), so that if `channelRead0` found none the response would have come before;
  an entry is that of a task that registered and still waits, or whose caller is about to
  remove it (`Entered`); a kept response is that of a task that registered, and goes with
  the value of its future (`Taken`). A step about another call leaves all that
  alone (`Aside`), because what the maps have under the number is the call's (`OwnFacts`).
* `OwnAnswers`, `[]AnswersOwnRequest`, if all numbers differ (`UniqueSeqs`); the code does not
  ensure it, see the finding.
* `Delivered`, `[](Inv /\ Delivery)`, and from it `NeverEmpty`, `[]NoEmptyAnswer`, if all numbers differ
  and no thread wakes up spuriously; the code ensures neither, `wait` not being in
  a loop. `Delivery` adds to `Residue` that from `put` on the response stays until the
  thread takes it (`StoredUntilTaken`).
* `Implements`: if all numbers differ, every step of `RpcCall` is a step of `RpcContract`
  or leaves it unchanged.

**`NumberingProofs`**, from `LayoutAssumption` and `ServerAssumption` (fields do not overlap;
ids and types fit and differ), for any widths: `NoCollisions`, `[]NoCrossServerCollision`. With
it, `UniqueSeqs` comes down to requests of one process in different milliseconds; that
those cannot be taken for granted is the finding. `Collisions`, `[]CollisionOnlySameTick`,
says when exactly: `IInv` is that every number issued is the one its process generated at
a time after its start (`AllGenuine`), and `TimeDecides` that of two numbers of one
process the low bits of the uptime decide. That the low bits of a number are its remainder
(`LowBits`) goes up bit by bit (`NextBit`), by `FromZero`: a set that has 0 and every
successor has every number. Of `AutoId`, from `AutoIdAssumption`: `LaterGreater`.

**`DiscoverHandlerProofs`**, from `TargetAssumption`, for any servers, sessions and queries:
`DiscoverTypeCorrect`, and `LookupsFind`, `[]LookupFindsServer`. Its invariant `SteadyInMap`
adds that a type with servers has a map, that the steady servers of a running query
are still in it, and that an id found missing was not steady. `OnlyOwnRemoves`, an action
property, comes from an invariant (`Removals`) that ties each pending removal to the
connection it came by: an unregister that is sent or running on the connection of a session
names that session's server, and the session is over if it is the latest.
`RegistryFollows` needs, for the servers whose sessions are ordered, that earlier
connections are quiet, and what the latest has sent and not handled decides what the
registry will say of it.

**`RegistrationProofs`**, from `LifecycleAssumption`, for any number of channels, faults and
threads. Of the client alone (`Spec`): `OneAttemptAtMost`, `NeverForgotten`, `LinkedKnown`,
`OnlyEarlyResidue`, `DestroyedStaysDown`, and the type invariant (`Types`). The argument is that
the client is about one channel at most: `Held(c)` says that channel c is being
opened, waits for its listener, is being added, is open, waits for `channelInactive`, is in
the map or is being replaced. `Single`: there is one attempt and no such channel, or no
attempt and at most one such channel. `LoopInv` gives the order in which an event loop comes
to its tasks (the listener once, `channelInactive` once and on a closed channel), `MapInv`
what the fields and the map then hold, `RunningInv` what more holds until destroy,
`Withdrawn` what holds once destroy has taken the client out. A step is about one held channel
(`FocusStep`) or changes nothing that matters to any (`OutsideStep`); each action has a
lemma that uses one of the two.

Of server and discover together (`RSpec`): `ImplementsClient`, every step of the two is a step
of the client or leaves it alone, so that all of the above holds beside discover;
`LinkedRegistered`, `[]LinkedIsRegistered`, for any number of channels, losses and restarts of
discover: until destroy there is no unregister anywhere, and a register written on a
channel that is still open is in the inbox, being handled, or in the registry. `LastWord`,
`[]LastWordCounts`, needs the order of what the client says. `Opening`: channels are opened
one after the other, and nothing is said on one before its listener has run, nor is an
unregister before destroy. `Undisturbed`: without a fault the first connection lasts
until destroy closes it, so that channel 1 alone ever says unregister. What holds of a
channel that is opened for the first time holds of a number that is used again, as
discover is through with what was said on it (`Recycled`, `Untold`). `Follows(c)` then
lists where discover can be with what was said on channel c, and what the registry holds
at each place, `Mapped` what it holds at all; at rest only the last place is left.

**`UserConnectionsProofs`**, from `ConnAssumption`, for any connections, addresses, uids and
devices: `Stays`, `[]OthersDoNotRemove`, and `Forgotten`, `[]GoneIsForgotten`. `LoopInv` and
`InfoInv` say where an event loop can be with which info and what the info says meanwhile,
`MapInv` that an entry of a map leads to an info that has, or once had, its key
(`UidMap`, `DevMap`, `CtxMap`), and of whom a connection that is gone can still hold an info
(`GoneInv`). `Kept`: an info that shares nothing with others is in each map from its put on;
the lemmas `AloneOwn`, `CtxOwner` and `CtxStays` say that nobody else comes to it. For
`Forgotten` one must know who will remove an entry: `DevKept` says that while a device leads
to an info, the connection that created it or the one that has it now will find it by its
address or is about to remove the device, `UidKept` the same of a uid that was not reset.
Both are suspended while an address has been removed and the new one is not yet put
(`Pending`).

**`ClientManagerProofs`**, from `ClientAssumption`, for any clients and threads: `Reaches`,
`[]BroadcastReachesAll`, and `Forgets`, `[]DeadAreForgotten`. `EntryInv` says under which key a
client is in the map and where its event loop then is: that its listener has run, and its
`channelInactive` not, unless it is on its way to remove the client or came before the
listener; this gives `Forgets`. `FreshInv`: a
key that an iterator still has before it and that was removed is of a type the iterator
will throw on. `StayedInv`: who is counted among the clients that stayed had a channel when the
broadcast began, so that a listener that runs late is not about it. `ReachInv`: such a
client is in the map under a key that the broadcast has before it or has dealt with,
unless it threw; it rests on `NoRevival`, that who has lost its connection gets no other.
That is so because a client of the application is removed before it reconnects, and one made by
`request` does not: its entry of `rpcChannelClientMap` has a key that `channelInactive` does not look for.

**`WsMsgProofs`**, from `WsMsgAssumption`, `ExchangeAssumption` and `PipelineAssumption` (values
are of their kind; what is sent over a websocket can be written), for any values and
messages of any length. Reading is a recursive function of the number of fields read, so
that its existence has to be proved first (`StatesExist`), and then field by field what it
has come to (`ReadAll`, `After`): the default or what was there before if the field
has not occurred (`Never`), what its last occurrence says otherwise (`Latest`), both by
`FromZero`. `Written` says which fields `serializeBinary` writes, `AtMostOne` that each comes
once, `Reads` what is read of a message in which each field says one thing. From these:
`ReadsAsWritten`, `[]RoundTrip`; `LastWins`, `[]LastOccurrenceWins`, where `LastRead` links the
place that `LastOf` chooses to `Latest` and `Int32` is the cut to 32 bits; `Overlays`, the action
property `ReadIntoOverlays`.

Of the pipeline: `InOrderOnce`, `[]OnceInOrder`, `NothingElse`, `[]OwnFields`, and `WholeArrive`,
`[]NoneLost`, from `PipeInv`. The only frames that count are those that begin a message
(`Starts`): `Framed` says that such a frame is the first part of what was sent, `InOrder` that
messages are on their way and handled in the order of sending, `OwnOnly` is what `OwnFields`
says, for a JSON message with its texts as the platform decodes them (`Heard`), and `Underway` that a whole message is handled or still on its way, of which
`NoneLost` is the case of an empty way. `Decoded` is where the codec comes in: what is
read of the first fields of a written message is those fields, and defaults.

**`ProtoReplaceProofs`**, from `ReplaceAssumption`: `FilesWholeOrKept` and `CleanRuns`; that
replacing once more changes nothing, and that a prefix of a prefix is a prefix, are lemmas.

**Only model-checked.** Every invariant and action property that a passing run checks is proved, `AnswersOwnRequest`,
`NoEmptyAnswer`, `Delivery` and `ContractSafety` of `RpcCall` under the hypotheses named above, the
others under none. Liveness is out of the prover's reach and
stays with TLC: `EveryCallReturns`, `ParkedThreadFreed`, the liveness of `RpcContract`
(`ContractSpec`), `EventuallyClosed`, `EventuallyRegistered`, `SilentIsClosed`. The induction
theorems of the library take an operator as a parameter, which no prover here can
instantiate; where induction was needed it is done over a set of numbers (`FromZero`).
Strings cannot be shown to be strings, so texts are members of a constant set (`Texts`).

## Not modelled

* The RPC transport. Without a frame decoder, what a read holds is up to TCP; `RpcCall`,
  `DiscoverHandler` and `Registration` assume one message per read. The idle handlers raise events
  that nothing handles.
* The caches of `InvokerHolder` and `Invoker`: filled at start-up, or with values that every
  thread computes alike.
* `PackageUtil.getClasses`: nothing calls it. Redis operations other than `autoId`: one command
  each. Start-up code and generated Java code.
* In `ClientLifecycle`: that channels share event loops, and that `sync` called on an event
  loop blocks it (a loop that reconnects is taken to run on); that the group's loops
  terminate one by one. In `ClientManager` and `UserConnections`: corruption inside a HashMap
  that two threads write at once; accesses are sequentially consistent. Interrupts of callers.
  In `ClientManager` every client connects once; reconnections are in `ClientLifecycle`.
* A restart of discover that is faster than the client's notice of its broken connections:
  `DiscoverStarts` waits until every connection has been found closed. A clock that goes back to
  before a process started, where the uptime would be negative: `SetBack` stops at the start.
* In `WsPipeline`: handshake, TLS, and the header map of remote addresses. In
  `UserConnections`: `addUserInfoByUid`, `addUserInfoByDevId` and `addUserInfoByCtx`, which put one entry
  each, and sending, which changes no state. None of the methods that add or update an info has
  a caller in the repository, `addUserInfo` and `updateUserInfoCtx` included: that they run on the
  event loop of the connection that logs in is how the model takes them to be used.

## What could follow

1. `Registration` with two servers that take over from each other under one id.
2. The proof that `RegistryFollowsSessions` and `Registration` agree on what a session is:
   a refinement of the processes of `DiscoverHandler` by `ClientLifecycle`.
3. Properties of requests in `ClientManager` for the case that the inverted test is repaired.
