---------------------------- MODULE ClientManager ----------------------------
(***************************************************************************)
(* RpcClientManger: the connected clients in HashMaps that no lock guards. *)
(* The event loop of a client adds it (addClient) and removes it           *)
(* (removeClient) and threads of the application send a request or a       *)
(* broadcast; they interleave at each access of a map.  Accesses are taken *)
(* as sequentially consistent.  An iterator of a HashMap throws            *)
(* ConcurrentModificationException from next() once keys have been added   *)
(* to or removed from its map, and does not once it has no next element.   *)
(* Every client connects once here; ClientLifecycle has the reconnections. *)
(***************************************************************************)
EXTENDS Naturals, FiniteSets

CONSTANTS
  Clients, \* clients that application code makes and adds
  Key,     \* the type and id of the server of each, as <<type, id>>
  Threads, \* threads with one call of the manager; also the clients request makes
  Types, Ids,
  None

ASSUME ClientAssumption ==
  /\ Clients \cap Threads = {} /\ None \notin Clients \cup Threads \cup Ids
  /\ Key \in [Clients -> Types \X Ids]
  /\ \A c, d \in Clients : Key[c] = Key[d] => c = d

VARIABLES
  map,    \* rpcClientMap, by type and id
  types,  \* the types that have a map
  chan,   \* clients that rpcChannelClientMap has under the id of their channel
  conn,   \* per client, its channel: "new" (there is none yet), "up" or "down"
  loop,   \* per client of application code, where its event loop is
  heard,  \* clients of application code whose listener has run
  ended,  \* and those whose channelInactive has
  call,   \* per thread, its call: where it is, what for, the client it found
  iter,   \* per thread, its iterators: keys left, and whether they are stale
  sent,   \* history: per thread, the clients that it has written its request to
  stayed, \* history: per thread, the clients in map since its broadcast began that
          \* were connected then
  early   \* history: clients whose channelInactive ran before their listener

loops == <<loop, heard, ended, early>>
vars == <<map, types, chan, conn, loops, call, iter, sent, stayed>>

Keys == Types \X Ids
NoCall == [at |-> "idle", key |-> None, client |-> None]
NoIter == [types |-> {}, keys |-> {}, newType |-> FALSE, changed |-> {}]

Init ==
  /\ map = [k \in Keys |-> None] /\ types = {} /\ chan = {}
  /\ conn = [c \in Clients \cup Threads |-> "new"]
  /\ loop = [c \in Clients |-> "idle"]
  /\ heard = {} /\ ended = {} /\ early = {}
  /\ call = [t \in Threads |-> NoCall]
  /\ iter = [t \in Threads |-> NoIter]
  /\ sent = [t \in Threads |-> {}] /\ stayed = [t \in Threads |-> {}]

Step(c, from, to) == loop[c] = from /\ loop' = [loop EXCEPT ![c] = to]
Goto(t, place) == call' = [call EXCEPT ![t].at = place]

Iterating(t) == call[t].at \in {"types", "clients"}

\* computeIfAbsent: the iterators over the maps of all types become stale.
AddTypeMap(type) ==
  /\ types' = types \cup {type}
  /\ iter' = IF type \in types THEN iter
             ELSE [t \in Threads |-> [iter[t] EXCEPT !.newType = Iterating(t)]]

\* A put or remove of an entry, which makes iterators stale if it adds or removes a key.
Enter(k, c) ==
  /\ map' = [map EXCEPT ![k] = c]
  /\ iter' = IF (map[k] = None) = (c = None) THEN iter
             ELSE [t \in Threads |->
                     IF Iterating(t) THEN [iter[t] EXCEPT !.changed = @ \cup {k[1]}] ELSE iter[t]]
  /\ stayed' = [t \in Threads |-> stayed[t] \ ({map[k]} \ {c})]
-------------------------------------------------------------------------------
(* The event loop of a client *)

\* The connection is open; the event loop has yet to run the listener.
Up(c) == /\ conn[c] = "new"
         /\ conn' = [conn EXCEPT ![c] = "up"]
         /\ UNCHANGED <<map, types, chan, loops, call, iter, sent, stayed>>

Down(c) == /\ conn[c] = "up"
           /\ conn' = [conn EXCEPT ![c] = "down"]
           /\ UNCHANGED <<map, types, chan, loops, call, iter, sent, stayed>>

\* The listener calls clientActive, which calls addClient; remoteAddress() of a closed
\* channel may be null, which ends it before.
Listener(c) ==
  /\ conn[c] # "new" /\ c \notin heard
  /\ \/ Step(c, "idle", "type")
     \/ conn[c] = "down" /\ Step(c, "idle", "idle")
  /\ heard' = heard \cup {c}
  /\ UNCHANGED <<map, types, chan, conn, ended, early, call, iter, sent, stayed>>

AddType(c) == /\ Step(c, "type", "put") /\ AddTypeMap(Key[c][1])
              /\ UNCHANGED <<map, chan, conn, heard, ended, early, call, sent, stayed>>

AddToMap(c) == /\ Step(c, "put", "channel") /\ Enter(Key[c], c)
               /\ UNCHANGED <<types, chan, conn, heard, ended, early, call, sent>>

AddChannel(c) == /\ Step(c, "channel", "idle")
                 /\ chan' = chan \cup {c}
                 /\ UNCHANGED <<map, types, conn, heard, ended, early, call, iter, sent, stayed>>

\* Mutation: the client is taken out of the map of channels only.
RemoveChannelOnly(c) ==
  /\ conn[c] = "down" /\ c \notin ended /\ Step(c, "idle", "idle")
  /\ chan' = chan \ {c}
  /\ ended' = ended \cup {c} /\ early' = early \cup ({c} \ heard)
  /\ UNCHANGED <<map, types, conn, heard, call, iter, sent, stayed>>
\* channelInactive, which the event loop may come to before the listener.
RemoveChannel(c) ==
  /\ conn[c] = "down" /\ c \notin ended
  /\ Step(c, "idle", IF c \in chan THEN "remove" ELSE "idle")
  /\ chan' = chan \ {c}
  /\ ended' = ended \cup {c} /\ early' = early \cup ({c} \ heard)
  /\ UNCHANGED <<map, types, conn, heard, call, iter, sent, stayed>>

RemoveFromMap(c) == /\ Step(c, "remove", "idle") /\ Enter(Key[c], None)
                    /\ UNCHANGED <<types, chan, conn, heard, ended, early, call, sent>>

LoopStep(c) == \/ Listener(c) \/ AddType(c) \/ AddToMap(c) \/ AddChannel(c)
               \/ RemoveChannel(c) \/ RemoveFromMap(c)
-------------------------------------------------------------------------------
(* request and push *)

Request(t, k) ==
  /\ call[t].at = "idle"
  /\ call' = [call EXCEPT ![t] = [at |-> "get", key |-> k, client |-> None]]
  /\ AddTypeMap(k[1])
  /\ UNCHANGED <<map, chan, conn, loops, sent, stayed>>

GetClient(t) ==
  LET c == map[call[t].key]
  IN  /\ call[t].at = "get"
      /\ call' = [call EXCEPT ![t] = [at |-> IF c = None THEN "lookup" ELSE "write",
                                      key |-> @.key, client |-> c]]
      /\ UNCHANGED <<map, types, chan, conn, loops, iter, sent, stayed>>

\* discoverClient.getServiceInfo returned null, or the id in the response.
LookupFails(t) == /\ call[t].at = "lookup" /\ Goto(t, "null")
                  /\ UNCHANGED <<map, types, chan, conn, loops, iter, sent, stayed>>

\* The second get, with the id of the response; without a client the write fails.
GetAgain(t) ==
  /\ call[t].at = "lookup"
  /\ \E id \in Ids : Goto(t, IF map[<<call[t].key[1], id>>] = None THEN "unconnected" ELSE "connect")
  /\ UNCHANGED <<map, types, chan, conn, loops, iter, sent, stayed>>

\* connect returns with the new client's channel not set, whether the dial has
\* succeeded or failed.
ConnectClient(t) ==
  /\ call[t].at = "connect"
  /\ call' = [call EXCEPT ![t] = [at |-> "putClient", key |-> @.key, client |-> t]]
  /\ UNCHANGED <<map, types, chan, conn, loops, iter, sent, stayed>>

\* The listener of that client, at any time after or never: sync() does not wait for
\* it, and a dial that failed is tried again 10 s later.
GetsChannel(t) ==
  /\ conn[t] = "new" /\ call[t].client = t
  /\ conn' = [conn EXCEPT ![t] = "up"]
  /\ UNCHANGED <<map, types, chan, loops, call, iter, sent, stayed>>

PutClient(t) ==
  /\ call[t].at = "putClient" /\ Goto(t, "putChannel") /\ Enter(call[t].key, t)
  /\ UNCHANGED <<types, chan, conn, loops, sent>>

\* The key is no channel id, so that nothing will find the entry; without a channel
\* line 102 throws.
PutChannel(t) ==
  /\ call[t].at = "putChannel" /\ Goto(t, IF conn[t] = "new" THEN "threw" ELSE "write")
  /\ UNCHANGED <<map, types, chan, conn, loops, iter, sent, stayed>>

\* A write to a client that is not connected throws, and request returns null.
WriteRequest(t) ==
  LET up == conn[call[t].client] = "up"
  IN  /\ call[t].at = "write" /\ Goto(t, IF up THEN "done" ELSE "null")
      /\ sent' = IF up THEN [sent EXCEPT ![t] = {call[t].client}] ELSE sent
      /\ UNCHANGED <<map, types, chan, conn, loops, iter, stayed>>

RequestStep(t) ==
  \/ \E k \in Keys : Request(t, k)
  \/ GetClient(t) \/ LookupFails(t) \/ GetAgain(t)
  \/ ConnectClient(t) \/ GetsChannel(t) \/ PutClient(t) \/ PutChannel(t) \/ WriteRequest(t)
-------------------------------------------------------------------------------
(* broadcast and broadcastByType *)

Connected(type) ==
  {c \in {map[<<type, id>>] : id \in Ids} \ {None} : conn[c] = "up"}
KeysOf(type) == {k \in Keys : k[1] = type /\ map[k] # None}

Broadcast(t) ==
  /\ call[t].at = "idle" /\ Goto(t, "types")
  /\ iter' = [iter EXCEPT ![t] = [NoIter EXCEPT !.types = types]]
  /\ stayed' = [stayed EXCEPT ![t] = UNION {Connected(type) : type \in Types}]
  /\ UNCHANGED <<map, types, chan, conn, loops, sent>>

NextType(t) ==
  /\ call[t].at = "types" /\ iter[t].types # {} /\ ~iter[t].newType
  /\ \E type \in iter[t].types :
       iter' = [iter EXCEPT ![t] = [types |-> @.types \ {type}, keys |-> KeysOf(type),
                                    newType |-> FALSE, changed |-> @.changed \ {type}]]
  /\ Goto(t, "clients")
  /\ UNCHANGED <<map, types, chan, conn, loops, sent, stayed>>

BroadcastByType(t) ==
  /\ call[t].at = "idle"
  /\ \E type \in Types :
       /\ types' = types \cup {type}
       /\ iter' = [u \in Threads |->
                     IF u = t THEN [NoIter EXCEPT !.keys = KeysOf(type)]
                     ELSE [iter[u] EXCEPT !.newType = @ \/ (Iterating(u) /\ type \notin types)]]
       /\ stayed' = [stayed EXCEPT ![t] = Connected(type)]
  /\ Goto(t, "clients")
  /\ UNCHANGED <<map, chan, conn, loops, sent>>

End(t, place) == Goto(t, place) /\ iter' = [iter EXCEPT ![t] = NoIter]

Stale(t) == \E k \in iter[t].keys : k[1] \in iter[t].changed

\* Mutation: the first write that throws ends the loop.
NextClientOrStop(t) ==
  /\ call[t].at = "clients" /\ ~Stale(t)
  /\ \E k \in iter[t].keys :
       LET up == conn[map[k]] = "up"
       IN  /\ iter' = [iter EXCEPT ![t].keys = IF up THEN @ \ {k} ELSE {}]
           /\ sent' = IF up THEN [sent EXCEPT ![t] = @ \cup {map[k]}] ELSE sent
  /\ UNCHANGED <<map, types, chan, conn, loops, call, stayed>>
NextClient(t) ==
  /\ call[t].at = "clients" /\ ~Stale(t)
  /\ \E k \in iter[t].keys :
       /\ iter' = [iter EXCEPT ![t].keys = @ \ {k}]
       /\ sent' = IF conn[map[k]] = "up" THEN [sent EXCEPT ![t] = @ \cup {map[k]}] ELSE sent
  /\ UNCHANGED <<map, types, chan, conn, loops, call, stayed>>

LastClient(t) ==
  /\ call[t].at = "clients" /\ iter[t].keys = {}
  /\ IF iter[t].types = {} THEN End(t, "done") ELSE Goto(t, "types") /\ UNCHANGED iter
  /\ UNCHANGED <<map, types, chan, conn, loops, sent, stayed>>

NoTypes(t) == /\ call[t].at = "types" /\ iter[t].types = {} /\ End(t, "done")
              /\ UNCHANGED <<map, types, chan, conn, loops, sent, stayed>>

\* ConcurrentModificationException ends the broadcast.
Fail(t) ==
  /\ \/ call[t].at = "types" /\ iter[t].types # {} /\ iter[t].newType
     \/ call[t].at = "clients" /\ Stale(t)
  /\ End(t, "threw")
  /\ UNCHANGED <<map, types, chan, conn, loops, sent, stayed>>

BroadcastStep(t) ==
  \/ Broadcast(t) \/ BroadcastByType(t) \/ NextType(t)
  \/ NextClient(t) \/ LastClient(t) \/ NoTypes(t) \/ Fail(t)

Next == \/ \E c \in Clients : Up(c) \/ LoopStep(c)
        \/ \E c \in Clients \cup Threads : Down(c)
        \/ \E t \in Threads : RequestStep(t) \/ BroadcastStep(t)

Spec == Init /\ [][Next]_vars
-------------------------------------------------------------------------------
\* Whatever is added and removed meanwhile, and whichever writes fail, a broadcast that
\* does not throw has reached every client that was there and connected all the time.
BroadcastReachesAll ==
  \A t \in Threads :
    call[t].at = "done" => \A c \in stayed[t] : conn[c] = "up" => c \in sent[t]

\* The manager forgets every client that the application added once its event loop has
\* run channelInactive, unless that came before its listener.
DeadAreForgotten ==
  \A k \in Keys :
    map[k] \in Clients => map[k] \notin ended \/ loop[map[k]] # "idle" \/ map[k] \in early
==============================================================================
