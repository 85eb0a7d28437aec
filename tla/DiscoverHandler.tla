--------------------------- MODULE DiscoverHandler ---------------------------
(***************************************************************************)
(* The discover service: DiscoverHandler, whose three methods are run by   *)
(* RpcServerHandler on the event loop of each connection, concurrently and *)
(* without a lock, over serverTypeSetMap, a ConcurrentHashMap of           *)
(* ConcurrentHashMaps.  Each access of a map is a step.  Around it, the    *)
(* processes that register, ask, unregister and crash, each over the       *)
(* connection of its current session.  A server is <<type, id>>; the       *)
(* register message it sends is named by its session.                      *)
(***************************************************************************)
EXTENDS Naturals, Sequences, FiniteSets

CONSTANTS
  Servers,      \* the processes that register: pairs <<type, id>>
  Targets,      \* the <<type, id>> that may be asked for
  MaxSession,   \* bound on the sessions of a process
  MaxConns,     \* bound on the sessions of all processes together
  MaxAsks,      \* bound on the queries of a session
  Overlapping   \* the servers whose next session may open before discover is done
                \* with the last one

Types    == {t[1] : t \in Targets}
Conns    == Servers \X (1 .. MaxSession)
Sessions == 0 .. MaxSession  \* 0: no register message

ASSUME TargetAssumption ==
  /\ Servers \subseteq Targets /\ {MaxSession, MaxConns, MaxAsks} \subseteq Nat
  /\ Overlapping \subseteq Servers

VARIABLES
  created,    \* the types that are keys of serverTypeSetMap
  serverMap,  \* per type and id, the session whose register message is stored
  process,    \* per server: "down", "up", "stopped" (by destroy) or "crashed"
  session,    \* per server, the number of its latest session
  linked,     \* the servers whose latest session is connected
  asked,      \* per server, queries made in its latest session
  inbox,      \* per connection, the requests discover has not read yet
  loop,       \* per connection, where its event loop stands in a method
  outcome,    \* per connection, what its last query came to
  steady      \* history: per connection, the servers that have been in the map
              \* since its running query began

registry  == <<created, serverMap>>
processes == <<process, session, linked, asked>>
handlers  == <<loop, outcome, steady>>
vars      == <<registry, processes, inbox, handlers>>

Request(method, target) == [method |-> method, target |-> target]
Requests == [method: {"register", "unregister", "getServiceInfo"}, target: Targets]
At(pc, target) == [pc |-> pc, target |-> target]
Idle      == [pc |-> "idle"]
NoOutcome == [kind |-> "none"]
\* UNKNOWN, and the server whose host and port are given; sent as svrId is id.
Unknown(target)    == [kind |-> "unknown", target |-> target]
Found(target, svr) == [kind |-> "found", target |-> target, svrId |-> target[2],
                       host |-> svr, of |-> serverMap[svr]]
Unanswered(target) == [kind |-> "unanswered", target |-> target]

Current(s)  == <<s, session[s]>>
\* The servers of a type that are in the map; the mutation forgets removals.
OfType(type) == {t \in Targets : t[1] = type}
InMap(type)  == {t \in Targets : t[1] = type /\ serverMap[t] # 0}

Places   == {Idle} \cup [pc: {"put", "remove", "get", "iterate"}, target: Targets]
Outcomes ==
  {NoOutcome} \cup [kind: {"unknown", "unanswered"}, target: Targets]
    \cup [kind: {"found"}, target: Targets, svrId: {t[2] : t \in Targets},
          host: Targets, of: Sessions \ {0}]

TypeOK ==
  /\ created \subseteq Types
  /\ serverMap \in [Targets -> Sessions]
  /\ process \in [Servers -> {"down", "up", "stopped", "crashed"}]
  /\ session \in [Servers -> Sessions]
  /\ linked \subseteq Servers
  /\ asked \in [Servers -> 0 .. MaxAsks]
  /\ inbox \in [Conns -> Seq(Requests)]
  /\ loop \in [Conns -> Places]
  /\ outcome \in [Conns -> Outcomes]
  /\ steady \in [Conns -> SUBSET Targets]

Init ==
  /\ created = {}
  /\ serverMap = [t \in Targets |-> 0]
  /\ process = [s \in Servers |-> "down"]
  /\ session = [s \in Servers |-> 0]
  /\ linked = {}
  /\ asked = [s \in Servers |-> 0]
  /\ inbox = [k \in Conns |-> <<>>]
  /\ loop = [k \in Conns |-> Idle]
  /\ outcome = [k \in Conns |-> NoOutcome]
  /\ steady = [k \in Conns |-> {}]

\* Discover is done with all that the sessions of s sent.
AllHandled(s) == \A k \in Conns : k[1] = s => inbox[k] = <<>> /\ loop[k] = Idle
-------------------------------------------------------------------------------
(* The processes, over their connections. *)

\* DiscoverClient.clientActive: register is the first request of a session.
Connect(s) ==
  /\ s \notin linked /\ session[s] < MaxSession
  /\ Cardinality({k \in Conns : k[2] <= session[k[1]]}) < MaxConns
  /\ s \in Overlapping \/ AllHandled(s)
  /\ process' = [process EXCEPT ![s] = "up"]
  /\ session' = [session EXCEPT ![s] = @ + 1]
  /\ linked' = linked \cup {s}
  /\ asked' = [asked EXCEPT ![s] = 0]
  /\ inbox' = [inbox EXCEPT ![<<s, session'[s]>>] = <<Request("register", s)>>]
  /\ UNCHANGED <<registry, handlers>>

\* DiscoverClient.getServiceInfo.
Ask(s, target) ==
  /\ s \in linked /\ asked[s] < MaxAsks
  /\ asked' = [asked EXCEPT ![s] = @ + 1]
  /\ inbox' = [inbox EXCEPT ![Current(s)] = Append(@, Request("getServiceInfo", target))]
  /\ UNCHANGED <<registry, process, session, linked, handlers>>

\* DiscoverClient.destroy: unregister is the last request of a session.
Destroy(s) ==
  /\ s \in linked
  /\ process' = [process EXCEPT ![s] = "stopped"]
  /\ linked' = linked \ {s}
  /\ inbox' = [inbox EXCEPT ![Current(s)] = Append(@, Request("unregister", s))]
  /\ UNCHANGED <<registry, session, asked, handlers>>

\* The process or its connection dies; what discover had not received is lost.
Crash(s) ==
  /\ s \in linked
  /\ process' = [process EXCEPT ![s] = "crashed"]
  /\ linked' = linked \ {s}
  /\ \E n \in 0 .. Len(inbox[Current(s)]) :
       inbox' = [inbox EXCEPT ![Current(s)] = SubSeq(@, 1, n)]
  /\ UNCHANGED <<registry, session, asked, handlers>>

\* Discover itself is started again, with an empty map; every connection breaks
\* and its clients will connect again.
RestartDiscover ==
  /\ created' = {}
  /\ serverMap' = [t \in Targets |-> 0]
  /\ linked' = {}
  /\ inbox' = [k \in Conns |-> <<>>]
  /\ loop' = [k \in Conns |-> Idle]
  /\ outcome' = [k \in Conns |-> NoOutcome]
  /\ steady' = [k \in Conns |-> {}]
  /\ UNCHANGED <<process, session, asked>>
-------------------------------------------------------------------------------
(* The event loop of connection k. *)

Reads(k, method) ==
  /\ loop[k] = Idle /\ inbox[k] # <<>> /\ Head(inbox[k]).method = method
  /\ inbox' = [inbox EXCEPT ![k] = Tail(@)]

Goto(k, state) == loop' = [loop EXCEPT ![k] = state]

Ends(k, result) == Goto(k, Idle) /\ outcome' = [outcome EXCEPT ![k] = result]

\* Mutation: only the first server of a type is put.
RegisterFirst(k) ==
  /\ Reads(k, "register")
  /\ LET target == Head(inbox[k]).target
     IN  /\ created' = created \cup {target[1]}
         /\ Goto(k, IF target[1] \in created THEN Idle ELSE At("put", target))
  /\ UNCHANGED <<serverMap, processes, outcome, steady>>

\* register: computeIfAbsent, then put.
Register(k) ==
  /\ Reads(k, "register")
  /\ LET target == Head(inbox[k]).target
     IN  created' = created \cup {target[1]} /\ Goto(k, At("put", target))
  /\ UNCHANGED <<serverMap, processes, outcome, steady>>

PutServer(k) ==
  /\ loop[k].pc = "put"
  /\ serverMap' = [serverMap EXCEPT ![loop[k].target] = k[2]]
  /\ Goto(k, Idle)
  /\ UNCHANGED <<created, processes, inbox, outcome, steady>>

\* Mutation: the test for a missing map is inverted.
UnregisterInverted(k) ==
  /\ Reads(k, "unregister")
  /\ LET target == Head(inbox[k]).target
     IN  Goto(k, IF target[1] \notin created THEN At("remove", target) ELSE Idle)
  /\ UNCHANGED <<registry, processes, outcome, steady>>

\* unregister: get, then remove from the map of the type, if there is one.
Unregister(k) ==
  /\ Reads(k, "unregister")
  /\ LET target == Head(inbox[k]).target
     IN  Goto(k, IF target[1] \in created THEN At("remove", target) ELSE Idle)
  /\ UNCHANGED <<registry, processes, outcome, steady>>

\* Mutation: the map of the type is emptied.
RemoveAll(k) ==
  /\ loop[k].pc = "remove"
  /\ serverMap' = [t \in Targets |-> IF t[1] = loop[k].target[1] THEN 0 ELSE serverMap[t]]
  /\ steady' = [j \in Conns |-> steady[j] \ {t \in Targets : serverMap'[t] = 0}]
  /\ Goto(k, Idle)
  /\ UNCHANGED <<created, processes, inbox, outcome>>

RemoveServer(k) ==
  /\ loop[k].pc = "remove"
  /\ serverMap' = [serverMap EXCEPT ![loop[k].target] = 0]
  /\ steady' = [j \in Conns |-> steady[j] \ {loop[k].target}]
  /\ Goto(k, Idle)
  /\ UNCHANGED <<created, processes, inbox, outcome>>

\* getServiceInfo: UNKNOWN if the type has no map; else the server of that id;
\* else the first one the iterator meets; and without any, next() throws and
\* Invoker.invoke makes that a null, for which nothing is sent.
GetServiceInfo(k) ==
  /\ Reads(k, "getServiceInfo")
  /\ LET target == Head(inbox[k]).target
     IN  /\ steady' = [steady EXCEPT ![k] = InMap(target[1])]
         /\ IF target[1] \in created
            THEN Goto(k, At("get", target)) /\ UNCHANGED outcome
            ELSE Ends(k, Unknown(target))
  /\ UNCHANGED <<registry, processes>>

\* Mutation: no substitute, the id asked for or nothing.
GetExact(k) ==
  /\ loop[k].pc = "get"
  /\ LET target == loop[k].target
     IN  Ends(k, IF serverMap[target] # 0 THEN Found(target, target) ELSE Unknown(target))
  /\ UNCHANGED <<registry, processes, inbox, steady>>

GetServer(k) ==
  /\ loop[k].pc = "get"
  /\ LET target == loop[k].target
     IN  IF serverMap[target] # 0 THEN Ends(k, Found(target, target))
         ELSE Goto(k, At("iterate", target)) /\ UNCHANGED outcome
  /\ UNCHANGED <<registry, processes, inbox, steady>>

FirstServer(k) ==
  /\ loop[k].pc = "iterate"
  /\ LET target == loop[k].target
     IN  \/ \E svr \in InMap(target[1]) : Ends(k, Found(target, svr))
         \/ InMap(target[1]) = {} /\ Ends(k, Unanswered(target))
  /\ UNCHANGED <<registry, processes, inbox, steady>>

Handle(k) ==
  \/ Register(k) \/ PutServer(k) \/ Unregister(k) \/ RemoveServer(k)
  \/ GetServiceInfo(k) \/ GetServer(k) \/ FirstServer(k)

Next ==
  \/ \E s \in Servers :
       Connect(s) \/ Destroy(s) \/ Crash(s) \/ \E t \in Targets : Ask(s, t)
  \/ RestartDiscover
  \/ \E k \in Conns : Handle(k)

Spec == Init /\ [][Next]_vars
-------------------------------------------------------------------------------
(* Correctness. *)

\* While a server of a type stays registered, a query for the type is answered
\* with a server, and a query for that very server with its host and port,
\* however registrations of other servers come and go during the query.
LookupFindsServer ==
  \A k \in Conns :
    loop[k] = Idle /\ outcome[k] # NoOutcome /\ steady[k] # {} =>
      /\ outcome[k].kind = "found"
      /\ outcome[k].target \in steady[k] => outcome[k].host = outcome[k].target

\* Why: the servers that were there when the query began are still in the map
\* when the query comes to look, and a type that has servers has a map.
Looking(k) == loop[k].pc \in {"get", "iterate"}
TypesMapped == \A t \in Targets : serverMap[t] # 0 => t[1] \in created
SteadyAt(k) ==
  /\ loop[k].pc = "put" => loop[k].target[1] \in created
  /\ \A t \in steady[k] : serverMap[t] # 0
  /\ Looking(k) => \A t \in steady[k] : t[1] = loop[k].target[1]
  /\ loop[k].pc = "iterate" => loop[k].target \notin steady[k]
  /\ ~Looking(k) /\ outcome[k] # NoOutcome /\ steady[k] # {} =>
       /\ outcome[k].kind = "found"
       /\ outcome[k].target \in steady[k] => outcome[k].host = outcome[k].target
SteadyInMap == TypesMapped /\ \A k \in Conns : SteadyAt(k)

\* When discover has handled all that the sessions of a server sent, one session
\* after the other, it knows the server in its latest session if that is connected,
\* and not at all if it was destroyed, whatever the sessions of other servers do;
\* only a crash leaves a register message behind.
RegistryFollowsSessions ==
  \A s \in Servers \ Overlapping : AllHandled(s) =>
    /\ s \in linked => serverMap[s] = session[s]
    /\ process[s] = "stopped" => serverMap[s] = 0

\* However the connections of its sessions overtake each other, a server that is
\* connected loses its registration only by the unregister of an earlier session of
\* its own, handled late: never by what another server does.
OnlyOwnUnregisterRemoves ==
  [][\A s \in linked \cap linked' :
       serverMap[s] # 0 /\ serverMap'[s] = 0 =>
         \E n \in 1 .. session[s] - 1 : loop[<<s, n>>].pc = "remove"]_vars
==============================================================================
