------------------------ MODULE DiscoverHandlerProofs ------------------------
(***************************************************************************)
(* Theorems about DiscoverHandler for any servers, sessions and queries:   *)
(* a query finds the servers that stay, and the registry follows the       *)
(* sessions of a server.                                                   *)
(***************************************************************************)
EXTENDS DiscoverHandler, TLAPS

\* A connection of a server that has connected is one of Conns.
LEMMA CurrentIsConn ==
  ASSUME TypeOK, NEW s \in Servers, session[s] # 0
  PROVE  Current(s) \in Conns
  BY TargetAssumption DEF TypeOK, Sessions, Conns, Current

\* Every variable keeps its type, and only a session that was opened is linked.
TypeInv == TypeOK /\ \A s \in linked : session[s] # 0

LEMMA TypeStep == TypeInv /\ [Next]_vars => TypeInv'
<1> SUFFICES ASSUME TypeInv, [Next]_vars PROVE TypeInv'
  OBVIOUS
<1> USE TargetAssumption DEF TypeInv, TypeOK
<1>1. ASSUME NEW s \in Servers, Connect(s) PROVE TypeInv'
  <2>1. session[s] + 1 \in Sessions \ {0} /\ <<s, session[s] + 1>> \in Conns
    BY <1>1 DEF Connect, Sessions, Conns
  <2>2. Request("register", s) \in Requests
    BY DEF Request, Requests
  <2>3. session' = [session EXCEPT ![s] = @ + 1] /\ session'[s] = session[s] + 1
    BY <1>1 DEF Connect
  <2>4. inbox' \in [Conns -> Seq(Requests)]
    BY <1>1, <2>1, <2>2, <2>3 DEF Connect
  <2>5. QED BY <1>1, <2>1, <2>3, <2>4 DEF Connect, registry, handlers
<1>2. ASSUME NEW s \in Servers, NEW t \in Targets, Ask(s, t) PROVE TypeInv'
  <2>1. Current(s) \in Conns
    BY <1>2, CurrentIsConn DEF Ask
  <2>2. Request("getServiceInfo", t) \in Requests
    BY DEF Request, Requests
  <2>3. inbox' \in [Conns -> Seq(Requests)]
    BY <1>2, <2>1, <2>2 DEF Ask
  <2>4. asked' \in [Servers -> 0 .. MaxAsks]
    BY <1>2 DEF Ask
  <2>5. QED BY <1>2, <2>3, <2>4 DEF Ask, registry, handlers
<1>3. ASSUME NEW s \in Servers, Destroy(s) PROVE TypeInv'
  <2>1. Current(s) \in Conns
    BY <1>3, CurrentIsConn DEF Destroy
  <2>2. Request("unregister", s) \in Requests
    BY DEF Request, Requests
  <2>3. inbox' \in [Conns -> Seq(Requests)]
    BY <1>3, <2>1, <2>2 DEF Destroy
  <2>4. QED BY <1>3, <2>3 DEF Destroy, registry, handlers
<1>4. ASSUME NEW s \in Servers, Crash(s) PROVE TypeInv'
  <2>1. Current(s) \in Conns
    BY <1>4, CurrentIsConn DEF Crash
  <2>2. \A n \in 0 .. Len(inbox[Current(s)]) :
          SubSeq(inbox[Current(s)], 1, n) \in Seq(Requests)
    BY <2>1
  <2>3. inbox' \in [Conns -> Seq(Requests)]
    BY <1>4, <2>1, <2>2 DEF Crash
  <2>4. QED BY <1>4, <2>3 DEF Crash, registry, handlers
<1>5. CASE RestartDiscover
  BY <1>5 DEF RestartDiscover, Places, Outcomes, Sessions
<1>6. ASSUME NEW k \in Conns, Handle(k) PROVE TypeInv'
  <2> DEFINE target == Head(inbox[k]).target
  <2> USE DEF processes, registry
  <2>0. ASSUME inbox[k] # <<>>
        PROVE /\ target \in Targets /\ target[1] \in Types
              /\ Tail(inbox[k]) \in Seq(Requests)
    <3>1. inbox[k] \in Seq(Requests) /\ Head(inbox[k]) \in Requests
      BY <2>0
    <3>2. Tail(inbox[k]) \in Seq(Requests)
      BY <2>0, <3>1
    <3>3. QED BY <3>1, <3>2 DEF Types, Requests
  <2>1. CASE Register(k)
    <3>1. At("put", target) \in Places
      BY <2>0, <2>1 DEF Register, Reads, At, Places
    <3>2. QED BY <2>0, <2>1, <3>1 DEF Register, Reads, Goto
  <2>2. CASE PutServer(k)
    BY <2>2 DEF PutServer, Goto, Places, Idle, Conns, Sessions
  <2>3. CASE Unregister(k)
    <3>1. At("remove", target) \in Places /\ Idle \in Places
      BY <2>0, <2>3 DEF Unregister, Reads, At, Places
    <3>2. QED BY <2>0, <2>3, <3>1 DEF Unregister, Reads, Goto
  <2>4. CASE RemoveServer(k)
    BY <2>4 DEF RemoveServer, Goto, Places, Idle, Sessions
  <2>5. CASE GetServiceInfo(k)
    <3>1. /\ At("get", target) \in Places /\ Idle \in Places
          /\ Unknown(target) \in Outcomes
      BY <2>0, <2>5 DEF GetServiceInfo, Reads, At, Places, Unknown, Outcomes
    <3>2. InMap(target[1]) \subseteq Targets
      BY DEF InMap
    <3>3. QED BY <2>0, <2>5, <3>1, <3>2 DEF GetServiceInfo, Reads, Ends, Goto
  <2>6. CASE GetServer(k)
    <3> DEFINE t == loop[k].target
    <3>1. t \in Targets /\ At("iterate", t) \in Places /\ Idle \in Places
      BY <2>6 DEF GetServer, Places, Idle, At
    <3>2. serverMap[t] # 0 => Found(t, t) \in Outcomes
      BY <3>1 DEF Found, Outcomes
    <3>3. QED BY <2>6, <3>1, <3>2 DEF GetServer, Ends, Goto
  <2>7. CASE FirstServer(k)
    <3> DEFINE t == loop[k].target
    <3>1. t \in Targets /\ Idle \in Places /\ Unanswered(t) \in Outcomes
      BY <2>7 DEF FirstServer, Places, Idle, Unanswered, Outcomes
    <3>2. \A svr \in InMap(t[1]) : Found(t, svr) \in Outcomes
      BY <3>1 DEF Found, Outcomes, InMap
    <3>3. QED BY <2>7, <3>1, <3>2 DEF FirstServer, Ends, Goto
  <2>8. QED BY <1>6, <2>1, <2>2, <2>3, <2>4, <2>5, <2>6, <2>7 DEF Handle
<1>7. CASE UNCHANGED vars
  BY <1>7 DEF vars, registry, processes, handlers
<1>8. QED BY <1>1, <1>2, <1>3, <1>4, <1>5, <1>6, <1>7 DEF Next

LEMMA TypeInit == Init => TypeInv
  BY TargetAssumption DEF Init, TypeInv, TypeOK, Places, Outcomes, Sessions

\* Every variable of the discover service and its clients keeps its type.
THEOREM DiscoverTypeCorrect == Spec => []TypeOK
<1>1. TypeInv => TypeOK
  BY DEF TypeInv
<1>2. QED BY <1>1, TypeInit, TypeStep, PTL DEF Spec
-------------------------------------------------------------------------------
(* Lookups. *)

\* A connection that does not move keeps what it has while servers are only put
\* or drop out of its steady set.
LEMMA SteadyFrame ==
  ASSUME NEW k \in Conns, SteadyAt(k), loop'[k] = loop[k], outcome'[k] = outcome[k],
         created \subseteq created', steady'[k] \subseteq steady[k],
         \A t \in steady'[k] : serverMap'[t] # 0
  PROVE  SteadyAt(k)'
  BY DEF SteadyAt, Looking

LEMMA SteadyStep == TypeInv /\ SteadyInMap /\ [Next]_vars => SteadyInMap'
<1> SUFFICES ASSUME TypeInv, SteadyInMap, [Next]_vars PROVE SteadyInMap'
  OBVIOUS
<1> USE TargetAssumption DEF TypeInv, TypeOK
<1>0. /\ \A j \in Conns : SteadyAt(j) /\ steady[j] \subseteq Targets
      /\ \A j \in Conns : \A t \in steady[j] : serverMap[t] # 0
  BY DEF SteadyInMap, SteadyAt
<1>1. CASE UNCHANGED <<registry, handlers>>
  BY <1>1 DEF registry, handlers, SteadyInMap, TypesMapped, SteadyAt, Looking
<1>2. CASE RestartDiscover
  <2>1. /\ \A t \in Targets : serverMap'[t] = 0
        /\ \A k \in Conns : loop'[k] = Idle /\ steady'[k] = {}
    BY <1>2 DEF RestartDiscover
  <2>2. QED BY <2>1 DEF SteadyInMap, TypesMapped, SteadyAt, Looking, Idle
<1>3. ASSUME NEW k \in Conns, Handle(k) PROVE SteadyInMap'
  <2> DEFINE target == Head(inbox[k]).target
             t      == loop[k].target
  <2> USE DEF Goto
  <2>0. SteadyAt(k) /\ TypesMapped
    BY DEF SteadyInMap
  <2>1. CASE Register(k)
    <3>1. /\ created' = created \cup {target[1]} /\ loop[k] = Idle
          /\ loop'[k] = At("put", target) /\ \A j \in Conns \ {k} : loop'[j] = loop[j]
          /\ UNCHANGED <<serverMap, outcome, steady>>
      BY <2>1 DEF Register, Reads
    <3>2. TypesMapped'
      BY <2>0, <3>1 DEF TypesMapped
    <3>3. SteadyAt(k)'
      BY <2>0, <3>1 DEF SteadyAt, Looking, At, Idle
    <3>4. \A j \in Conns \ {k} : SteadyAt(j)'
      BY <1>0, <3>1, SteadyFrame
    <3>5. QED BY <3>2, <3>3, <3>4 DEF SteadyInMap
  <2>2. CASE PutServer(k)
    <3>1. /\ k[2] # 0
          /\ \A u \in Targets : serverMap'[u] = IF u = t THEN k[2] ELSE serverMap[u]
      BY <2>2 DEF PutServer, Conns
    <3>2. /\ loop[k].pc = "put" /\ loop'[k] = Idle
          /\ \A j \in Conns \ {k} : loop'[j] = loop[j]
          /\ UNCHANGED <<created, outcome, steady>>
      BY <2>2 DEF PutServer
    <3>3. \A j \in Conns : \A u \in steady'[j] : serverMap'[u] # 0
      BY <1>0, <3>1, <3>2
    <3>4. TypesMapped'
      BY <2>0, <3>1, <3>2 DEF TypesMapped, SteadyAt
    <3>5. SteadyAt(k)'
      BY <2>0, <3>2, <3>3 DEF SteadyAt, Looking, Idle
    <3>6. \A j \in Conns \ {k} : SteadyAt(j)'
      BY <1>0, <3>2, <3>3, SteadyFrame
    <3>7. QED BY <3>4, <3>5, <3>6 DEF SteadyInMap
  <2>3. CASE Unregister(k)
    <3>1. /\ loop[k] = Idle /\ loop'[k].pc \notin {"put", "get", "iterate"}
          /\ \A j \in Conns \ {k} : loop'[j] = loop[j]
          /\ UNCHANGED <<created, serverMap, outcome, steady>>
      BY <2>3 DEF Unregister, Reads, registry, At, Idle
    <3>2. TypesMapped' /\ SteadyAt(k)'
      BY <2>0, <3>1 DEF TypesMapped, SteadyAt, Looking, Idle
    <3>3. \A j \in Conns \ {k} : SteadyAt(j)'
      BY <1>0, <3>1, SteadyFrame
    <3>4. QED BY <3>2, <3>3 DEF SteadyInMap
  <2>4. CASE RemoveServer(k)
    <3>1. /\ \A u \in Targets : serverMap'[u] = IF u = t THEN 0 ELSE serverMap[u]
          /\ \A j \in Conns : steady'[j] = steady[j] \ {t}
      BY <2>4 DEF RemoveServer
    <3>2. /\ loop[k].pc = "remove" /\ loop'[k] = Idle
          /\ \A j \in Conns \ {k} : loop'[j] = loop[j]
          /\ UNCHANGED <<created, outcome>>
      BY <2>4 DEF RemoveServer
    <3>3. \A j \in Conns : \A u \in steady'[j] : serverMap'[u] # 0
      <4>1. ASSUME NEW j \in Conns, NEW u \in steady'[j] PROVE serverMap'[u] # 0
        <5>1. u \in steady[j] /\ u # t
          BY <3>1, <4>1
        <5>2. u \in Targets /\ serverMap[u] # 0
          BY <1>0, <5>1
        <5>3. QED BY <3>1, <5>1, <5>2
      <4>2. QED BY <4>1
    <3>4. TypesMapped'
      BY <2>0, <3>1, <3>2 DEF TypesMapped
    <3>5. SteadyAt(k)'
      BY <2>0, <3>1, <3>2, <3>3 DEF SteadyAt, Looking, Idle
    <3>6. \A j \in Conns \ {k} : SteadyAt(j)'
      BY <1>0, <3>1, <3>2, <3>3, SteadyFrame
    <3>7. QED BY <3>4, <3>5, <3>6 DEF SteadyInMap
  <2>5. CASE GetServiceInfo(k)
    <3>1. /\ steady'[k] = InMap(target[1]) /\ UNCHANGED <<created, serverMap>>
          /\ \A j \in Conns \ {k} : /\ loop'[j] = loop[j] /\ outcome'[j] = outcome[j]
                                    /\ steady'[j] = steady[j]
      BY <2>5 DEF GetServiceInfo, Ends, registry
    <3>2. target[1] \in created => SteadyAt(k)'
      <4>1. target[1] \in created => loop'[k] = At("get", target)
        BY <2>5 DEF GetServiceInfo
      <4>2. QED BY <3>1, <4>1 DEF SteadyAt, Looking, At, InMap
    <3>3. target[1] \notin created => SteadyAt(k)'
      <4>1. target[1] \notin created => loop'[k] = Idle /\ steady'[k] = {}
        BY <2>0, <2>5, <3>1 DEF GetServiceInfo, Ends, InMap, TypesMapped
      <4>2. QED BY <3>1, <4>1 DEF SteadyAt, Looking, Idle
    <3>4. SteadyAt(k)'
      BY <3>2, <3>3
    <3>5. \A j \in Conns \ {k} : SteadyAt(j)'
      BY <1>0, <3>1, SteadyFrame
    <3>6. QED BY <2>0, <3>1, <3>4, <3>5 DEF SteadyInMap, TypesMapped
  <2>6. CASE GetServer(k)
    <3>1. /\ loop[k].pc = "get" /\ UNCHANGED <<created, serverMap, steady>>
          /\ \A j \in Conns \ {k} : loop'[j] = loop[j] /\ outcome'[j] = outcome[j]
      BY <2>6 DEF GetServer, Ends, registry
    <3>2. serverMap[t] # 0 => SteadyAt(k)'
      <4>1. serverMap[t] # 0 => loop'[k] = Idle /\ outcome'[k] = Found(t, t)
        BY <2>6 DEF GetServer, Ends
      <4>2. QED BY <2>0, <3>1, <4>1 DEF SteadyAt, Looking, Idle, Found
    <3>3. serverMap[t] = 0 => SteadyAt(k)'
      <4>1. serverMap[t] = 0 => loop'[k] = At("iterate", t) /\ t \notin steady[k]
        BY <2>0, <2>6, <3>1 DEF GetServer, SteadyAt
      <4>2. QED BY <2>0, <3>1, <4>1 DEF SteadyAt, Looking, At
    <3>4. SteadyAt(k)'
      BY <3>2, <3>3
    <3>5. \A j \in Conns \ {k} : SteadyAt(j)'
      BY <1>0, <3>1, SteadyFrame
    <3>6. QED BY <2>0, <3>1, <3>4, <3>5 DEF SteadyInMap, TypesMapped
  <2>7. CASE FirstServer(k)
    <3>1. /\ loop[k].pc = "iterate" /\ UNCHANGED <<created, serverMap, steady>>
          /\ loop'[k] = Idle
          /\ \A j \in Conns \ {k} : loop'[j] = loop[j] /\ outcome'[j] = outcome[j]
      BY <2>7 DEF FirstServer, Ends, registry
    <3>2. t \notin steady[k] /\ steady[k] \subseteq InMap(t[1])
      BY <1>0, <2>0, <3>1 DEF SteadyAt, Looking, InMap
    <3>3. steady[k] # {} => outcome'[k].kind = "found" /\ outcome'[k].target = t
      BY <2>7, <3>2 DEF FirstServer, Ends, Found
    <3>4. SteadyAt(k)'
      BY <2>0, <3>1, <3>2, <3>3 DEF SteadyAt, Looking, Idle
    <3>5. \A j \in Conns \ {k} : SteadyAt(j)'
      BY <1>0, <3>1, SteadyFrame
    <3>6. QED BY <2>0, <3>1, <3>4, <3>5 DEF SteadyInMap, TypesMapped
  <2>8. QED BY <1>3, <2>1, <2>2, <2>3, <2>4, <2>5, <2>6, <2>7 DEF Handle
<1>4. QED
  BY <1>1, <1>2, <1>3 DEF Next, vars, Connect, Ask, Destroy, Crash

\* For any number of servers that come, go and crash while a query runs: one that
\* stays is found.
THEOREM LookupsFind == Spec => []LookupFindsServer
<1>1. Init => TypeInv /\ SteadyInMap
  BY TypeInit DEF Init, SteadyInMap, TypesMapped, SteadyAt, Looking, Idle
<1>2. TypeInv /\ SteadyInMap /\ [Next]_vars => (TypeInv /\ SteadyInMap)'
  BY TypeStep, SteadyStep
<1>3. SteadyInMap => LookupFindsServer
  BY DEF SteadyInMap, SteadyAt, LookupFindsServer, Looking, Idle
<1>4. QED BY <1>1, <1>2, <1>3, PTL DEF Spec
-------------------------------------------------------------------------------
(* How the registry follows the sessions of a server. *)

LEMMA LenZero ==
  ASSUME NEW q \in Seq(Requests)
  PROVE  q = <<>> <=> Len(q) = 0
  OBVIOUS

LEMMA AppendIsLast ==
  ASSUME NEW q \in Seq(Requests), NEW m \in Requests
  PROVE  /\ Len(Append(q, m)) = Len(q) + 1 /\ Len(q) \in Nat /\ Append(q, m) # <<>>
         /\ \A n \in 1 .. Len(q) : Append(q, m)[n] = q[n]
         /\ Append(q, m)[Len(q) + 1] = m
  OBVIOUS

LEMMA TailIsPart ==
  ASSUME NEW q \in Seq(Requests), q # <<>>
  PROVE  \A n \in 1 .. Len(Tail(q)) : n + 1 \in 1 .. Len(q) /\ Tail(q)[n] = q[n + 1]
  OBVIOUS

(* Sessions that overlap. *)

\* Connection k will remove nothing.
Quiet(k) == /\ loop[k].pc # "remove"
            /\ \A n \in 1 .. Len(inbox[k]) : inbox[k][n].method # "unregister"

\* Connection k puts and removes no other server than its own.
OwnChange(k) ==
  /\ loop[k].pc \in {"put", "remove"} => loop[k].target = k[1]
  /\ \A n \in 1 .. Len(inbox[k]) :
       inbox[k][n].method # "getServiceInfo" => inbox[k][n].target = k[1]

\* The connection of a session that is connected, or is to come, will remove nothing.
Latest(k) == k[2] > session[k[1]] \/ (k[1] \in linked /\ k[2] = session[k[1]])

RemovalAt(k) == OwnChange(k) /\ (Latest(k) => Quiet(k))
Removals == \A k \in Conns : RemovalAt(k)

LEMMA RemovalFrame ==
  ASSUME NEW k \in Conns, RemovalAt(k), inbox'[k] = inbox[k], loop'[k] = loop[k],
         Latest(k)' => Latest(k)
  PROVE  RemovalAt(k)'
  BY DEF RemovalAt, OwnChange, Quiet

LEMMA RemovalStep == TypeInv /\ Removals /\ [Next]_vars => Removals'
<1> SUFFICES ASSUME TypeInv, Removals, [Next]_vars PROVE Removals'
  OBVIOUS
<1> USE TargetAssumption DEF TypeInv, TypeOK
<1>0. \A k \in Conns : RemovalAt(k) /\ k[1] \in Servers /\ k[2] \in Sessions
  BY DEF Removals, Conns, Sessions
<1>1. ASSUME NEW s \in Servers, Connect(s) PROVE Removals'
  <2>0. PICK k \in Conns : k = <<s, session[s] + 1>>
    BY <1>1 DEF Connect, Conns, Sessions
  <2>1. session'[s] = session[s] + 1 /\ inbox'[k] = <<Request("register", s)>>
    BY <1>1, <2>0 DEF Connect
  <2>2. Quiet(k) /\ loop' = loop
    BY <1>0, <1>1, <2>0 DEF Connect, RemovalAt, Latest, handlers, Sessions
  <2>3. RemovalAt(k)'
    BY <1>0, <2>0, <2>1, <2>2 DEF RemovalAt, OwnChange, Quiet, Request
  <2>4. ASSUME NEW j \in Conns \ {k} PROVE RemovalAt(j)'
    <3>1. inbox'[j] = inbox[j]
      BY <1>1, <2>0, <2>1, <2>4 DEF Connect
    <3>2. Latest(j)' => Latest(j)
      <4>1. CASE j[1] = s
        BY <1>0, <1>1, <2>0, <2>1, <2>4, <4>1 DEF Latest, Conns, Sessions
      <4>2. CASE j[1] # s
        BY <1>0, <1>1, <4>2 DEF Latest, Connect
      <4>3. QED BY <4>1, <4>2
    <3>3. QED BY <1>0, <2>2, <3>1, <3>2, RemovalFrame
  <2>5. QED BY <2>3, <2>4 DEF Removals
<1>2. ASSUME NEW s \in Servers, NEW t \in Targets, Ask(s, t) PROVE Removals'
  <2>0. PICK k \in Conns : k = Current(s)
    BY <1>2, CurrentIsConn DEF Ask
  <2>1. UNCHANGED <<session, linked, loop>>
    BY <1>2 DEF Ask, handlers
  <2>2. inbox'[k] = Append(inbox[k], Request("getServiceInfo", t)) /\ inbox[k] \in Seq(Requests)
    BY <1>2, <2>0 DEF Ask
  <2>3. RemovalAt(k)'
    BY <1>0, <2>1, <2>2 DEF RemovalAt, Latest, OwnChange, Quiet, Request
  <2>4. \A j \in Conns \ {k} : RemovalAt(j)'
    BY <1>0, <1>2, <2>0, <2>1, RemovalFrame DEF Ask, Latest
  <2>5. QED BY <2>3, <2>4 DEF Removals
<1>3. ASSUME NEW s \in Servers, Destroy(s) PROVE Removals'
  <2>0. PICK k \in Conns : k = Current(s)
    BY <1>3, CurrentIsConn DEF Destroy
  <2>1. UNCHANGED <<session, loop>> /\ linked' = linked \ {s}
    BY <1>3 DEF Destroy, handlers
  <2>2. inbox'[k] = Append(inbox[k], Request("unregister", s)) /\ inbox[k] \in Seq(Requests)
    BY <1>3, <2>0 DEF Destroy
  <2>3. ~Latest(k)' /\ k[1] = s
    BY <1>0, <2>0, <2>1 DEF Latest, Current, Sessions
  <2>4. RemovalAt(k)'
    BY <1>0, <2>1, <2>2, <2>3 DEF RemovalAt, OwnChange, Request
  <2>5. \A j \in Conns \ {k} : RemovalAt(j)'
    BY <1>0, <1>3, <2>0, <2>1, RemovalFrame DEF Destroy, Latest
  <2>6. QED BY <2>4, <2>5 DEF Removals
<1>4. ASSUME NEW s \in Servers, Crash(s) PROVE Removals'
  <2>0. PICK k \in Conns : k = Current(s)
    BY <1>4, CurrentIsConn DEF Crash
  <2>1. UNCHANGED <<session, loop>> /\ linked' = linked \ {s}
    BY <1>4 DEF Crash, handlers
  <2>2. PICK n \in 0 .. Len(inbox[k]) : inbox' = [inbox EXCEPT ![k] = SubSeq(@, 1, n)]
    BY <1>4, <2>0 DEF Crash
  <2>3. inbox'[k] = SubSeq(inbox[k], 1, n) /\ inbox[k] \in Seq(Requests)
    BY <2>1, <2>2
  <2>4. ~Latest(k)'
    BY <1>0, <2>0, <2>1 DEF Latest, Current, Sessions
  <2>5. RemovalAt(k)'
    BY <1>0, <2>1, <2>3, <2>4 DEF RemovalAt, OwnChange
  <2>6. \A j \in Conns \ {k} : RemovalAt(j)'
    BY <1>0, <2>1, <2>2, RemovalFrame DEF Latest
  <2>7. QED BY <2>5, <2>6 DEF Removals
<1>5. CASE RestartDiscover
  BY <1>5 DEF RestartDiscover, Removals, RemovalAt, OwnChange, Quiet, Idle
<1>6. ASSUME NEW k \in Conns, Handle(k) PROVE Removals'
  <2> DEFINE head == Head(inbox[k])
  <2>1. UNCHANGED <<session, linked>> /\ \A j \in Conns : Latest(j)' = Latest(j)
    BY <1>6 DEF Handle, Register, PutServer, Unregister, RemoveServer, GetServiceInfo,
                GetServer, FirstServer, processes, Latest
  <2>2. \A j \in Conns \ {k} : inbox'[j] = inbox[j] /\ loop'[j] = loop[j]
    BY <1>6 DEF Handle, Register, PutServer, Unregister, RemoveServer, GetServiceInfo,
                GetServer, FirstServer, Reads, Goto, Ends
  <2>3. \/ inbox'[k] = inbox[k]
        \/ inbox[k] # <<>> /\ inbox'[k] = Tail(inbox[k])
    BY <1>6 DEF Handle, Register, PutServer, Unregister, RemoveServer, GetServiceInfo,
                GetServer, FirstServer, Reads
  <2>4. \/ loop'[k].pc \notin {"put", "remove"}
        \/ /\ inbox[k] # <<>> /\ head.method # "getServiceInfo"
           /\ loop'[k].pc = "remove" => head.method = "unregister"
           /\ loop'[k].target = head.target
    BY <1>6 DEF Handle, Register, PutServer, Unregister, RemoveServer, GetServiceInfo,
                GetServer, FirstServer, Reads, Goto, Ends, At, Idle
  <2>5. inbox[k] \in Seq(Requests)
    OBVIOUS
  <2>6. inbox[k] # <<>> => 1 \in 1 .. Len(inbox[k]) /\ head = inbox[k][1]
    BY <2>5
  <2>7. \A n \in 1 .. Len(inbox'[k]) : \E m \in 1 .. Len(inbox[k]) : inbox'[k][n] = inbox[k][m]
    BY <2>3, <2>5, TailIsPart
  <2>8. OwnChange(k)'
    BY <1>0, <2>4, <2>6, <2>7 DEF RemovalAt, OwnChange
  <2>9. Quiet(k) => Quiet(k)'
    BY <2>4, <2>6, <2>7 DEF Quiet
  <2>10. \A j \in Conns \ {k} : RemovalAt(j)'
    BY <1>0, <2>1, <2>2, RemovalFrame
  <2>11. QED BY <1>0, <2>1, <2>8, <2>9, <2>10 DEF Removals, RemovalAt
<1>7. CASE UNCHANGED vars
  BY <1>7 DEF vars, processes, handlers, Removals, RemovalAt, OwnChange, Quiet, Latest
<1>8. QED BY <1>1, <1>2, <1>3, <1>4, <1>5, <1>6, <1>7 DEF Next

LEMMA RemovalInit == Init => Removals
  BY DEF Init, Removals, RemovalAt, OwnChange, Quiet, Idle

\* A step that takes a connected server out of the map is that of an earlier session.
LEMMA RemovalIsOwn ==
  TypeInv /\ Removals /\ [Next]_vars =>
    [\A s \in linked \cap linked' :
       serverMap[s] # 0 /\ serverMap'[s] = 0 =>
         \E n \in 1 .. session[s] - 1 : loop[<<s, n>>].pc = "remove"]_vars
<1> SUFFICES ASSUME TypeInv, Removals, Next,
                    NEW s \in linked \cap linked', serverMap[s] # 0, serverMap'[s] = 0
             PROVE  \E n \in 1 .. session[s] - 1 : loop[<<s, n>>].pc = "remove"
  OBVIOUS
<1> USE TargetAssumption DEF TypeInv, TypeOK
<1>1. s \in Servers /\ s \in Targets
  OBVIOUS
<1>2. ~RestartDiscover
  BY DEF RestartDiscover
<1>3. PICK k \in Conns : Handle(k)
  BY <1>2 DEF Next, Connect, Ask, Destroy, Crash, registry
<1>4. ~PutServer(k)
  BY <1>1 DEF PutServer, Conns
<1>5. RemoveServer(k)
  BY <1>1, <1>3, <1>4 DEF Handle, Register, Unregister, GetServiceInfo, GetServer, FirstServer,
                    registry
<1>6. loop[k].pc = "remove" /\ loop[k].target = s
  BY <1>1, <1>5 DEF RemoveServer
<1>7. k[1] = s /\ ~Latest(k)
  BY <1>6 DEF Removals, RemovalAt, OwnChange, Quiet
<1>8. k = <<s, k[2]>> /\ k[2] \in 1 .. session[s] - 1
  BY <1>1, <1>7 DEF Latest, Conns, Sessions
<1>9. QED BY <1>6, <1>8

\* However many sessions of however many servers overlap, a connected server loses its
\* registration only by the late unregister of an earlier session of its own.
THEOREM OnlyOwnRemoves == Spec => OnlyOwnUnregisterRemoves
<1>1. Init => TypeInv /\ Removals
  BY TypeInit, RemovalInit
<1>2. TypeInv /\ Removals /\ [Next]_vars => (TypeInv /\ Removals)'
  BY TypeStep, RemovalStep
<1>3. QED BY <1>1, <1>2, RemovalIsOwn, PTL DEF Spec, OnlyOwnUnregisterRemoves
-------------------------------------------------------------------------------
(* Sessions one after the other, whatever those of other servers do. *)

OrderedConns == {k \in Conns : k[1] \notin Overlapping}

\* All that discover has still to handle is of the latest session of a server.
PastHandled ==
  \A k \in OrderedConns : k[2] # session[k[1]] => inbox[k] = <<>> /\ loop[k] = Idle

\* register is the first request of a session, unregister its last.
Shape(k) ==
  /\ loop[k].pc = "remove" => inbox[k] = <<>>
  /\ \A n \in 1 .. Len(inbox[k]) :
       /\ inbox[k][n].method = "register" => n = 1 /\ loop[k] = Idle
       /\ inbox[k][n].method = "unregister" => n = Len(inbox[k])

Ending(k) == Len(inbox[k]) > 0 /\ inbox[k][Len(inbox[k])].method = "unregister"

\* The connection of a connected server has the register ahead of it, or is putting the
\* server, or has put it; that of a destroyed one the unregister, or has removed it.
LinkedAt(k) ==
  k[1] \in linked =>
    /\ Quiet(k)
    /\ \/ inbox[k] # <<>> /\ inbox[k][1].method = "register"
       \/ loop[k].pc = "put"
       \/ serverMap[k[1]] = k[2]
StoppedAt(k) ==
  process[k[1]] = "stopped" =>
    \/ Ending(k) \/ loop[k].pc = "remove"
    \/ serverMap[k[1]] = 0 /\ inbox[k] = <<>> /\ loop[k] = Idle

SessionAt(k) == Shape(k) /\ (k[2] = session[k[1]] => LinkedAt(k) /\ StoppedAt(k))

Sequential ==
  /\ TypeInv /\ SteadyInMap /\ Removals
  /\ \A s \in linked : process[s] = "up"
  /\ \A s \in Servers : process[s] = "stopped" => session[s] # 0
  /\ PastHandled /\ \A k \in OrderedConns : SessionAt(k)

LEMMA SessionFrame ==
  ASSUME NEW k \in Conns, SessionAt(k), inbox'[k] = inbox[k], loop'[k] = loop[k],
         k[2] = session'[k[1]] =>
           /\ k[2] = session[k[1]]
           /\ k[1] \in linked' => k[1] \in linked
           /\ process'[k[1]] = "stopped" => process[k[1]] = "stopped"
           /\ serverMap'[k[1]] = serverMap[k[1]]
  PROVE  SessionAt(k)'
  BY DEF SessionAt, Shape, LinkedAt, StoppedAt, Quiet, Ending

\* The event loop of a connection puts and removes its own server only.
LEMMA HandleOwn ==
  ASSUME TypeInv, Removals, NEW k \in Conns, Handle(k)
  PROVE  \A t \in Targets \ {k[1]} : serverMap'[t] = serverMap[t]
  BY DEF Handle, Register, PutServer, Unregister, RemoveServer, GetServiceInfo, GetServer,
         FirstServer, registry, Removals, RemovalAt, OwnChange, TypeInv, TypeOK

\* A step of the event loop of a connection leaves its session in order.
LEMMA HandleSession ==
  ASSUME Sequential, NEW k \in OrderedConns, Handle(k)
  PROVE  k[2] = session[k[1]] /\ SessionAt(k)'
<1> USE TargetAssumption DEF Sequential, TypeInv, TypeOK, Goto
<1> DEFINE head == Head(inbox[k])
<1>0. /\ Shape(k) /\ OwnChange(k) /\ k \in Conns /\ k[1] \in Targets /\ k[2] # 0
      /\ inbox[k] \in Seq(Requests) /\ loop[k] \in Places
  BY DEF SessionAt, Conns, OrderedConns, Removals, RemovalAt
<1>1. k[2] = session[k[1]]
  <2>1. inbox[k] # <<>> \/ loop[k] # Idle
    BY DEF Handle, Register, PutServer, Unregister, RemoveServer, GetServiceInfo, GetServer,
           FirstServer, Reads, Idle
  <2>2. QED BY <2>1 DEF PastHandled
<1>2. LinkedAt(k) /\ StoppedAt(k)
  BY <1>1 DEF SessionAt
<1>3. ASSUME inbox[k] # <<>>
      PROVE  /\ 1 \in 1 .. Len(inbox[k]) /\ head = inbox[k][1] /\ head \in Requests
             /\ \A n \in 1 .. Len(Tail(inbox[k])) :
                  n + 1 \in 1 .. Len(inbox[k]) /\ Tail(inbox[k])[n] = inbox[k][n + 1]
             /\ Len(Tail(inbox[k])) = Len(inbox[k]) - 1
             /\ Ending(k) /\ head.method # "unregister" =>
                  /\ Len(Tail(inbox[k])) > 0
                  /\ Tail(inbox[k])[Len(Tail(inbox[k]))].method = "unregister"
  <2>1. Len(inbox[k]) \in Nat /\ Len(inbox[k]) > 0 /\ head = inbox[k][1] /\ head \in Requests
    BY <1>0, <1>3
  <2>2. Len(Tail(inbox[k])) = Len(inbox[k]) - 1 /\ Tail(inbox[k]) \in Seq(Requests)
    BY <1>0, <1>3
  <2>3. \A n \in 1 .. Len(Tail(inbox[k])) :
          n + 1 \in 1 .. Len(inbox[k]) /\ Tail(inbox[k])[n] = inbox[k][n + 1]
    BY <1>0, <1>3, TailIsPart
  <2>4. ASSUME Ending(k), head.method # "unregister"
        PROVE  /\ Len(Tail(inbox[k])) > 0
               /\ Tail(inbox[k])[Len(Tail(inbox[k]))].method = "unregister"
    <3>1. Len(inbox[k]) > 1
      BY <2>1, <2>4 DEF Ending
    <3>2. Len(Tail(inbox[k])) > 0
      BY <2>1, <2>2, <3>1
    <3>3. QED BY <2>1, <2>2, <2>3, <2>4, <3>1, <3>2 DEF Ending
  <2>5. QED BY <2>1, <2>2, <2>3, <2>4
<1>4. CASE Register(k)
  <2>1. /\ loop[k] = Idle /\ inbox[k] # <<>> /\ head.method = "register"
        /\ inbox'[k] = Tail(inbox[k]) /\ loop'[k] = At("put", head.target)
        /\ UNCHANGED <<serverMap, processes>>
    BY <1>0, <1>4 DEF Register, Reads
  <2>2. Shape(k)'
    BY <1>0, <1>3, <2>1 DEF Shape, At
  <2>3. LinkedAt(k)' /\ StoppedAt(k)'
    BY <1>2, <1>3, <2>1 DEF LinkedAt, StoppedAt, Quiet, Ending, At, Idle, processes
  <2>4. QED BY <1>1, <2>1, <2>2, <2>3 DEF SessionAt
<1>5. CASE PutServer(k)
  <2>1. /\ loop[k].pc = "put" /\ loop[k].target = k[1] /\ loop'[k] = Idle
        /\ serverMap' = [serverMap EXCEPT ![k[1]] = k[2]] /\ UNCHANGED <<processes, inbox>>
    BY <1>0, <1>5 DEF PutServer, OwnChange
  <2>2. Shape(k)'
    BY <1>0, <2>1 DEF Shape, Idle
  <2>3. LinkedAt(k)' /\ StoppedAt(k)'
    BY <1>0, <1>2, <2>1 DEF LinkedAt, StoppedAt, Quiet, Ending, Idle, processes
  <2>4. QED BY <1>1, <2>1, <2>2, <2>3 DEF SessionAt
<1>6. CASE Unregister(k)
  <2>1. /\ loop[k] = Idle /\ inbox[k] # <<>> /\ head.method = "unregister"
        /\ inbox'[k] = Tail(inbox[k]) /\ UNCHANGED <<serverMap, processes>>
        /\ loop'[k] = IF head.target[1] \in created THEN At("remove", head.target) ELSE Idle
    BY <1>0, <1>6 DEF Unregister, Reads, registry
  <2>2. head.target = k[1] /\ Len(inbox[k]) = 1 /\ k[1] \notin linked
    <3>1. 1 \in 1 .. Len(inbox[k]) /\ inbox[k][1].method = "unregister" /\ head = inbox[k][1]
      BY <1>3, <2>1
    <3>2. inbox[k][1].target = k[1] /\ 1 = Len(inbox[k])
      BY <1>0, <3>1 DEF Shape, OwnChange
    <3>3. QED BY <1>2, <3>1, <3>2 DEF LinkedAt, Quiet
  <2>3. inbox'[k] = <<>>
    <3>1. Tail(inbox[k]) \in Seq(Requests) /\ Len(Tail(inbox[k])) = 0
      BY <1>0, <1>3, <2>1, <2>2
    <3>2. QED BY <2>1, <3>1, LenZero
  <2>4. k[1][1] \notin created => serverMap[k[1]] = 0
    BY <1>0 DEF SteadyInMap, TypesMapped
  <2>5. Shape(k)'
    BY ONLY <2>3 DEF Shape
  <2>6. LinkedAt(k)' /\ StoppedAt(k)'
    <3>1. UNCHANGED <<linked, serverMap>>
      BY <2>1 DEF processes
    <3>2. \/ loop'[k].pc = "remove"
          \/ loop'[k] = Idle /\ serverMap'[k[1]] = 0
      BY <2>1, <2>2, <2>4, <3>1 DEF At
    <3>3. QED BY <2>2, <2>3, <3>1, <3>2 DEF LinkedAt, StoppedAt
  <2>7. QED BY <1>1, <2>1, <2>5, <2>6 DEF SessionAt
<1>7. CASE RemoveServer(k)
  <2>1. /\ loop[k].pc = "remove" /\ loop[k].target = k[1] /\ loop'[k] = Idle
        /\ serverMap' = [serverMap EXCEPT ![k[1]] = 0] /\ UNCHANGED <<processes, inbox>>
        /\ inbox[k] = <<>>
    BY <1>0, <1>7 DEF RemoveServer, Shape, OwnChange
  <2>2. Shape(k)'
    BY <2>1 DEF Shape, Idle
  <2>3. LinkedAt(k)' /\ StoppedAt(k)'
    BY <1>0, <1>2, <2>1 DEF LinkedAt, StoppedAt, Quiet, processes
  <2>4. QED BY <1>1, <2>1, <2>2, <2>3 DEF SessionAt
<1>8. CASE GetServiceInfo(k)
  <2>1. /\ loop[k] = Idle /\ inbox[k] # <<>> /\ head.method = "getServiceInfo"
        /\ inbox'[k] = Tail(inbox[k]) /\ UNCHANGED <<serverMap, processes>>
        /\ loop'[k] = Idle \/ loop'[k] = At("get", head.target)
    BY <1>0, <1>8 DEF GetServiceInfo, Reads, Ends, registry
  <2>2. Shape(k)'
    BY ONLY <1>0, <1>3, <2>1 DEF Shape, At, Idle
  <2>3. LinkedAt(k)' /\ StoppedAt(k)'
    BY <1>2, <1>3, <2>1 DEF LinkedAt, StoppedAt, Quiet, Ending, At, Idle, processes
  <2>4. QED BY <1>1, <2>1, <2>2, <2>3 DEF SessionAt
<1>9. CASE GetServer(k) \/ FirstServer(k)
  <2>1. /\ loop[k].pc \in {"get", "iterate"} /\ UNCHANGED <<serverMap, processes, inbox>>
        /\ loop'[k] = Idle \/ loop'[k] = At("iterate", loop[k].target)
    BY <1>0, <1>9 DEF GetServer, FirstServer, Ends, registry
  <2>2. Shape(k)'
    BY <1>0, <2>1 DEF Shape, At, Idle
  <2>3. LinkedAt(k)' /\ StoppedAt(k)'
    <3>1. inbox[k] # <<>> => inbox[k][1].method # "register"
      BY <1>0, <1>3, <2>1 DEF Shape, Idle
    <3>2. QED BY <1>2, <2>1, <3>1 DEF LinkedAt, StoppedAt, Quiet, Ending, At, Idle, processes
  <2>4. QED BY <1>1, <2>1, <2>2, <2>3 DEF SessionAt
<1>10. QED BY <1>1, <1>4, <1>5, <1>6, <1>7, <1>8, <1>9 DEF Handle

LEMMA SequentialStep == Sequential /\ [Next]_vars => Sequential'
<1> SUFFICES ASSUME Sequential, [Next]_vars PROVE Sequential'
  OBVIOUS
<1> USE TargetAssumption DEF Sequential
<1>0. TypeInv' /\ SteadyInMap' /\ Removals'
  BY TypeStep, SteadyStep, RemovalStep
<1> USE DEF TypeInv, TypeOK
<1>1. ASSUME NEW s \in Servers, Connect(s) PROVE Sequential'
  <2>0. PICK k \in Conns : k = <<s, session[s] + 1>>
    BY <1>1 DEF Connect, Conns, Sessions
  <2>1. /\ session' = [session EXCEPT ![s] = k[2]] /\ linked' = linked \cup {s}
        /\ process' = [process EXCEPT ![s] = "up"]
        /\ inbox' = [inbox EXCEPT ![k] = <<Request("register", s)>>]
        /\ UNCHANGED <<serverMap, loop>> /\ k[1] = s /\ k[2] # session[s] /\ k[2] # 0
    BY <1>1, <2>0 DEF Connect, registry, handlers, Sessions
  <2>2. s \notin Overlapping => \A j \in Conns : j[1] = s => inbox[j] = <<>> /\ loop[j] = Idle
    BY <1>1 DEF Connect, AllHandled
  <2>3. PastHandled'
    BY <2>0, <2>1, <2>2 DEF PastHandled, Conns, OrderedConns
  <2>4. k \in OrderedConns => SessionAt(k)'
    BY <2>1, <2>2 DEF OrderedConns, SessionAt, Shape, LinkedAt, StoppedAt, Quiet, Request, Idle
  <2>5. ASSUME NEW j \in OrderedConns \ {k} PROVE SessionAt(j)'
    <3>1. j[1] = s => j[2] # session'[s]
      BY <2>0, <2>1, <2>5 DEF Conns, OrderedConns
    <3>2. QED BY <2>1, <2>5, <3>1, SessionFrame DEF Conns, OrderedConns
  <2>6. QED BY <1>0, <2>1, <2>3, <2>4, <2>5
<1>2. ASSUME NEW s \in Servers, NEW k \in Conns, k = Current(s), s \in linked,
             NEW message \in Requests,
             message.method # "register",
             message.method # "getServiceInfo" => message.target = s,
             inbox' = [inbox EXCEPT ![k] = Append(@, message)],
             UNCHANGED <<registry, session, loop>>,
             \/ UNCHANGED <<process, linked>> /\ message.method = "getServiceInfo"
             \/ /\ process' = [process EXCEPT ![s] = "stopped"] /\ linked' = linked \ {s}
                /\ message.method = "unregister"
      PROVE  Sequential'
  <2>1. k[1] = s /\ k[2] = session[s] /\ process[s] = "up" /\ inbox[k] \in Seq(Requests)
    BY <1>2 DEF Current
  <2>2. k \in OrderedConns => LinkedAt(k) /\ Shape(k)
    BY <2>1 DEF SessionAt
  <2>3. /\ inbox'[k] = Append(inbox[k], message) /\ Len(inbox'[k]) = Len(inbox[k]) + 1
        /\ Len(inbox[k]) \in Nat /\ inbox'[k] # <<>>
        /\ \A n \in 1 .. Len(inbox[k]) : inbox'[k][n] = inbox[k][n]
        /\ inbox'[k][Len(inbox[k]) + 1] = message
    <3>1. inbox'[k] = Append(inbox[k], message) /\ inbox[k] \in Seq(Requests)
      BY <1>2, <2>1
    <3>2. message \in Requests
      OBVIOUS
    <3>3. QED BY ONLY <3>1, <3>2, AppendIsLast
  <2>4. \A n \in 1 .. Len(inbox'[k]) : n \in 1 .. Len(inbox[k]) \/ n = Len(inbox[k]) + 1
    BY <2>3
  <2>5. k \in OrderedConns => Shape(k)'
    BY <1>2, <2>1, <2>2, <2>3, <2>4 DEF Shape, LinkedAt, Quiet
  <2>6. ASSUME k \in OrderedConns PROVE LinkedAt(k)' /\ StoppedAt(k)'
    <3>1. CASE message.method = "getServiceInfo"
      <4>0. Quiet(k) /\ loop' = loop
        BY <1>2, <2>1, <2>2, <2>6 DEF LinkedAt
      <4>1. Quiet(k)'
        BY ONLY <2>3, <2>4, <3>1, <4>0 DEF Quiet
      <4>2. inbox[k] # <<>> => inbox'[k][1] = inbox[k][1]
        BY <2>1, <2>3, LenZero
      <4>3. QED
        BY <1>2, <2>1, <2>2, <2>3, <2>6, <3>1, <4>1, <4>2 DEF LinkedAt, StoppedAt, registry
    <3>2. CASE message.method = "unregister"
      BY <1>2, <2>1, <2>3, <3>2 DEF LinkedAt, StoppedAt, Ending
    <3>3. QED BY <1>2, <3>1, <3>2
  <2>7. ASSUME NEW j \in OrderedConns \ {k} PROVE SessionAt(j)'
    <3>1. j[1] = s => j[2] # session[s]
      BY <1>2, <2>1, <2>7 DEF Conns, OrderedConns, Current
    <3>2. QED BY <1>2, <2>7, <3>1, SessionFrame DEF Conns, OrderedConns, registry
  <2>8. PastHandled'
    BY <1>2, <2>1 DEF PastHandled, OrderedConns
  <2>9. session[s] # 0
    BY <1>2
  <2>10. QED BY <1>0, <1>2, <2>5, <2>6, <2>7, <2>8, <2>9 DEF SessionAt
<1>3. ASSUME NEW s \in Servers, NEW t \in Targets, Ask(s, t) PROVE Sequential'
  <2>0. PICK k \in Conns : k = Current(s)
    BY <1>3, CurrentIsConn DEF Ask
  <2> DEFINE message == Request("getServiceInfo", t)
  <2>1. message \in Requests
    BY DEF Request, Requests
  <2>2. s \in linked /\ inbox' = [inbox EXCEPT ![k] = Append(@, message)]
    BY <1>3, <2>0 DEF Ask
  <2>3. message.method # "register" /\ (message.method # "getServiceInfo" => message.target = s)
    BY DEF Request
  <2>4. UNCHANGED <<registry, session, loop>>
    BY <1>3 DEF Ask, handlers
  <2>5. \/ UNCHANGED <<process, linked>> /\ message.method = "getServiceInfo"
        \/ /\ process' = [process EXCEPT ![s] = "stopped"] /\ linked' = linked \ {s}
           /\ message.method = "unregister"
    BY <1>3 DEF Ask, Request
  <2> HIDE DEF message
  <2>6. QED BY <1>2, <2>0, <2>1, <2>2, <2>3, <2>4, <2>5
<1>4. ASSUME NEW s \in Servers, Destroy(s) PROVE Sequential'
  <2>0. PICK k \in Conns : k = Current(s)
    BY <1>4, CurrentIsConn DEF Destroy
  <2> DEFINE message == Request("unregister", s)
  <2>1. message \in Requests
    BY DEF Request, Requests
  <2>2. s \in linked /\ inbox' = [inbox EXCEPT ![k] = Append(@, message)]
    BY <1>4, <2>0 DEF Destroy
  <2>3. message.method # "register" /\ (message.method # "getServiceInfo" => message.target = s)
    BY DEF Request
  <2>4. UNCHANGED <<registry, session, loop>>
    BY <1>4 DEF Destroy, handlers
  <2>5. \/ UNCHANGED <<process, linked>> /\ message.method = "getServiceInfo"
        \/ /\ process' = [process EXCEPT ![s] = "stopped"] /\ linked' = linked \ {s}
           /\ message.method = "unregister"
    BY <1>4 DEF Destroy, Request
  <2> HIDE DEF message
  <2>6. QED BY <1>2, <2>0, <2>1, <2>2, <2>3, <2>4, <2>5
<1>5. ASSUME NEW s \in Servers, Crash(s) PROVE Sequential'
  <2>0. PICK k \in Conns : k = Current(s)
    BY <1>5, CurrentIsConn DEF Crash
  <2>1. /\ UNCHANGED <<registry, session, loop>> /\ linked' = linked \ {s}
        /\ process' = [process EXCEPT ![s] = "crashed"]
        /\ k[1] = s /\ k[2] = session[s] /\ s \in linked
    BY <1>5, <2>0 DEF Crash, handlers, Current
  <2>2. PICK n \in 0 .. Len(inbox[k]) : inbox' = [inbox EXCEPT ![k] = SubSeq(@, 1, n)]
    BY <1>5, <2>0 DEF Crash
  <2>3. /\ inbox'[k] = SubSeq(inbox[k], 1, n) /\ inbox[k] \in Seq(Requests)
        /\ Len(inbox'[k]) = n /\ Len(inbox'[k]) <= Len(inbox[k])
        /\ \A m \in 1 .. n : m \in 1 .. Len(inbox[k]) /\ inbox'[k][m] = inbox[k][m]
        /\ inbox[k] = <<>> => inbox'[k] = <<>>
    BY <2>2
  <2>4. k \in OrderedConns => Shape(k) /\ LinkedAt(k)
    BY <2>1 DEF SessionAt
  <2>5. k \in OrderedConns => Shape(k)'
    BY <2>1, <2>3, <2>4 DEF Shape, LinkedAt, Quiet
  <2>6. LinkedAt(k)' /\ StoppedAt(k)'
    BY <2>1 DEF LinkedAt, StoppedAt
  <2>7. ASSUME NEW j \in OrderedConns \ {k} PROVE SessionAt(j)'
    <3>1. j[1] = s => j[2] # session[s]
      BY <2>0, <2>1, <2>7 DEF Conns, OrderedConns, Current
    <3>2. QED BY <2>1, <2>2, <2>7, <3>1, SessionFrame DEF Conns, OrderedConns, registry
  <2>8. PastHandled'
    BY <2>1, <2>2 DEF PastHandled, OrderedConns
  <2>9. QED BY <1>0, <2>1, <2>5, <2>6, <2>7, <2>8 DEF SessionAt
<1>6. CASE RestartDiscover
  <2>1. /\ \A k \in Conns : inbox'[k] = <<>> /\ loop'[k] = Idle
        /\ \A t \in Targets : serverMap'[t] = 0
        /\ linked' = {} /\ UNCHANGED <<process, session>>
    BY <1>6 DEF RestartDiscover
  <2>2. \A k \in OrderedConns : SessionAt(k)'
    BY <2>1 DEF SessionAt, Shape, LinkedAt, StoppedAt, Idle, Conns, OrderedConns
  <2>3. QED BY <1>0, <2>1, <2>2 DEF PastHandled, OrderedConns
<1>7. ASSUME NEW k \in Conns, Handle(k) PROVE Sequential'
  <2>1. /\ k \in OrderedConns => k[2] = session[k[1]] /\ SessionAt(k)'
        /\ \A t \in Targets \ {k[1]} : serverMap'[t] = serverMap[t]
    BY <1>7, HandleSession, HandleOwn
  <2>2. UNCHANGED processes
    BY <1>7 DEF Handle, Register, PutServer, Unregister, RemoveServer, GetServiceInfo,
                GetServer, FirstServer
  <2>3. \A j \in Conns \ {k} : inbox'[j] = inbox[j] /\ loop'[j] = loop[j]
    BY <1>7 DEF Handle, Register, PutServer, Unregister, RemoveServer, GetServiceInfo,
                GetServer, FirstServer, Reads, Goto, Ends
  <2>4. ASSUME NEW j \in OrderedConns \ {k} PROVE SessionAt(j)'
    <3>1. j[2] = session[j[1]] => j[1] \in Targets \ {k[1]}
      <4>1. j = <<j[1], j[2]>> /\ k = <<k[1], k[2]>> /\ j[1] \in Targets
        BY DEF Conns, OrderedConns
      <4>2. k \in OrderedConns \/ k[1] # j[1]
        BY DEF OrderedConns
      <4>3. QED BY <2>1, <2>4, <4>1, <4>2
    <3>2. QED BY <2>1, <2>2, <2>3, <2>4, <3>1, SessionFrame DEF processes, OrderedConns
  <2>5. PastHandled'
    BY <2>1, <2>2, <2>3 DEF PastHandled, processes, OrderedConns
  <2>6. QED BY <1>0, <2>1, <2>2, <2>4, <2>5 DEF processes
<1>8. CASE UNCHANGED vars
  <2>1. UNCHANGED <<inbox, loop, process, session, linked, serverMap>>
    BY <1>8 DEF vars, registry, processes, handlers
  <2>2. \A k \in OrderedConns : SessionAt(k)'
    BY <2>1, SessionFrame DEF OrderedConns
  <2>3. QED BY <1>0, <2>1, <2>2 DEF PastHandled, OrderedConns
<1>9. QED BY <1>1, <1>3, <1>4, <1>5, <1>6, <1>7, <1>8 DEF Next

LEMMA SequentialInit == Init => Sequential
<1> SUFFICES ASSUME Init PROVE Sequential
  OBVIOUS
<1>1. TypeInv
  BY TypeInit
<1>2. SteadyInMap
  BY DEF Init, SteadyInMap, TypesMapped, SteadyAt, Looking, Idle
<1>3. \A k \in OrderedConns : SessionAt(k)
  BY DEF Init, SessionAt, Shape, LinkedAt, StoppedAt, Idle, Conns, OrderedConns
<1>4. QED BY <1>1, <1>2, <1>3, RemovalInit DEF Sequential, Init, PastHandled, OrderedConns

LEMMA SequentialFollows == Sequential => RegistryFollowsSessions
<1> SUFFICES ASSUME Sequential, NEW s \in Servers \ Overlapping, AllHandled(s)
             PROVE  /\ s \in linked => serverMap[s] = session[s]
                    /\ process[s] = "stopped" => serverMap[s] = 0
  BY DEF RegistryFollowsSessions
<1>1. CASE session[s] = 0
  BY <1>1 DEF Sequential, TypeInv
<1>2. CASE session[s] # 0
  <2>1. PICK k \in Conns : k = Current(s)
    BY <1>2, CurrentIsConn DEF Sequential, TypeInv
  <2>2. k[1] = s /\ k[2] = session[s] /\ LinkedAt(k) /\ StoppedAt(k)
    BY <2>1 DEF Sequential, SessionAt, Current, OrderedConns
  <2>3. inbox[k] = <<>> /\ loop[k] = Idle
    BY <2>2 DEF AllHandled
  <2>4. QED BY <2>2, <2>3 DEF LinkedAt, StoppedAt, Ending, Idle
<1>3. QED BY <1>1, <1>2

\* With the sessions of a server one after the other, whatever crashes and whatever the
\* sessions of others do: once discover has handled what the server sent, it has the
\* server if it is connected, and not if it was destroyed.
THEOREM RegistryFollows == Spec => []RegistryFollowsSessions
<1>1. QED BY SequentialInit, SequentialStep, SequentialFollows, PTL DEF Spec
===============================================================================
