------------------------- MODULE ClientManagerProofs --------------------------
(***************************************************************************)
(* The broadcasts of RpcClientManger and what it forgets, for any clients, *)
(* threads, types and ids.                                                 *)
(*                                                                         *)
(* A client is only ever put under one key: its own, or that of the        *)
(* request that made it (EntryInv).  So a client that has stayed in the    *)
(* map since a broadcast began is still under the key it had then, and     *)
(* that key is in an iterator, or of a type still to come, or the client   *)
(* has been written to.  A client that was connected when the broadcast    *)
(* began and has lost its connection since never has one again, so that    *)
(* passing it over loses nothing (StayedInv, ReachInv).                    *)
(***************************************************************************)
EXTENDS ClientManager, TLAPS

All    == Clients \cup Threads
Places == {"idle", "get", "lookup", "connect", "putClient", "putChannel", "write",
           "types", "clients", "done", "null", "threw", "unconnected"}
\* The places of a request until it is over.
Requesting == {"get", "lookup", "connect", "putClient", "putChannel", "write"}

CallType == [at: Places, key: Keys \cup {None}, client: All \cup {None}]
IterType == [types: SUBSET Types, keys: SUBSET Keys, newType: BOOLEAN, changed: SUBSET Types]
TypeInv ==
  /\ map \in [Keys -> All \cup {None}]
  /\ types \subseteq Types /\ chan \subseteq Clients
  /\ conn \in [All -> {"new", "up", "down"}]
  /\ loop \in [Clients -> {"idle", "type", "put", "channel", "remove"}]
  /\ heard \subseteq Clients /\ ended \subseteq Clients /\ early \subseteq Clients
  /\ call \in [Threads -> CallType]
  /\ iter \in [Threads -> IterType]
  /\ sent \in [Threads -> SUBSET All]
  /\ stayed \in [Threads -> SUBSET All]

\* Where a call is and what it has.
CallInv ==
  \A t \in Threads :
    /\ call[t].at \in Requesting => call[t].key \in Keys
    /\ call[t].at \in {"putClient", "putChannel"} => call[t].client = t
    /\ call[t].at = "write" => call[t].client \in All
    /\ call[t].at \in Requesting \cup {"idle"} => stayed[t] = {}
    /\ call[t].at = "types" => iter[t].keys = {}

\* Who is in the map, and under which key.
OwnEntry(c) ==
  /\ conn[c] # "new" /\ c \in heard
  /\ \/ loop[c] \in {"channel", "remove"} \/ c \in early
     \/ loop[c] = "idle" /\ c \in chan /\ c \notin ended
EntryInv ==
  \A k \in Keys :
    /\ map[k] # None => k[1] \in types
    /\ map[k] \in Clients => k = Key[map[k]] /\ OwnEntry(map[k])
    /\ map[k] \in Threads => /\ k = call[map[k]].key
                             /\ call[map[k]].at \in {"putChannel", "write", "done", "null", "threw"}
LoopInv ==
  /\ \A c \in Clients :
       /\ loop[c] \in {"type", "put", "channel"} => conn[c] # "new" /\ c \in heard
       /\ loop[c] = "put" => Key[c][1] \in types
       /\ c \in ended => \/ c \in early
                         \/ c \in heard /\ loop[c] \notin {"type", "put", "channel"}
  /\ \A t \in Threads : call[t].at \in Requesting => call[t].key[1] \in types

\* An iterator that is not stale never comes to an entry that has been removed.
FreshInv ==
  \A t \in Threads : Iterating(t) =>
    \A k \in iter[t].keys : map[k] = None => k[1] \in iter[t].changed

\* Who has stayed is in the map, with a channel that is connected or was; the broadcast
\* comes to its key, or has been there.
Covered(t, k, x) == \/ Iterating(t) /\ (k \in iter[t].keys \/ k[1] \in iter[t].types)
                    \/ call[t].at = "threw"
                    \/ conn[x] = "up" => x \in sent[t]
ReachInv ==
  \A t \in Threads : \A x \in stayed[t] :
    \E k \in Keys : map[k] = x /\ Covered(t, k, x)
StayedInv == \A t \in Threads : \A x \in stayed[t] : conn[x] # "new"

Inv  == TypeInv /\ CallInv /\ EntryInv /\ LoopInv
IInv == Inv /\ FreshInv /\ StayedInv /\ ReachInv
-------------------------------------------------------------------------------
LEMMA InitInv == Init => IInv
<1> SUFFICES ASSUME Init PROVE IInv
  OBVIOUS
<1> USE ClientAssumption DEF Init, NoCall, NoIter, All
<1>1. TypeInv
  <2>1. NoCall \in CallType /\ NoIter \in IterType
    BY DEF CallType, IterType, Places
  <2>2. /\ call = [t \in Threads |-> NoCall] /\ iter = [t \in Threads |-> NoIter]
        /\ map = [k \in Keys |-> None]
    BY DEF Init
  <2>3. /\ conn \in [All -> {"new", "up", "down"}]
        /\ loop \in [Clients -> {"idle", "type", "put", "channel", "remove"}]
        /\ heard = {} /\ ended = {} /\ early = {}
        /\ sent \in [Threads -> SUBSET All] /\ stayed \in [Threads -> SUBSET All]
        /\ types \subseteq Types /\ chan \subseteq Clients
    OBVIOUS
  <2> QED
    BY <2>1, <2>2, <2>3 DEF TypeInv
<1>2. CallInv /\ LoopInv
  BY DEF CallInv, LoopInv, Requesting
<1>3. EntryInv
  BY DEF EntryInv
<1>4. FreshInv /\ StayedInv /\ ReachInv
  BY DEF FreshInv, StayedInv, ReachInv, Iterating
<1> QED
  BY <1>1, <1>2, <1>3, <1>4 DEF IInv, Inv

LEMMA Sub == All = Clients \cup Threads /\ Clients \subseteq All /\ Threads \subseteq All
BY DEF All

LEMMA KeyParts == \A k \in Keys : k[1] \in Types /\ k[2] \in Ids
BY DEF Keys

LEMMA OwnKey == \A c \in Clients : Key[c] \in Keys
BY ClientAssumption DEF Keys

LEMMA EnterTypes ==
  ASSUME TypeInv, NEW k \in Keys, NEW c \in All \cup {None}, Enter(k, c)
  PROVE  /\ map' \in [Keys -> All \cup {None}] /\ stayed' \in [Threads -> SUBSET All]
         /\ iter' \in [Threads -> IterType]
<1>1. map' \in [Keys -> All \cup {None}] /\ stayed' \in [Threads -> SUBSET All]
  BY DEF Enter, TypeInv
<1>2. iter' \in [Threads -> IterType]
  <2>1. CASE iter' = iter
    BY <2>1 DEF TypeInv
  <2>2. CASE iter' = [t \in Threads |-> IF Iterating(t) THEN [iter[t] EXCEPT !.changed = @ \cup {k[1]}]
                                      ELSE iter[t]]
    <3>1. \A t \in Threads : [iter[t] EXCEPT !.changed = @ \cup {k[1]}] \in IterType
      BY KeyParts DEF TypeInv, IterType
    <3> QED
      BY <2>2, <3>1 DEF TypeInv
  <2> QED
    BY <2>1, <2>2 DEF Enter
<1> QED
  BY <1>1, <1>2

LEMMA TypeMapTypes ==
  ASSUME TypeInv, NEW type \in Types, AddTypeMap(type)
  PROVE  /\ types' \subseteq Types
         /\ iter' \in [Threads -> IterType]
<1>1. \A t \in Threads : Iterating(t) \in BOOLEAN
  BY DEF Iterating
<1>2. \A t \in Threads : [iter[t] EXCEPT !.newType = Iterating(t)] \in IterType
  BY <1>1 DEF TypeInv, IterType
<1> QED
  BY <1>2 DEF AddTypeMap, TypeInv

\* What a call changes of its place and its iterators.
LEMMA GotoCall ==
  ASSUME TypeInv, NEW t \in Threads, NEW place \in Places, Goto(t, place)
  PROVE  /\ call' \in [Threads -> CallType]
         /\ call'[t].at = place /\ call'[t].key = call[t].key /\ call'[t].client = call[t].client
         /\ \A u \in Threads \ {t} : call'[u] = call[u]
BY DEF Goto, TypeInv, CallType

LEMMA NoIterType == NoIter \in IterType
BY DEF NoIter, IterType

LEMMA EndCall ==
  ASSUME TypeInv, NEW t \in Threads, NEW place \in Places, End(t, place)
  PROVE  /\ call' \in [Threads -> CallType] /\ iter' \in [Threads -> IterType]
         /\ call'[t].at = place /\ call'[t].key = call[t].key /\ iter'[t] = NoIter
         /\ \A u \in Threads \ {t} : call'[u] = call[u] /\ iter'[u] = iter[u]
<1>1. Goto(t, place) /\ iter' = [iter EXCEPT ![t] = NoIter]
  BY DEF End
<1> QED
  BY <1>1, GotoCall, NoIterType DEF TypeInv

LEMMA RequestCall ==
  ASSUME TypeInv, NEW t \in Threads, NEW place \in Places, NEW k \in Keys \cup {None},
         NEW c \in All \cup {None}, call' = [call EXCEPT ![t] = [at |-> place, key |-> k, client |-> c]]
  PROVE  /\ call' \in [Threads -> CallType]
         /\ call'[t].at = place /\ call'[t].key = k /\ call'[t].client = c
         /\ \A u \in Threads \ {t} : call'[u] = call[u]
BY DEF TypeInv, CallType

LEMMA PutClientCall ==
  ASSUME TypeInv, CallInv, NEW t \in Threads, PutClient(t)
  PROVE  /\ call[t].key \in Keys /\ stayed[t] = {} /\ call[t].client = t
         /\ call'[t].at = "putChannel" /\ call'[t].key = call[t].key /\ call'[t].client = t
         /\ \A u \in Threads \ {t} : call'[u] = call[u]
<1>1. call[t].at = "putClient" /\ Goto(t, "putChannel")
  BY DEF PutClient
<1>2. call[t].key \in Keys /\ stayed[t] = {} /\ call[t].client = t
  BY <1>1 DEF CallInv, Requesting
<1> QED
  BY <1>1, <1>2, GotoCall DEF Places

\* What connect makes of the call: the new client is the one it goes on with.
LEMMA ConnectCall ==
  ASSUME TypeInv, CallInv, NEW t \in Threads, ConnectClient(t)
  PROVE  /\ call[t].key \in Keys /\ stayed[t] = {} /\ call' \in [Threads -> CallType]
         /\ call'[t].at = "putClient" /\ call'[t].key = call[t].key /\ call'[t].client = t
         /\ \A u \in Threads \ {t} : call'[u] = call[u]
<1>1. call[t].key \in Keys /\ stayed[t] = {} /\ t \in All
  BY DEF ConnectClient, CallInv, Requesting, All
<1>2. call' = [call EXCEPT ![t] = [at |-> "putClient", key |-> call[t].key, client |-> t]]
  BY DEF ConnectClient
<1> QED
  BY <1>1, <1>2, RequestCall DEF Places

LEMMA IterSet ==
  ASSUME NEW r \in IterType
  PROVE  /\ \A b \in BOOLEAN : [r EXCEPT !.newType = b] \in IterType
         /\ \A K \in SUBSET Keys : [r EXCEPT !.keys = K] \in IterType
BY DEF IterType

LEMMA ConnectedTypes ==
  ASSUME TypeInv, NEW type \in Types
  PROVE  Connected(type) \subseteq All
<1> SUFFICES ASSUME NEW x \in Connected(type) PROVE x \in All
  OBVIOUS
<1>1. PICK id \in Ids : x = map[<<type, id>>] /\ x # None
  BY DEF Connected
<1>2. <<type, id>> \in Keys
  BY DEF Keys
<1> QED
  BY <1>1, <1>2 DEF TypeInv

LEMMA StepTypes ==
  ASSUME IInv, Next
  PROVE  TypeInv'
<1> USE ClientAssumption, Sub, KeyParts, OwnKey DEF TypeInv, IInv, Inv, loops
<1> USE DEF Places
<1>1. ASSUME NEW c \in Clients, Listener(c) \/ AddChannel(c) \/ RemoveChannel(c) PROVE TypeInv'
  BY <1>1 DEF Listener, AddChannel, RemoveChannel, Step
<1>0. ASSUME NEW c \in All, Up(c) \/ Down(c) \/ GetsChannel(c) PROVE TypeInv'
  BY <1>0 DEF Up, Down, GetsChannel
<1>2. ASSUME NEW c \in Clients, AddType(c) PROVE TypeInv'
  BY <1>2, TypeMapTypes DEF AddType, Step
<1>3. ASSUME NEW c \in Clients, AddToMap(c) \/ RemoveFromMap(c) PROVE TypeInv'
  BY <1>3, EnterTypes DEF AddToMap, RemoveFromMap, Step
<1>4. ASSUME NEW t \in Threads, NEW k \in Keys, Request(t, k) PROVE TypeInv'
  BY <1>4, TypeMapTypes, RequestCall DEF Request
<1>5. ASSUME NEW t \in Threads, GetClient(t) PROVE TypeInv'
  BY <1>5, RequestCall DEF GetClient, CallInv, Requesting, CallType
<1>6. ASSUME NEW t \in Threads, LookupFails(t) \/ PutChannel(t) PROVE TypeInv'
  BY <1>6, GotoCall DEF LookupFails, PutChannel
<1>7. ASSUME NEW t \in Threads, GetAgain(t) PROVE TypeInv'
  BY <1>7, GotoCall DEF GetAgain
<1>8. ASSUME NEW t \in Threads, ConnectClient(t) PROVE TypeInv'
  BY <1>8, ConnectCall DEF ConnectClient
<1>9. ASSUME NEW t \in Threads, PutClient(t) PROVE TypeInv'
  <2>1. call[t].key \in Keys /\ t \in All
    BY <1>9 DEF PutClient, CallInv, Requesting
  <2>2. /\ map' \in [Keys -> All \cup {None}] /\ stayed' \in [Threads -> SUBSET All]
        /\ iter' \in [Threads -> IterType]
    BY <1>9, <2>1, EnterTypes DEF PutClient
  <2>3. call' \in [Threads -> CallType]
    BY <1>9, GotoCall DEF PutClient
  <2> QED
    BY <1>9, <2>2, <2>3 DEF PutClient
<1>10. ASSUME NEW t \in Threads, WriteRequest(t) PROVE TypeInv'
  BY <1>10, GotoCall DEF WriteRequest, CallInv
<1>11. ASSUME NEW t \in Threads, Broadcast(t) PROVE TypeInv'
  <2>1. [NoIter EXCEPT !.types = types] \in IterType
    BY DEF NoIter, IterType
  <2>2. UNION {Connected(type) : type \in Types} \subseteq All
    BY ConnectedTypes
  <2> QED
    BY <1>11, <2>1, <2>2, GotoCall DEF Broadcast
<1>12. ASSUME NEW t \in Threads, NextType(t) PROVE TypeInv'
  <2>1. PICK type \in iter[t].types :
          iter' = [iter EXCEPT ![t] = [types |-> iter[t].types \ {type}, keys |-> KeysOf(type),
                                       newType |-> FALSE, changed |-> iter[t].changed \ {type}]]
    BY <1>12 DEF NextType
  <2>2. [types |-> iter[t].types \ {type}, keys |-> KeysOf(type),
         newType |-> FALSE, changed |-> iter[t].changed \ {type}] \in IterType
    BY DEF IterType, KeysOf
  <2> QED
    BY <1>12, <2>1, <2>2, GotoCall DEF NextType
<1>13. ASSUME NEW t \in Threads, BroadcastByType(t) PROVE TypeInv'
  <2>1. PICK type \in Types :
          /\ types' = types \cup {type}
          /\ iter' = [u \in Threads |->
                        IF u = t THEN [NoIter EXCEPT !.keys = KeysOf(type)]
                        ELSE [iter[u] EXCEPT !.newType = @ \/ (Iterating(u) /\ type \notin types)]]
          /\ stayed' = [stayed EXCEPT ![t] = Connected(type)]
    BY <1>13 DEF BroadcastByType
  <2>2. Connected(type) \subseteq All
    BY ConnectedTypes
  <2>3. [NoIter EXCEPT !.keys = KeysOf(type)] \in IterType
    BY DEF NoIter, IterType, KeysOf
  <2>4. \A u \in Threads :
          [iter[u] EXCEPT !.newType = @ \/ (Iterating(u) /\ type \notin types)] \in IterType
    <3> SUFFICES ASSUME NEW u \in Threads
                 PROVE  [iter[u] EXCEPT !.newType = @ \/ (Iterating(u) /\ type \notin types)] \in IterType
      OBVIOUS
    <3>1. PICK b \in BOOLEAN : b = (iter[u].newType \/ (Iterating(u) /\ type \notin types))
      OBVIOUS
    <3>2. iter[u] \in IterType
      OBVIOUS
    <3> QED
      BY <3>1, <3>2, IterSet
  <2>5. iter' \in [Threads -> IterType]
    BY <2>1, <2>3, <2>4
  <2> QED
    BY <1>13, <2>1, <2>2, <2>5, GotoCall DEF BroadcastByType
<1>14. ASSUME NEW t \in Threads, NextClient(t) PROVE TypeInv'
  <2>1. PICK k \in iter[t].keys :
          /\ iter' = [iter EXCEPT ![t].keys = @ \ {k}]
          /\ sent' = IF conn[map[k]] = "up" THEN [sent EXCEPT ![t] = @ \cup {map[k]}] ELSE sent
    BY <1>14 DEF NextClient
  <2>2. k \in Keys /\ map[k] \in All
    BY <1>14 DEF NextClient, Stale, FreshInv, Iterating, IterType
  <2>3. [iter[t] EXCEPT !.keys = @ \ {k}] \in IterType
    BY IterSet DEF IterType
  <2>4. iter' \in [Threads -> IterType] /\ sent' \in [Threads -> SUBSET All]
    BY <2>1, <2>2, <2>3
  <2> QED
    BY <1>14, <2>4 DEF NextClient
<1>15. ASSUME NEW t \in Threads, LastClient(t) PROVE TypeInv'
  BY <1>15, GotoCall, EndCall DEF LastClient
<1>16. ASSUME NEW t \in Threads, NoTypes(t) \/ Fail(t) PROVE TypeInv'
  BY <1>16, EndCall DEF NoTypes, Fail
<1> QED
  BY <1>0, <1>1, <1>2, <1>3, <1>4, <1>5, <1>6, <1>7, <1>8, <1>9, <1>10, <1>11, <1>12, <1>13, <1>14,
     <1>15, <1>16
     DEF Next, LoopStep, RequestStep, BroadcastStep

LEMMA EnterKeeps ==
  ASSUME TypeInv, NEW k \in Keys, NEW c \in All \cup {None}, Enter(k, c)
  PROVE  /\ map'[k] = c /\ \A j \in Keys \ {k} : map'[j] = map[j]
         /\ \A t \in Threads :
              /\ iter'[t].keys = iter[t].keys /\ iter'[t].types = iter[t].types
              /\ iter[t].changed \subseteq iter'[t].changed
              /\ Iterating(t) /\ map[k] # None /\ c = None => k[1] \in iter'[t].changed
              /\ stayed'[t] = stayed[t] \ ({map[k]} \ {c})
<1>1. \A t \in Threads : iter'[t] \in {iter[t], [iter[t] EXCEPT !.changed = @ \cup {k[1]}]}
  BY DEF Enter, TypeInv
<1>2. \A r \in IterType : LET s == [r EXCEPT !.changed = @ \cup {k[1]}]
                          IN  /\ s.keys = r.keys /\ s.types = r.types
                              /\ s.changed = r.changed \cup {k[1]}
  BY DEF IterType
<1>3. \A t \in Threads : /\ iter'[t].keys = iter[t].keys /\ iter'[t].types = iter[t].types
                         /\ iter[t].changed \subseteq iter'[t].changed
  <2> SUFFICES ASSUME NEW t \in Threads
               PROVE  /\ iter'[t].keys = iter[t].keys /\ iter'[t].types = iter[t].types
                      /\ iter[t].changed \subseteq iter'[t].changed
    OBVIOUS
  <2>1. PICK r \in IterType : r = iter[t]
    BY DEF TypeInv
  <2>2. CASE iter'[t] = r
    BY <2>1, <2>2
  <2>3. CASE iter'[t] = [r EXCEPT !.changed = @ \cup {k[1]}]
    BY <1>2, <2>1, <2>3
  <2> QED
    BY <1>1, <2>1, <2>2, <2>3
<1>4. ASSUME NEW t \in Threads, Iterating(t), map[k] # None, c = None
      PROVE  k[1] \in iter'[t].changed
  <2>1. iter'[t] = [iter[t] EXCEPT !.changed = @ \cup {k[1]}]
    BY <1>4 DEF Enter
  <2> QED
    BY <1>2, <2>1 DEF TypeInv
<1> QED
  BY <1>3, <1>4 DEF Enter, TypeInv

LEMMA TypeMapKeeps ==
  ASSUME TypeInv, NEW type \in Types, AddTypeMap(type)
  PROVE  /\ types' = types \cup {type}
         /\ \A t \in Threads : /\ iter'[t].keys = iter[t].keys /\ iter'[t].types = iter[t].types
                               /\ iter'[t].changed = iter[t].changed
BY DEF AddTypeMap, TypeInv, IterType

LEMMA ByTypeKeeps ==
  ASSUME TypeInv, NEW t \in Threads, BroadcastByType(t)
  PROVE  /\ \A u \in Threads \ {t} : /\ iter'[u].keys = iter[u].keys /\ iter'[u].types = iter[u].types
                                     /\ iter'[u].changed = iter[u].changed /\ stayed'[u] = stayed[u]
                                     /\ call'[u] = call[u]
         /\ \E type \in Types : /\ iter'[t].keys = KeysOf(type) /\ iter'[t].changed = {}
                                /\ stayed'[t] = Connected(type) /\ types' = types \cup {type}
         /\ call'[t].at = "clients" /\ call'[t].key = call[t].key
<1>1. /\ \A u \in Threads \ {t} : call'[u] = call[u]
      /\ call'[t].at = "clients" /\ call'[t].key = call[t].key
  BY GotoCall DEF BroadcastByType, Places
<1>2. PICK type \in Types :
        /\ types' = types \cup {type}
        /\ iter' = [u \in Threads |->
                      IF u = t THEN [NoIter EXCEPT !.keys = KeysOf(type)]
                      ELSE [iter[u] EXCEPT !.newType = @ \/ (Iterating(u) /\ type \notin types)]]
        /\ stayed' = [stayed EXCEPT ![t] = Connected(type)]
  BY DEF BroadcastByType
<1>3. iter'[t].keys = KeysOf(type) /\ iter'[t].changed = {}
  BY <1>2 DEF NoIter
<1>6. \A u \in Threads \ {t} : /\ iter'[u].keys = iter[u].keys /\ iter'[u].types = iter[u].types
                               /\ iter'[u].changed = iter[u].changed
  <2> SUFFICES ASSUME NEW u \in Threads \ {t}
               PROVE  /\ iter'[u].keys = iter[u].keys /\ iter'[u].types = iter[u].types
                      /\ iter'[u].changed = iter[u].changed
    OBVIOUS
  <2>1. PICK r \in IterType : r = iter[u]
    BY DEF TypeInv
  <2>2. PICK b \in BOOLEAN : b = (r.newType \/ (Iterating(u) /\ type \notin types))
    OBVIOUS
  <2>3. iter'[u] = [r EXCEPT !.newType = b]
    BY <1>2, <2>1, <2>2
  <2> QED
    BY <2>1, <2>3 DEF IterType
<1> QED
  BY <1>1, <1>2, <1>3, <1>6 DEF TypeInv

LEMMA StepCall ==
  ASSUME IInv, Next
  PROVE  CallInv'
<1> DEFINE CallOf(t) == /\ call[t].at \in Requesting => call[t].key \in Keys
                        /\ call[t].at \in {"putClient", "putChannel"} => call[t].client = t
                        /\ call[t].at = "write" => call[t].client \in All
                        /\ call[t].at \in Requesting \cup {"idle"} => stayed[t] = {}
                        /\ call[t].at = "types" => iter[t].keys = {}
           Less(t) == stayed'[t] \subseteq stayed[t] /\ iter'[t].keys = iter[t].keys
<1> USE Sub, KeyParts, OwnKey DEF IInv, Inv, loops
<1>a. \A t \in Threads : CallOf(t)
  BY DEF CallInv
<1>b. ASSUME call' = call, \A t \in Threads : Less(t)
      PROVE  CallInv'
  BY <1>a, <1>b DEF CallInv
<1>c. ASSUME NEW t \in Threads, CallOf(t)', \A u \in Threads \ {t} : call'[u] = call[u] /\ Less(u)
      PROVE  CallInv'
  BY <1>a, <1>c DEF CallInv
<1> HIDE DEF CallOf
<1>1. ASSUME NEW c \in Clients, Listener(c) \/ AddChannel(c) \/ RemoveChannel(c) PROVE CallInv'
  BY <1>1, <1>b DEF Listener, AddChannel, RemoveChannel
<1>2. ASSUME NEW c \in All, Up(c) \/ Down(c) \/ GetsChannel(c) PROVE CallInv'
  BY <1>2, <1>b DEF Up, Down, GetsChannel
<1>3. ASSUME NEW c \in Clients, AddType(c) PROVE CallInv'
  BY <1>3, <1>b, TypeMapKeeps DEF AddType
<1>4. ASSUME NEW c \in Clients, AddToMap(c) \/ RemoveFromMap(c) PROVE CallInv'
  <2>1. \A t \in Threads : Less(t)
    BY <1>4, EnterKeeps DEF AddToMap, RemoveFromMap
  <2> QED
    BY <1>4, <1>b, <2>1 DEF AddToMap, RemoveFromMap
<1>5. ASSUME NEW t \in Threads, NEW k \in Keys, Request(t, k) PROVE CallInv'
  <2>1. /\ call'[t].at = "get" /\ call'[t].key = k
        /\ \A u \in Threads \ {t} : call'[u] = call[u]
    BY <1>5, RequestCall DEF Request, Places
  <2>2. stayed' = stayed /\ stayed[t] = {} /\ \A u \in Threads : iter'[u].keys = iter[u].keys
    BY <1>5, <1>a, TypeMapKeeps DEF Request, CallOf
  <2> QED
    BY <1>c, <2>1, <2>2 DEF CallOf
<1>6. ASSUME NEW t \in Threads, GetClient(t) PROVE CallInv'
  <2> DEFINE c == map[call[t].key]
  <2>1. c \in All \cup {None} /\ call[t].key \in Keys /\ stayed[t] = {}
    BY <1>6, <1>a DEF GetClient, Requesting, TypeInv, CallOf
  <2>2. /\ call'[t].at = (IF c = None THEN "lookup" ELSE "write")
        /\ call'[t].key = call[t].key /\ call'[t].client = c
        /\ \A u \in Threads \ {t} : call'[u] = call[u]
    <3>1. PICK place \in Places : place = IF c = None THEN "lookup" ELSE "write"
      BY DEF Places
    <3>2. call' = [call EXCEPT ![t] = [at |-> place, key |-> call[t].key, client |-> c]]
      BY <1>6, <3>1 DEF GetClient
    <3> QED
      BY <2>1, <3>1, <3>2, RequestCall
  <2> QED
    BY <1>6, <1>c, <2>1, <2>2 DEF GetClient, CallOf
<1>7. ASSUME NEW t \in Threads, LookupFails(t) \/ GetAgain(t) \/ PutChannel(t) \/ WriteRequest(t)
      PROVE  CallInv'
  <2>1. /\ call'[t].at \in {"null", "unconnected", "connect", "threw", "done", "write"}
        /\ call'[t].at = "write" => call[t].at = "putChannel"
        /\ call'[t].key = call[t].key /\ call'[t].client = call[t].client
        /\ \A u \in Threads \ {t} : call'[u] = call[u]
    BY <1>7, GotoCall DEF LookupFails, GetAgain, PutChannel, WriteRequest, Places
  <2>2. call[t].at \in Requesting /\ stayed' = stayed /\ iter' = iter
    BY <1>7 DEF LookupFails, GetAgain, PutChannel, WriteRequest, Requesting
  <2> QED
    BY <1>a, <1>c, <2>1, <2>2 DEF CallOf, Requesting
<1>8. ASSUME NEW t \in Threads, PutClient(t) PROVE CallInv'
  <2>1. \A u \in Threads : Less(u)
    <3>1. Enter(call[t].key, t) /\ call[t].key \in Keys /\ t \in All \cup {None}
      BY <1>8, PutClientCall DEF PutClient
    <3> QED
      BY <3>1, EnterKeeps
  <2> QED
    BY <1>8, <1>c, <2>1, PutClientCall DEF CallOf
<1>14. ASSUME NEW t \in Threads, ConnectClient(t) PROVE CallInv'
  <2>1. stayed' = stayed /\ iter' = iter
    BY <1>14 DEF ConnectClient
  <2> QED
    BY <1>14, <1>c, <2>1, ConnectCall DEF CallOf
<1>9. ASSUME NEW t \in Threads, Broadcast(t) PROVE CallInv'
  <2>1. call'[t].at = "types" /\ \A u \in Threads \ {t} : call'[u] = call[u]
    BY <1>9, GotoCall DEF Broadcast, Places
  <2>2. iter'[t].keys = {} /\ \A u \in Threads \ {t} : iter'[u] = iter[u] /\ stayed'[u] = stayed[u]
    BY <1>9 DEF Broadcast, TypeInv, NoIter
  <2> QED
    BY <1>c, <2>1, <2>2 DEF CallOf, Requesting
<1>10. ASSUME NEW t \in Threads, BroadcastByType(t) PROVE CallInv'
  BY <1>10, <1>c, ByTypeKeeps DEF CallOf, Requesting
<1>11. ASSUME NEW t \in Threads, NextType(t) PROVE CallInv'
  <2>1. /\ call'[t].at = "clients" /\ \A u \in Threads \ {t} : call'[u] = call[u] /\ iter'[u] = iter[u]
        /\ stayed' = stayed
    BY <1>11, GotoCall DEF NextType, Places, TypeInv
  <2> QED
    BY <1>c, <2>1 DEF CallOf, Requesting
<1>12. ASSUME NEW t \in Threads, NextClient(t) PROVE CallInv'
  <2>1. /\ call[t].at = "clients" /\ call' = call /\ stayed' = stayed
        /\ \A u \in Threads \ {t} : iter'[u] = iter[u]
    BY <1>12 DEF NextClient, TypeInv
  <2> QED
    BY <1>c, <2>1 DEF CallOf, Requesting
<1>13. ASSUME NEW t \in Threads, LastClient(t) \/ NoTypes(t) \/ Fail(t) PROVE CallInv'
  <2>1. CASE Goto(t, "types") /\ iter' = iter /\ iter[t].keys = {}
    <3>1. call'[t].at = "types" /\ \A u \in Threads \ {t} : call'[u] = call[u]
      BY <2>1, GotoCall DEF Places
    <3> QED
      BY <1>13, <1>c, <2>1, <3>1 DEF CallOf, Requesting, LastClient, NoTypes, Fail
  <2>2. CASE End(t, "done") \/ End(t, "threw")
    <3>1. /\ call'[t].at \in {"done", "threw"}
          /\ \A u \in Threads \ {t} : call'[u] = call[u] /\ iter'[u] = iter[u]
      BY <2>2, EndCall DEF Places
    <3> QED
      BY <1>13, <1>c, <3>1 DEF CallOf, Requesting, LastClient, NoTypes, Fail
  <2> QED
    BY <1>13, <2>1, <2>2 DEF LastClient, NoTypes, Fail
<1> QED
  BY <1>1, <1>2, <1>3, <1>4, <1>5, <1>6, <1>7, <1>8, <1>9, <1>10, <1>11, <1>12, <1>13, <1>14
     DEF Next, LoopStep, RequestStep, BroadcastStep

LEMMA StepEntry ==
  ASSUME IInv, Next
  PROVE  EntryInv'
<1> DEFINE Over == {"putChannel", "write", "done", "null", "threw"}
           Keeps(t) == call[t].at \in Over => call'[t].at \in Over /\ call'[t].key = call[t].key
<1> USE ClientAssumption, Sub, KeyParts, OwnKey DEF IInv, Inv, loops
<1>a. ASSUME map' = map, types \subseteq types', \A c \in Clients : OwnEntry(c) => OwnEntry(c)',
             \A t \in Threads : Keeps(t)
      PROVE  EntryInv'
  BY <1>a DEF EntryInv
<1>b. ASSUME UNCHANGED <<map, types, chan, conn, loops>>, \A t \in Threads : Keeps(t)
      PROVE  EntryInv'
  BY <1>a, <1>b DEF OwnEntry
<1> HIDE DEF Keeps
<1>1. ASSUME NEW c \in Clients, Listener(c) \/ AddChannel(c) \/ RemoveChannel(c) PROVE EntryInv'
  <2>1. UNCHANGED <<map, types, call>>
    BY <1>1 DEF Listener, AddChannel, RemoveChannel
  <2>2. \A d \in Clients \ {c} : OwnEntry(d) => OwnEntry(d)'
    BY <1>1 DEF Listener, AddChannel, RemoveChannel, OwnEntry, Step, TypeInv
  <2>3. OwnEntry(c) => OwnEntry(c)'
    <3>1. CASE Listener(c)
      BY <3>1 DEF Listener, OwnEntry
    <3>2. CASE AddChannel(c)
      BY <3>2 DEF AddChannel, OwnEntry, Step, TypeInv, LoopInv
    <3>3. CASE RemoveChannel(c)
      BY <3>3 DEF RemoveChannel, OwnEntry, Step, TypeInv
    <3> QED
      BY <1>1, <3>1, <3>2, <3>3
  <2> QED
    BY <1>a, <2>1, <2>2, <2>3 DEF Keeps
<1>2. ASSUME NEW c \in All, Up(c) \/ Down(c) \/ GetsChannel(c) PROVE EntryInv'
  BY <1>2, <1>a DEF Up, Down, GetsChannel, OwnEntry, TypeInv, Keeps
<1>3. ASSUME NEW c \in Clients, AddType(c) PROVE EntryInv'
  BY <1>3, <1>a, TypeMapKeeps DEF AddType, OwnEntry, Step, TypeInv, Keeps
<1>4. ASSUME NEW c \in Clients, AddToMap(c) PROVE EntryInv'
  <2>1. map'[Key[c]] = c /\ \A k \in Keys \ {Key[c]} : map'[k] = map[k]
    BY <1>4, EnterKeeps DEF AddToMap
  <2>2. OwnEntry(c)' /\ Key[c][1] \in types'
    BY <1>4 DEF AddToMap, Step, OwnEntry, LoopInv, TypeInv
  <2>3. \A d \in Clients \ {c} : OwnEntry(d) => OwnEntry(d)'
    BY <1>4 DEF AddToMap, Step, OwnEntry, TypeInv
  <2>4. UNCHANGED <<types, call>>
    BY <1>4 DEF AddToMap
  <2> SUFFICES ASSUME NEW k \in Keys
               PROVE  /\ map'[k] # None => k[1] \in types'
                      /\ map'[k] \in Clients => k = Key[map'[k]] /\ OwnEntry(map[k])'
                      /\ map'[k] \in Threads => k = call'[map'[k]].key /\ call'[map'[k]].at \in Over
    BY DEF EntryInv
  <2>5. CASE k = Key[c]
    BY <2>1, <2>2, <2>5 DEF OwnEntry
  <2>6. CASE k # Key[c]
    <3>1. map'[k] = map[k] /\ map[k] # c
      BY <2>1, <2>6 DEF EntryInv
    <3> QED
      BY <2>3, <2>4, <3>1 DEF EntryInv, OwnEntry
  <2> QED
    BY <2>5, <2>6
<1>5. ASSUME NEW c \in Clients, RemoveFromMap(c) PROVE EntryInv'
  <2>1. map'[Key[c]] = None /\ \A k \in Keys \ {Key[c]} : map'[k] = map[k]
    BY <1>5, EnterKeeps DEF RemoveFromMap
  <2>2. \A d \in Clients \ {c} : OwnEntry(d) => OwnEntry(d)'
    BY <1>5 DEF RemoveFromMap, Step, OwnEntry, TypeInv
  <2>3. UNCHANGED <<types, call>>
    BY <1>5 DEF RemoveFromMap
  <2>4. \A k \in Keys : map'[k] # None => map'[k] = map[k] /\ map[k] # c
    BY <2>1 DEF EntryInv
  <2> QED
    BY <2>2, <2>3, <2>4 DEF EntryInv, OwnEntry
<1>6. ASSUME NEW t \in Threads, NEW k \in Keys, Request(t, k) PROVE EntryInv'
  <2>1. call[t].at = "idle" /\ \A u \in Threads \ {t} : call'[u] = call[u]
    BY <1>6, RequestCall DEF Request, Places
  <2>2. types \subseteq types' /\ UNCHANGED <<map, chan, conn, loops>>
    BY <1>6, TypeMapKeeps DEF Request
  <2> QED
    BY <1>a, <2>1, <2>2 DEF Keeps, OwnEntry
<1>7. ASSUME NEW t \in Threads, \/ GetClient(t) \/ LookupFails(t) \/ GetAgain(t)
                                \/ PutChannel(t) \/ WriteRequest(t)
      PROVE  EntryInv'
  <2>1. call'[t].key = call[t].key /\ \A u \in Threads \ {t} : call'[u] = call[u]
    <3>1. CASE GetClient(t)
      BY <3>1, RequestCall DEF GetClient, Places, CallInv, Requesting, TypeInv
    <3> QED
      BY <1>7, <3>1, GotoCall DEF LookupFails, GetAgain, PutChannel, WriteRequest, Places
  <2>2. call[t].at \in Over => call'[t].at \in Over
    BY <1>7, GotoCall DEF GetClient, LookupFails, GetAgain, PutChannel, WriteRequest, Places
  <2> QED
    BY <1>7, <1>b, <2>1, <2>2 DEF Keeps, GetClient, LookupFails, GetAgain, PutChannel, WriteRequest
<1>8. ASSUME NEW t \in Threads, ConnectClient(t) PROVE EntryInv'
  <2>1. call[t].at = "connect" /\ \A u \in Threads \ {t} : call'[u] = call[u]
    BY <1>8, ConnectCall DEF ConnectClient
  <2> QED
    BY <1>8, <1>b, <2>1 DEF ConnectClient, Keeps
<1>9. ASSUME NEW t \in Threads, PutClient(t) PROVE EntryInv'
  <2> DEFINE key == call[t].key
  <2>1. key \in Keys /\ t \in All /\ key[1] \in types /\ call[t].at = "putClient"
    BY <1>9 DEF PutClient, Requesting, CallInv, LoopInv
  <2>2. map'[key] = t /\ \A k \in Keys \ {key} : map'[k] = map[k]
    BY <1>9, <2>1, EnterKeeps DEF PutClient
  <2>3. /\ call'[t].at \in Over /\ call'[t].key = key
        /\ \A u \in Threads \ {t} : call'[u] = call[u]
    BY <1>9, PutClientCall
  <2>4. UNCHANGED <<types, chan, conn, loops>>
    BY <1>9 DEF PutClient
  <2>5. \A k \in Keys : map[k] # t
    BY <2>1 DEF EntryInv
  <2> QED
    BY <2>1, <2>2, <2>3, <2>4, <2>5 DEF EntryInv, OwnEntry
<1>10. ASSUME NEW t \in Threads, BroadcastByType(t) PROVE EntryInv'
  <2>1. call[t].at = "idle" /\ \A u \in Threads \ {t} : call'[u] = call[u]
    BY <1>10, ByTypeKeeps DEF BroadcastByType
  <2>2. types \subseteq types' /\ UNCHANGED <<map, chan, conn, loops>>
    BY <1>10 DEF BroadcastByType
  <2> QED
    BY <1>a, <2>1, <2>2 DEF Keeps, OwnEntry
<1>11. ASSUME NEW t \in Threads, Broadcast(t) \/ NextType(t) \/ NextClient(t) \/ LastClient(t)
                                 \/ NoTypes(t) \/ Fail(t)
       PROVE  EntryInv'
  <2>1. call[t].at \notin Over /\ \A u \in Threads \ {t} : call'[u] = call[u]
    BY <1>11, GotoCall, EndCall DEF Broadcast, NextType, NextClient, LastClient, NoTypes, Fail, Places
  <2>2. UNCHANGED <<map, types, chan, conn, loops>>
    BY <1>11 DEF Broadcast, NextType, NextClient, LastClient, NoTypes, Fail
  <2> QED
    BY <1>b, <2>1, <2>2 DEF Keeps
<1> QED
  BY <1>1, <1>2, <1>3, <1>4, <1>5, <1>6, <1>7, <1>8, <1>9, <1>10, <1>11
     DEF Next, LoopStep, RequestStep, BroadcastStep

LEMMA StepLoop ==
  ASSUME IInv, Next
  PROVE  LoopInv'
<1> DEFINE Served(t) == call[t].at \in Requesting => call[t].key[1] \in types
           Same(t) == call'[t].at \in Requesting => call[t].at \in Requesting /\ call'[t].key = call[t].key
<1> USE ClientAssumption, Sub, KeyParts, OwnKey DEF IInv, Inv, loops
<1>a. ASSUME UNCHANGED <<conn, loops>>, types \subseteq types', \A t \in Threads : Same(t)
      PROVE  LoopInv'
  BY <1>a DEF LoopInv
<1> HIDE DEF Same
<1>1. ASSUME NEW c \in Clients, LoopStep(c) PROVE LoopInv'
  <2>1. Key[c] \in Keys
    BY OwnKey
  <2>2. types \subseteq types' /\ (AddType(c) => Key[c][1] \in types')
    BY <1>1, <2>1, TypeMapKeeps
       DEF LoopStep, Listener, AddType, AddToMap, AddChannel, RemoveChannel, RemoveFromMap
  <2>3. /\ call' = call /\ conn' = conn
        /\ \A d \in Clients \ {c} : /\ loop'[d] = loop[d] /\ (d \in heard' <=> d \in heard)
                                    /\ (d \in ended' <=> d \in ended) /\ (d \in early' <=> d \in early)
    BY <1>1 DEF LoopStep, Listener, AddType, AddToMap, AddChannel, RemoveChannel, RemoveFromMap, Step,
                TypeInv
  <2>4. /\ loop'[c] \in {"type", "put", "channel"} => conn'[c] # "new" /\ c \in heard'
        /\ loop'[c] = "put" => Key[c][1] \in types'
        /\ c \in ended' => \/ c \in early'
                           \/ c \in heard' /\ loop'[c] \notin {"type", "put", "channel"}
    <3>1. CASE Listener(c)
      <4>1. loop'[c] \in {"type", "idle"} /\ c \in heard' /\ conn'[c] # "new"
        BY <3>1 DEF Listener, Step, TypeInv
      <4>2. c \notin heard /\ ended' = ended /\ early' = early
        BY <3>1 DEF Listener
      <4>3. c \in ended => c \in early
        BY <4>2 DEF LoopInv
      <4>4. loop'[c] # "put" /\ (c \in ended' => c \in early')
        BY <4>1, <4>2, <4>3
      <4> QED
        BY <4>1, <4>4
    <3>3. CASE RemoveChannel(c)
      <4>1. loop[c] = "idle" /\ loop'[c] \in {"remove", "idle"} /\ heard' = heard
        BY <3>3 DEF RemoveChannel, Step, TypeInv
      <4>2. c \in heard' \/ c \in early'
        BY <3>3 DEF RemoveChannel
      <4> QED
        BY <4>1, <4>2
    <3>2. CASE AddType(c) \/ AddToMap(c) \/ AddChannel(c) \/ RemoveFromMap(c)
      BY <2>2, <3>2 DEF AddType, AddToMap, AddChannel, RemoveFromMap, Step, TypeInv, LoopInv
    <3> QED
      BY <1>1, <3>1, <3>2, <3>3 DEF LoopStep
  <2> QED
    BY <2>2, <2>3, <2>4 DEF LoopInv
<1>2. ASSUME NEW c \in All, Up(c) \/ Down(c) \/ GetsChannel(c) PROVE LoopInv'
  BY <1>2 DEF Up, Down, GetsChannel, LoopInv, TypeInv
<1>3. ASSUME NEW t \in Threads, NEW k \in Keys, Request(t, k) PROVE LoopInv'
  <2>1. call'[t].key = k /\ \A u \in Threads \ {t} : call'[u] = call[u]
    BY <1>3, RequestCall DEF Request, Places
  <2>2. types' = types \cup {k[1]} /\ UNCHANGED <<conn, loops>>
    BY <1>3, TypeMapKeeps DEF Request
  <2> QED
    BY <2>1, <2>2 DEF LoopInv
<1>4. ASSUME NEW t \in Threads, ConnectClient(t) PROVE LoopInv'
  <2>1. call[t].at = "connect" /\ call'[t].key = call[t].key /\ \A u \in Threads \ {t} : call'[u] = call[u]
    BY <1>4, ConnectCall DEF ConnectClient
  <2> QED
    BY <1>4, <1>a, <2>1 DEF ConnectClient, Same, Requesting
<1>5. ASSUME NEW t \in Threads, \/ GetClient(t) \/ LookupFails(t) \/ GetAgain(t)
                                \/ PutClient(t) \/ PutChannel(t) \/ WriteRequest(t)
      PROVE  LoopInv'
  <2>1. call'[t].key = call[t].key /\ \A u \in Threads \ {t} : call'[u] = call[u]
    <3>1. CASE GetClient(t)
      BY <3>1 DEF GetClient, TypeInv, CallType
    <3> QED
      BY <1>5, <3>1, GotoCall, PutClientCall DEF LookupFails, GetAgain, PutChannel, WriteRequest, Places
  <2>2. call[t].at \in Requesting
    BY <1>5 DEF GetClient, LookupFails, GetAgain, PutClient, PutChannel, WriteRequest, Requesting
  <2> QED
    BY <1>5, <1>a, <2>1, <2>2 DEF Same, GetClient, LookupFails, GetAgain, PutClient, PutChannel, WriteRequest
<1>6. ASSUME NEW t \in Threads, Broadcast(t) \/ NextType(t) \/ NextClient(t) \/ LastClient(t)
                                \/ NoTypes(t) \/ Fail(t)
      PROVE  LoopInv'
  <2>1. call'[t].at \notin Requesting /\ \A u \in Threads \ {t} : call'[u] = call[u]
    BY <1>6, GotoCall, EndCall
       DEF Broadcast, NextType, NextClient, LastClient, NoTypes, Fail, Places, Requesting
  <2> QED
    BY <1>6, <1>a, <2>1 DEF Same, Broadcast, NextType, NextClient, LastClient, NoTypes, Fail
<1>7. ASSUME NEW t \in Threads, BroadcastByType(t) PROVE LoopInv'
  <2>1. call'[t].at \notin Requesting /\ \A u \in Threads \ {t} : call'[u] = call[u]
    BY <1>7, ByTypeKeeps DEF Requesting
  <2>2. types \subseteq types' /\ UNCHANGED <<conn, loops>>
    BY <1>7 DEF BroadcastByType
  <2> QED
    BY <1>a, <2>1, <2>2 DEF Same
<1> QED
  BY <1>1, <1>2, <1>3, <1>4, <1>5, <1>6, <1>7 DEF Next, RequestStep, BroadcastStep

LEMMA StepFresh ==
  ASSUME IInv, Next
  PROVE  FreshInv'
<1> DEFINE Fresh(t) == Iterating(t) => \A k \in iter[t].keys : map[k] = None => k[1] \in iter[t].changed
           Same(t) == /\ Iterating(t)' => Iterating(t)
                      /\ iter'[t].keys = iter[t].keys /\ iter[t].changed \subseteq iter'[t].changed
<1> USE Sub, KeyParts, OwnKey DEF IInv, Inv, loops
<1>a. \A t \in Threads : Fresh(t) /\ iter[t].keys \subseteq Keys
  BY DEF FreshInv, TypeInv, IterType
<1>b. ASSUME map' = map, \A t \in Threads : Same(t)
      PROVE  FreshInv'
  BY <1>a, <1>b DEF FreshInv
<1>c. ASSUME NEW t \in Threads, Fresh(t)', map' = map, \A u \in Threads \ {t} : Same(u)
      PROVE  FreshInv'
  BY <1>a, <1>c DEF FreshInv
<1>d. ASSUME NEW k \in Keys, NEW c \in All \cup {None}, Enter(k, c),
             \A t \in Threads : Iterating(t)' => Iterating(t)
      PROVE  FreshInv'
  <2> SUFFICES ASSUME NEW t \in Threads, Iterating(t)', NEW j \in iter'[t].keys, map'[j] = None
               PROVE  j[1] \in iter'[t].changed
    BY DEF FreshInv
  <2>1. Iterating(t) /\ j \in iter[t].keys /\ j \in Keys
    BY <1>a, <1>d, EnterKeeps
  <2>2. CASE map[j] = None
    BY <1>a, <1>d, <2>1, <2>2, EnterKeeps
  <2>3. CASE map[j] # None
    BY <1>d, <2>1, <2>3, EnterKeeps
  <2> QED
    BY <2>2, <2>3
<1> HIDE DEF Fresh
<1>1. ASSUME NEW c \in Clients, Listener(c) \/ AddChannel(c) \/ RemoveChannel(c) PROVE FreshInv'
  BY <1>1, <1>b DEF Listener, AddChannel, RemoveChannel, Iterating
<1>2. ASSUME NEW c \in All, Up(c) \/ Down(c) \/ GetsChannel(c) PROVE FreshInv'
  BY <1>2, <1>b DEF Up, Down, GetsChannel, Iterating
<1>3. ASSUME NEW c \in Clients, AddType(c) PROVE FreshInv'
  BY <1>3, <1>b, TypeMapKeeps DEF AddType, Iterating
<1>4. ASSUME NEW c \in Clients, AddToMap(c) \/ RemoveFromMap(c) PROVE FreshInv'
  BY <1>4, <1>d DEF AddToMap, RemoveFromMap, Iterating
<1>5. ASSUME NEW t \in Threads, NEW k \in Keys, Request(t, k) PROVE FreshInv'
  <2>1. ~Iterating(t)' /\ \A u \in Threads \ {t} : call'[u] = call[u]
    BY <1>5, RequestCall DEF Request, Places, Iterating
  <2> QED
    BY <1>5, <1>b, <2>1, TypeMapKeeps DEF Request, Iterating
<1>6. ASSUME NEW t \in Threads, \/ GetClient(t) \/ LookupFails(t) \/ GetAgain(t)
                                \/ ConnectClient(t) \/ PutChannel(t) \/ WriteRequest(t)
      PROVE  FreshInv'
  <2>1. ~Iterating(t)' /\ \A u \in Threads \ {t} : call'[u] = call[u]
    <3>1. CASE GetClient(t)
      BY <3>1 DEF GetClient, Iterating, TypeInv, CallType
    <3> QED
      BY <1>6, <3>1, GotoCall, ConnectCall DEF LookupFails, GetAgain, PutChannel, WriteRequest, Places, Iterating
  <2>2. map' = map /\ iter' = iter
    BY <1>6 DEF GetClient, LookupFails, GetAgain, ConnectClient, PutChannel, WriteRequest
  <2> QED
    BY <1>b, <2>1, <2>2 DEF Iterating
<1>7. ASSUME NEW t \in Threads, PutClient(t) PROVE FreshInv'
  <2>1. call[t].key \in Keys /\ t \in All
    BY <1>7 DEF PutClient, Requesting, CallInv
  <2>2. \A u \in Threads : Iterating(u)' => Iterating(u)
    BY <1>7, PutClientCall DEF Iterating
  <2> QED
    BY <1>7, <1>d, <2>1, <2>2 DEF PutClient
<1>8. ASSUME NEW t \in Threads, Broadcast(t) PROVE FreshInv'
  <2>1. /\ iter'[t].keys = {} /\ map' = map
        /\ \A u \in Threads \ {t} : iter'[u] = iter[u] /\ call'[u] = call[u]
    BY <1>8, GotoCall DEF Broadcast, TypeInv, NoIter, Places
  <2> QED
    BY <1>c, <2>1 DEF Fresh, Iterating
<1>9. ASSUME NEW t \in Threads, BroadcastByType(t) PROVE FreshInv'
  <2>1. map' = map
    BY <1>9 DEF BroadcastByType
  <2>2. Fresh(t)'
    BY <1>9, <2>1, ByTypeKeeps DEF Fresh, KeysOf
  <2> QED
    BY <1>9, <1>c, <2>1, <2>2, ByTypeKeeps DEF Iterating
<1>10. ASSUME NEW t \in Threads, NextType(t) PROVE FreshInv'
  <2>1. /\ map' = map /\ \A u \in Threads \ {t} : iter'[u] = iter[u] /\ call'[u] = call[u]
        /\ \E type : iter'[t].keys = KeysOf(type)
    BY <1>10, GotoCall DEF NextType, TypeInv, Places
  <2> QED
    BY <1>c, <2>1 DEF Fresh, Iterating, KeysOf
<1>11. ASSUME NEW t \in Threads, NextClient(t) PROVE FreshInv'
  <2>1. PICK k \in iter[t].keys : iter' = [iter EXCEPT ![t].keys = @ \ {k}]
    BY <1>11 DEF NextClient
  <2>2. /\ iter'[t].keys \subseteq iter[t].keys /\ iter'[t].changed = iter[t].changed
        /\ \A u \in Threads \ {t} : iter'[u] = iter[u]
    BY <2>1 DEF TypeInv, IterType
  <2>3. map' = map /\ call' = call
    BY <1>11 DEF NextClient
  <2>4. Fresh(t)'
    BY <1>a, <2>2, <2>3 DEF Fresh, Iterating
  <2> QED
    BY <1>c, <2>2, <2>3, <2>4 DEF Iterating
<1>12. ASSUME NEW t \in Threads, LastClient(t) \/ NoTypes(t) \/ Fail(t) PROVE FreshInv'
  <2>1. CASE Goto(t, "types") /\ iter' = iter /\ iter[t].keys = {}
    <3>1. \A u \in Threads \ {t} : call'[u] = call[u]
      BY <2>1, GotoCall DEF Places
    <3> QED
      BY <1>12, <1>c, <2>1, <3>1 DEF Fresh, Iterating, LastClient, NoTypes, Fail
  <2>2. CASE End(t, "done") \/ End(t, "threw")
    <3>1. /\ call'[t].at \in {"done", "threw"}
          /\ \A u \in Threads \ {t} : call'[u] = call[u] /\ iter'[u] = iter[u]
      BY <2>2, EndCall DEF Places
    <3> QED
      BY <1>12, <1>c, <3>1 DEF Fresh, Iterating, LastClient, NoTypes, Fail
  <2> QED
    BY <1>12, <2>1, <2>2 DEF LastClient, NoTypes, Fail
<1> QED
  BY <1>1, <1>2, <1>3, <1>4, <1>5, <1>6, <1>7, <1>8, <1>9, <1>10, <1>11, <1>12
     DEF Next, LoopStep, RequestStep, BroadcastStep

\* A client that has lost its connection never has one again.
LEMMA NoRevival ==
  ASSUME IInv, Next, NEW x \in All, conn[x] # "new"
  PROVE  conn'[x] # "new" /\ (conn'[x] = "up" => conn[x] = "up")
<1> USE Sub DEF IInv, Inv, TypeInv
<1>1. ASSUME NEW c \in All, Up(c) \/ Down(c) \/ GetsChannel(c)
      PROVE  conn'[x] # "new" /\ (conn'[x] = "up" => conn[x] = "up")
  BY <1>1 DEF Up, Down, GetsChannel
<1>2. CASE conn' = conn
  BY <1>2
<1> QED
  BY <1>1, <1>2
     DEF Next, LoopStep, RequestStep, BroadcastStep, Listener, AddType, AddToMap, AddChannel,
         RemoveChannel, RemoveFromMap, Request, GetClient, LookupFails, GetAgain, ConnectClient,
         PutClient, PutChannel, WriteRequest, Broadcast, BroadcastByType, NextType, NextClient,
         LastClient, NoTypes, Fail

LEMMA StepStayed ==
  ASSUME IInv, Next
  PROVE  StayedInv'
<1> USE ClientAssumption, Sub, KeyParts, OwnKey DEF IInv, Inv, loops
<1>a. ASSUME NEW t \in Threads,
             NEW x \in stayed'[t], x \in stayed[t] \/ (x \in All /\ conn[x] # "new")
      PROVE  conn'[x] # "new"
  BY <1>a, NoRevival DEF StayedInv, TypeInv
<1>b. ASSUME \A t \in Threads : stayed'[t] \subseteq stayed[t]
      PROVE  StayedInv'
  BY <1>a, <1>b DEF StayedInv
<1>c. \A type \in Types : \A x \in Connected(type) : x \in All /\ conn[x] # "new"
  BY ConnectedTypes DEF Connected
<1>1. ASSUME NEW c \in Clients, AddToMap(c) \/ RemoveFromMap(c) PROVE StayedInv'
  BY <1>1, <1>b, EnterKeeps DEF AddToMap, RemoveFromMap
<1>2. ASSUME NEW t \in Threads, PutClient(t) PROVE StayedInv'
  BY <1>2, <1>b, EnterKeeps, PutClientCall DEF PutClient
<1>3. ASSUME NEW t \in Threads, Broadcast(t) \/ BroadcastByType(t) PROVE StayedInv'
  <2>1. \A u \in Threads \ {t} : stayed'[u] = stayed[u]
    BY <1>3 DEF Broadcast, BroadcastByType, TypeInv
  <2>2. \A x \in stayed'[t] : \E type \in Types : x \in Connected(type)
    BY <1>3 DEF Broadcast, BroadcastByType, TypeInv
  <2> QED
    BY <1>a, <1>c, <2>1, <2>2 DEF StayedInv
<1>4. CASE stayed' = stayed
  BY <1>4, <1>b
<1> QED
  BY <1>1, <1>2, <1>3, <1>4
     DEF Next, LoopStep, RequestStep, BroadcastStep, Up, Down, Listener, AddType, AddChannel,
         RemoveChannel, Request, GetClient, LookupFails, GetAgain, ConnectClient, GetsChannel,
         PutChannel, WriteRequest, NextType, NextClient, LastClient, NoTypes, Fail

LEMMA StepReach ==
  ASSUME IInv, Next
  PROVE  ReachInv'
<1> DEFINE Reach(t) == \A x \in stayed[t] : \E k \in Keys : map[k] = x /\ Covered(t, k, x)
           Same(t) == /\ call'[t] = call[t] /\ sent'[t] = sent[t]
                      /\ iter'[t].keys = iter[t].keys /\ iter'[t].types = iter[t].types
           Stays(t) == \A x \in stayed'[t] :
                         x \in stayed[t] /\ \A k \in Keys : map[k] = x => map'[k] = x
<1> USE ClientAssumption, Sub, KeyParts, OwnKey DEF IInv, Inv, loops
<1>a. \A t \in Threads : Reach(t) /\ stayed[t] \subseteq All
  BY DEF ReachInv, TypeInv
<1>b. ASSUME NEW t \in Threads, Same(t), Stays(t)
      PROVE  Reach(t)'
  <2> SUFFICES ASSUME NEW x \in stayed'[t]
               PROVE  \E k \in Keys : map'[k] = x /\ Covered(t, k, x)'
    OBVIOUS
  <2>1. PICK k \in Keys : map[k] = x /\ Covered(t, k, x)
    BY <1>a, <1>b
  <2>2. x \in All /\ map'[k] = x
    BY <1>a, <1>b, <2>1
  <2>3. conn'[x] = "up" => conn[x] = "up"
    BY <1>b, <2>2, NoRevival DEF StayedInv
  <2> QED
    BY <1>b, <2>1, <2>2, <2>3 DEF Covered, Iterating
<1>c. ASSUME NEW t \in Threads, Reach(t)', \A u \in Threads \ {t} : Same(u) /\ Stays(u)
      PROVE  ReachInv'
  BY <1>b, <1>c DEF ReachInv
<1>d. ASSUME \A u \in Threads : Same(u) /\ Stays(u)
      PROVE  ReachInv'
  BY <1>b, <1>d DEF ReachInv
<1>e. ASSUME NEW k \in Keys, NEW c \in All \cup {None}, Enter(k, c)
      PROVE  \A t \in Threads : /\ Stays(t) /\ stayed'[t] \subseteq stayed[t]
                                /\ iter'[t].keys = iter[t].keys /\ iter'[t].types = iter[t].types
  BY <1>e, EnterKeeps
<1>f. ASSUME stayed' = stayed, map' = map
      PROVE  \A t \in Threads : Stays(t)
  BY <1>f
<1>g. \A t \in Threads : stayed'[t] = {} => Reach(t)'
  OBVIOUS
<1>h. \A t \in Threads : call[t].at \in Requesting \cup {"idle"} => stayed[t] = {}
  BY DEF CallInv
<1> HIDE DEF Reach, Stays
<1>1. ASSUME NEW c \in Clients, Listener(c) \/ AddChannel(c) \/ RemoveChannel(c) PROVE ReachInv'
  BY <1>1, <1>d, <1>f DEF Listener, AddChannel, RemoveChannel
<1>2. ASSUME NEW c \in All, Up(c) \/ Down(c) \/ GetsChannel(c) PROVE ReachInv'
  BY <1>2, <1>d, <1>f DEF Up, Down, GetsChannel
<1>3. ASSUME NEW c \in Clients, AddType(c) PROVE ReachInv'
  BY <1>3, <1>d, <1>f, TypeMapKeeps DEF AddType
<1>4. ASSUME NEW c \in Clients, AddToMap(c) \/ RemoveFromMap(c) PROVE ReachInv'
  BY <1>4, <1>d, <1>e DEF AddToMap, RemoveFromMap
<1>5. ASSUME NEW t \in Threads, NEW k \in Keys, Request(t, k) PROVE ReachInv'
  <2>1. \A u \in Threads \ {t} : call'[u] = call[u]
    BY <1>5, RequestCall DEF Request, Places
  <2>2. stayed' = stayed /\ map' = map /\ sent' = sent /\ stayed[t] = {}
    BY <1>5, <1>h DEF Request
  <2>3. \A u \in Threads : iter'[u].keys = iter[u].keys /\ iter'[u].types = iter[u].types
    BY <1>5, TypeMapKeeps DEF Request
  <2> QED
    BY <1>c, <1>f, <1>g, <2>1, <2>2, <2>3
<1>6. ASSUME NEW t \in Threads, \/ GetClient(t) \/ LookupFails(t) \/ GetAgain(t)
                                \/ ConnectClient(t) \/ PutChannel(t) \/ WriteRequest(t)
      PROVE  ReachInv'
  <2>1. \A u \in Threads \ {t} : call'[u] = call[u]
    <3>1. CASE GetClient(t)
      BY <3>1 DEF GetClient, TypeInv, CallType
    <3> QED
      BY <1>6, <3>1, GotoCall, ConnectCall DEF LookupFails, GetAgain, PutChannel, WriteRequest, Places
  <2>2. map' = map /\ iter' = iter /\ stayed' = stayed /\ stayed[t] = {}
    BY <1>6, <1>h DEF GetClient, LookupFails, GetAgain, ConnectClient, PutChannel, WriteRequest, Requesting
  <2>3. \A u \in Threads \ {t} : sent'[u] = sent[u]
    BY <1>6 DEF GetClient, LookupFails, GetAgain, ConnectClient, PutChannel, WriteRequest, TypeInv
  <2> QED
    BY <1>c, <1>f, <1>g, <2>1, <2>2, <2>3
<1>7. ASSUME NEW t \in Threads, PutClient(t) PROVE ReachInv'
  <2>1. call[t].key \in Keys /\ t \in All /\ stayed[t] = {}
    BY <1>7, <1>h DEF PutClient, Requesting, CallInv
  <2>2. \A u \in Threads \ {t} : call'[u] = call[u]
    BY <1>7, PutClientCall
  <2>3. \A u \in Threads : /\ Stays(u) /\ stayed'[u] \subseteq stayed[u]
                           /\ iter'[u].keys = iter[u].keys /\ iter'[u].types = iter[u].types
    BY <1>7, <1>e, <2>1 DEF PutClient
  <2> QED
    BY <1>7, <1>c, <1>g, <2>1, <2>2, <2>3 DEF PutClient
<1>8. ASSUME NEW t \in Threads, Broadcast(t) PROVE ReachInv'
  <2>1. /\ map' = map /\ sent' = sent /\ call'[t].at = "types" /\ iter'[t].types = types
        /\ stayed'[t] = UNION {Connected(type) : type \in Types}
        /\ \A u \in Threads \ {t} : iter'[u] = iter[u] /\ call'[u] = call[u] /\ stayed'[u] = stayed[u]
    BY <1>8, GotoCall DEF Broadcast, TypeInv, NoIter, Places
  <2>2. ASSUME NEW x \in stayed'[t]
        PROVE  \E k \in Keys : map'[k] = x /\ Covered(t, k, x)'
    <3>1. PICK type \in Types, id \in Ids : x = map[<<type, id>>] /\ x # None
      BY <2>1, <2>2 DEF Connected
    <3>2. <<type, id>> \in Keys /\ <<type, id>>[1] = type
      BY DEF Keys
    <3>3. type \in types
      BY <3>1, <3>2 DEF EntryInv
    <3> QED
      BY <2>1, <3>1, <3>2, <3>3 DEF Covered, Iterating
  <2>3. \A u \in Threads \ {t} : Stays(u)
    BY <2>1 DEF Stays
  <2> QED
    BY <1>c, <2>1, <2>2, <2>3 DEF Reach
<1>9. ASSUME NEW t \in Threads, BroadcastByType(t) PROVE ReachInv'
  <2>1. map' = map /\ sent' = sent
    BY <1>9 DEF BroadcastByType
  <2>2. PICK type \in Types : iter'[t].keys = KeysOf(type) /\ stayed'[t] = Connected(type)
    BY <1>9, ByTypeKeeps
  <2>3. ASSUME NEW x \in stayed'[t]
        PROVE  \E k \in Keys : map'[k] = x /\ Covered(t, k, x)'
    <3>1. PICK id \in Ids : x = map[<<type, id>>] /\ x # None
      BY <2>2, <2>3 DEF Connected
    <3>2. <<type, id>> \in KeysOf(type)
      BY <3>1 DEF Keys, KeysOf
    <3> QED
      BY <1>9, <2>1, <2>2, <3>1, <3>2, ByTypeKeeps DEF Covered, Iterating, KeysOf
  <2>4. \A u \in Threads \ {t} : Stays(u)
    BY <1>9, <2>1, ByTypeKeeps DEF Stays
  <2> QED
    BY <1>9, <1>c, <2>1, <2>3, <2>4, ByTypeKeeps DEF Reach
<1>10. ASSUME NEW t \in Threads, NextType(t) PROVE ReachInv'
  <2>1. PICK type \in iter[t].types :
          iter'[t].keys = KeysOf(type) /\ iter'[t].types = iter[t].types \ {type}
    BY <1>10 DEF NextType, TypeInv
  <2>2. /\ map' = map /\ sent' = sent /\ stayed' = stayed /\ conn' = conn /\ iter[t].keys = {}
        /\ call[t].at = "types" /\ call'[t].at = "clients"
        /\ \A u \in Threads \ {t} : iter'[u] = iter[u] /\ call'[u] = call[u]
    BY <1>10, GotoCall DEF NextType, TypeInv, Places, CallInv
  <2>3. ASSUME NEW x \in stayed'[t]
        PROVE  \E k \in Keys : map'[k] = x /\ Covered(t, k, x)'
    <3>1. PICK k \in Keys : map[k] = x /\ Covered(t, k, x)
      BY <1>a, <2>2 DEF Reach
    <3>2. x # None
      BY <1>a, <2>2
    <3>3. CASE k[1] = type
      BY <2>1, <2>2, <3>1, <3>2, <3>3 DEF Covered, Iterating, KeysOf
    <3>4. CASE k[1] # type
      BY <2>1, <2>2, <3>1, <3>4 DEF Covered, Iterating
    <3> QED
      BY <3>3, <3>4
  <2> QED
    BY <1>c, <1>f, <2>2, <2>3 DEF Reach
<1>11. ASSUME NEW t \in Threads, NextClient(t) PROVE ReachInv'
  <2>1. PICK j \in iter[t].keys :
          /\ iter' = [iter EXCEPT ![t].keys = @ \ {j}]
          /\ sent' = IF conn[map[j]] = "up" THEN [sent EXCEPT ![t] = @ \cup {map[j]}] ELSE sent
    BY <1>11 DEF NextClient
  <2>2. /\ iter'[t].keys = iter[t].keys \ {j} /\ iter'[t].types = iter[t].types
        /\ \A u \in Threads \ {t} : iter'[u] = iter[u] /\ sent'[u] = sent[u]
        /\ sent[t] \subseteq sent'[t] /\ (conn[map[j]] = "up" => map[j] \in sent'[t])
    BY <2>1 DEF TypeInv, IterType
  <2>3. map' = map /\ call' = call /\ stayed' = stayed /\ conn' = conn /\ call[t].at = "clients"
    BY <1>11 DEF NextClient
  <2>4. ASSUME NEW x \in stayed'[t]
        PROVE  \E k \in Keys : map'[k] = x /\ Covered(t, k, x)'
    <3>1. PICK k \in Keys : map[k] = x /\ Covered(t, k, x)
      BY <1>a, <2>3, <2>4 DEF Reach
    <3> QED
      BY <2>2, <2>3, <3>1 DEF Covered, Iterating
  <2> QED
    BY <1>c, <1>f, <2>2, <2>3, <2>4 DEF Reach
<1>12. ASSUME NEW t \in Threads, LastClient(t) \/ NoTypes(t) \/ Fail(t) PROVE ReachInv'
  <2>1. /\ map' = map /\ sent' = sent /\ stayed' = stayed /\ conn' = conn
        /\ call[t].at \in {"types", "clients"}
    BY <1>12 DEF LastClient, NoTypes, Fail
  <2>2. ASSUME NEW x \in stayed'[t]
        PROVE  \E k \in Keys : map[k] = x /\ Covered(t, k, x)
    BY <1>a, <2>1, <2>2 DEF Reach
  <2>3. CASE Goto(t, "types") /\ iter' = iter
    <3>1. call'[t].at = "types" /\ \A u \in Threads \ {t} : call'[u] = call[u]
      BY <2>3, GotoCall DEF Places
    <3>2. Reach(t)'
      BY <2>1, <2>2, <2>3, <3>1 DEF Reach, Covered, Iterating
    <3> QED
      BY <1>c, <1>f, <2>1, <2>3, <3>1, <3>2
  <2>4. CASE End(t, "threw")
    <3>1. call'[t].at = "threw" /\ \A u \in Threads \ {t} : call'[u] = call[u] /\ iter'[u] = iter[u]
      BY <2>4, EndCall DEF Places
    <3>2. Reach(t)'
      BY <2>1, <2>2, <3>1 DEF Reach, Covered
    <3> QED
      BY <1>c, <1>f, <2>1, <3>1, <3>2
  <2>5. CASE End(t, "done") /\ iter[t].types = {} /\ iter[t].keys = {}
    <3>1. call'[t].at = "done" /\ \A u \in Threads \ {t} : call'[u] = call[u] /\ iter'[u] = iter[u]
      BY <2>5, EndCall DEF Places
    <3>2. Reach(t)'
      BY <2>1, <2>2, <2>5 DEF Reach, Covered
    <3> QED
      BY <1>c, <1>f, <2>1, <3>1, <3>2
  <2> QED
    BY <1>12, <2>3, <2>4, <2>5 DEF LastClient, NoTypes, Fail, CallInv
<1> QED
  BY <1>1, <1>2, <1>3, <1>4, <1>5, <1>6, <1>7, <1>8, <1>9, <1>10, <1>11, <1>12
     DEF Next, LoopStep, RequestStep, BroadcastStep

-------------------------------------------------------------------------------
LEMMA Stutter == IInv /\ UNCHANGED vars => IInv'
<1> SUFFICES ASSUME IInv, UNCHANGED vars PROVE IInv'
  OBVIOUS
<1> USE DEF vars, loops
<1>1. TypeInv'
  BY DEF IInv, Inv, TypeInv
<1>2. CallInv' /\ LoopInv' /\ EntryInv'
  BY DEF IInv, Inv, CallInv, LoopInv, EntryInv, OwnEntry
<1>3. FreshInv' /\ StayedInv' /\ ReachInv'
  BY DEF IInv, FreshInv, StayedInv, ReachInv, Iterating, Covered
<1> QED
  BY <1>1, <1>2, <1>3 DEF IInv, Inv

LEMMA Invariance == Spec => []IInv
<1>1. IInv /\ [Next]_vars => IInv'
  BY StepTypes, StepCall, StepEntry, StepLoop, StepFresh, StepStayed, StepReach, Stutter DEF IInv, Inv
<1> QED
  BY InitInv, <1>1, PTL DEF Spec

(***************************************************************************)
(* broadcast and broadcastByType, unless they throw, have written to every *)
(* client that was in rpcClientMap all the time and is connected, whatever *)
(* the event loops and the requests of other threads add and remove        *)
(* meanwhile and whichever writes fail.                                    *)
(***************************************************************************)
THEOREM Reaches == Spec => []BroadcastReachesAll
<1>1. IInv => BroadcastReachesAll
  BY DEF IInv, ReachInv, Covered, Iterating, BroadcastReachesAll
<1> QED
  BY Invariance, <1>1, PTL

(***************************************************************************)
(* A client added by the application that is still in rpcClientMap is      *)
(* connected or has its removal to come, if its listener ran before its    *)
(* channelInactive: removeClient finds it by its channel and takes it out. *)
(***************************************************************************)
THEOREM Forgets == Spec => []DeadAreForgotten
<1>1. IInv => DeadAreForgotten
  BY DEF IInv, Inv, EntryInv, OwnEntry, DeadAreForgotten
<1> QED
  BY Invariance, <1>1, PTL

===============================================================================
