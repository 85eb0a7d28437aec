--------------------------- MODULE UserConnections ---------------------------
(***************************************************************************)
(* UserConnectionMgr: the users of the access server in three HashMaps, by *)
(* uid, device and remote address.  Every connection has its event loop,   *)
(* which runs the application's login (addUserInfo and, for a user who is  *)
(* there already, perhaps updateUserInfoCtx) and in the end                *)
(* AccessWebsocketHandler.channelInactive; loops of different connections  *)
(* interleave at each access of a map.  An address may be used again as    *)
(* soon as its connection is closed, before channelInactive has run.  An   *)
(* AccessUserInfo is named by the connection that created it.              *)
(***************************************************************************)
EXTENDS Naturals, FiniteSets

CONSTANTS
  Conns,    \* connections
  Address,  \* the remote address of each
  Uids,     \* user ids, 0 for none
  DevIds,   \* device ids, 0 for null or ""
  None

ASSUME ConnAssumption == None \notin Conns

VARIABLES
  uid2Info,   \* uid2InfoMap
  devId2Info, \* devId2InfoMap
  ctx2Info,   \* ctx2InfoMap
  info,       \* the AccessUserInfo objects, as [uid, devId, ctx]
  conn,       \* per connection: "new", "open", "closed" or "gone"
  loop,       \* per connection, where its event loop is
  login,      \* per connection, the uid and devId it logged in with
  user        \* per connection, the info its login returned, or its close found

maps == <<uid2Info, devId2Info, ctx2Info>>
vars == <<maps, info, conn, loop, login, user>>

Addresses == {Address[c] : c \in Conns}
NoLogin == [uid |-> 0, devId |-> 0]
NoInfo  == [uid |-> 0, devId |-> 0, ctx |-> None]

Init ==
  /\ uid2Info = [u \in Uids |-> None]
  /\ devId2Info = [d \in DevIds |-> None]
  /\ ctx2Info = [a \in Addresses |-> None]
  /\ info = [c \in Conns |-> NoInfo]
  /\ conn = [c \in Conns |-> "new"]
  /\ loop = [c \in Conns |-> "idle"]
  /\ login = [c \in Conns |-> NoLogin]
  /\ user = [c \in Conns |-> None]

Goto(c, place) == loop' = [loop EXCEPT ![c] = place]
Step(c, from, to) == loop[c] = from /\ Goto(c, to)

Open(c) == /\ conn[c] = "new"
           /\ \A d \in Conns : Address[d] = Address[c] => conn[d] # "open"
           /\ conn' = [conn EXCEPT ![c] = "open"]
           /\ UNCHANGED <<maps, info, loop, login, user>>

Close(c) == /\ conn[c] = "open"
            /\ conn' = [conn EXCEPT ![c] = "closed"]
            /\ UNCHANGED <<maps, info, loop, login, user>>
-------------------------------------------------------------------------------
(* addUserInfo *)

Login(c, uid, devId) ==
  /\ conn[c] = "open" /\ loop[c] = "idle" /\ login[c] = NoLogin
  /\ login' = [login EXCEPT ![c] = [uid |-> uid, devId |-> devId]]
  /\ Goto(c, "getUid")
  /\ UNCHANGED <<maps, info, conn, user>>

\* The info found is returned; else the login goes on.
Returns(c, found, next) ==
  /\ user' = [user EXCEPT ![c] = found]
  /\ Goto(c, IF found = None THEN next ELSE "idle")
  /\ UNCHANGED <<maps, info, conn, login>>

GetByUid(c) == /\ loop[c] = "getUid"
               /\ Returns(c, IF login[c].uid = 0 THEN None ELSE uid2Info[login[c].uid], "getDev")
GetByDevId(c) ==
  /\ loop[c] = "getDev"
  /\ Returns(c, IF login[c].devId = 0 THEN None ELSE devId2Info[login[c].devId], "putUid")

PutUid(c) ==
  /\ Step(c, "putUid", "putDev")
  /\ info' = [info EXCEPT ![c] = [uid |-> login[c].uid, devId |-> login[c].devId, ctx |-> c]]
  /\ user' = [user EXCEPT ![c] = c]
  /\ uid2Info' = IF login[c].uid = 0 THEN uid2Info ELSE [uid2Info EXCEPT ![login[c].uid] = c]
  /\ UNCHANGED <<devId2Info, ctx2Info, conn, login>>

PutDevId(c) ==
  /\ Step(c, "putDev", "putCtx")
  /\ devId2Info' = IF login[c].devId = 0 THEN devId2Info
                   ELSE [devId2Info EXCEPT ![login[c].devId] = c]
  /\ UNCHANGED <<uid2Info, ctx2Info, info, conn, login, user>>

PutCtx(c) ==
  /\ Step(c, "putCtx", "idle")
  /\ ctx2Info' = [ctx2Info EXCEPT ![Address[c]] = c]
  /\ UNCHANGED <<uid2Info, devId2Info, info, conn, login, user>>
-------------------------------------------------------------------------------
(* updateUserInfoCtx, for the info that the login found *)

RemoveOldCtx(c) ==
  /\ user[c] \notin {None, c} /\ conn[c] # "gone"
  /\ info[user[c]].ctx # c /\ Step(c, "idle", "setCtx")
  /\ ctx2Info' = [ctx2Info EXCEPT ![Address[info[user[c]].ctx]] = None]
  /\ UNCHANGED <<uid2Info, devId2Info, info, conn, login, user>>

SetCtx(c) ==
  /\ Step(c, "setCtx", "putNewCtx")
  /\ info' = [info EXCEPT ![user[c]].ctx = c, ![user[c]].uid = 0]
  /\ UNCHANGED <<maps, conn, login, user>>

PutNewCtx(c) ==
  /\ Step(c, "putNewCtx", "idle")
  /\ ctx2Info' = [ctx2Info EXCEPT ![Address[c]] = user[c]]
  /\ UNCHANGED <<uid2Info, devId2Info, info, conn, login, user>>
-------------------------------------------------------------------------------
(* channelInactive: delUserInfo *)

\* Mutation: the entry by address is looked up and stays.
GetCtx(c) ==
  LET found == ctx2Info[Address[c]]
  IN  /\ conn[c] = "closed" /\ Step(c, "idle", IF found = None THEN "end" ELSE "removeDev")
      /\ conn' = [conn EXCEPT ![c] = "gone"]
      /\ user' = [user EXCEPT ![c] = found]
      /\ UNCHANGED <<maps, info, login>>
RemoveCtx(c) ==
  LET found == ctx2Info[Address[c]]
  IN  /\ conn[c] = "closed" /\ Step(c, "idle", IF found = None THEN "end" ELSE "removeDev")
      /\ conn' = [conn EXCEPT ![c] = "gone"]
      /\ user' = [user EXCEPT ![c] = found]
      /\ ctx2Info' = [ctx2Info EXCEPT ![Address[c]] = None]
      /\ UNCHANGED <<uid2Info, devId2Info, info, login>>

RemoveDevId(c) ==
  /\ Step(c, "removeDev", "removeUid")
  /\ devId2Info' = [devId2Info EXCEPT ![info[user[c]].devId] = None]
  /\ UNCHANGED <<uid2Info, ctx2Info, info, conn, login, user>>

\* Mutation: all users without a connection of their own are cleared.
RemoveUids(c) ==
  /\ Step(c, "removeUid", "end")
  /\ uid2Info' = [u \in Uids |-> None]
  /\ UNCHANGED <<devId2Info, ctx2Info, info, conn, login, user>>
RemoveUid(c) ==
  /\ Step(c, "removeUid", "end")
  /\ uid2Info' = [uid2Info EXCEPT ![info[user[c]].uid] = None]
  /\ UNCHANGED <<devId2Info, ctx2Info, info, conn, login, user>>

AddStep(c) == GetByUid(c) \/ GetByDevId(c) \/ PutUid(c) \/ PutDevId(c) \/ PutCtx(c)
UpdateStep(c) == RemoveOldCtx(c) \/ SetCtx(c) \/ PutNewCtx(c)
DelStep(c) == RemoveCtx(c) \/ RemoveDevId(c) \/ RemoveUid(c)

Next == \E c \in Conns :
          \/ Open(c) \/ Close(c) \/ AddStep(c) \/ UpdateStep(c) \/ DelStep(c)
          \/ \E uid \in Uids, devId \in DevIds :
               (uid # 0 \/ devId # 0) /\ Login(c, uid, devId)

Spec == Init /\ [][Next]_vars
-------------------------------------------------------------------------------
SameAddress(c) == {d \in Conns \ {c} : Address[d] = Address[c] /\ conn[d] # "new"}
SameUser(c) ==
  {d \in Conns \ {c} : \/ login[c].uid # 0 /\ login[d].uid = login[c].uid
                       \/ login[c].devId # 0 /\ login[d].devId = login[c].devId}
Alone(c) == SameAddress(c) = {} /\ SameUser(c) = {}

Found(c) == /\ login[c].uid # 0 => uid2Info[login[c].uid] = c
            /\ login[c].devId # 0 => devId2Info[login[c].devId] = c
            /\ ctx2Info[Address[c]] = c

\* Whatever logins and closes of others it interleaves with, a user whose uid, device
\* and address no other connection has had is found under all of them from the end
\* of the login until the connection's channelInactive.
OthersDoNotRemove ==
  \A c \in Conns : user[c] = c /\ loop[c] = "idle" /\ Alone(c) => Found(c)

\* Infos whose uid was reset by updateUserInfoCtx.
Updated(c) == info[c].uid # login[c].uid

\* The connections that have had an info: its creator, who has it now, who logged in with it.
Owners(c) == {c, info[c].ctx} \cup {d \in Conns : user[d] = c}

\* Once all connections that have had an info are gone, no map has the info any more;
\* only updateUserInfoCtx leaves an entry of the uid behind, and only a connection that
\* used the address of one of them any other.
GoneIsForgotten ==
  \A c \in Conns :
    info[c] # NoInfo /\ (\A d \in Owners(c) : loop[d] = "end" /\ SameAddress(d) = {})
    => /\ c \notin {devId2Info[d] : d \in DevIds} \cup {ctx2Info[a] : a \in Addresses}
       /\ Updated(c) \/ c \notin {uid2Info[u] : u \in Uids}
==============================================================================
