----------------------- MODULE UserConnectionsProofs ------------------------
(***************************************************************************)
(* Who is found in the maps of UserConnectionMgr and who is forgotten, for *)
(* any connections, addresses, uids and devices.                           *)
(*                                                                         *)
(* The invariant follows an AccessUserInfo through three places at once:   *)
(* the event loop of whoever has it, the info's own fields, and the maps.  *)
(* A connection that is not gone has its own info or one related to its    *)
(* login (InfoInv); an entry by address always has a live connection of    *)
(* that address behind it (CtxMap).  So an address that only one           *)
(* connection has had cannot be cleared by another, except by the one      *)
(* that takes the user over, which is Pending until it has set the new     *)
(* entry; and while a device or an uid leads to an info, the address that  *)
(* channelInactive goes by leads there too (DevKept, UidKept).             *)
(***************************************************************************)
EXTENDS UserConnections, TLAPS

Places == {"idle", "getUid", "getDev", "putUid", "putDev", "putCtx", "setCtx", "putNewCtx",
           "removeDev", "removeUid", "end"}
Early  == {"getUid", "getDev", "putUid"}
Ending == {"removeDev", "removeUid", "end"}

TypeInv ==
  /\ uid2Info \in [Uids -> Conns \cup {None}]
  /\ devId2Info \in [DevIds -> Conns \cup {None}]
  /\ ctx2Info \in [Addresses -> Conns \cup {None}]
  /\ info \in [Conns -> [uid: Uids \cup {0}, devId: DevIds \cup {0}, ctx: Conns \cup {None}]]
  /\ conn \in [Conns -> {"new", "open", "closed", "gone"}]
  /\ loop \in [Conns -> Places]
  /\ login \in [Conns -> [uid: Uids \cup {0}, devId: DevIds \cup {0}]]
  /\ user \in [Conns -> Conns \cup {None}]

Known(x) == info[x] # NoInfo

\* The logins of d and x have the uid or the device in common.
Related(d, x) == \/ login[x].uid # 0 /\ login[d].uid = login[x].uid
                 \/ login[x].devId # 0 /\ login[d].devId = login[x].devId

\* Where an event loop is, and what it has done by then.
LoopInv ==
  \A c \in Conns :
    /\ conn[c] = "gone" <=> loop[c] \in Ending
    /\ login[c] = NoLogin => /\ loop[c] \in {"idle"} \cup Ending
                             /\ conn[c] # "gone" => user[c] = None
    /\ conn[c] = "new" => login[c] = NoLogin
    /\ login[c] = NoLogin \/ loop[c] \in Early => ~Known(c)
    /\ loop[c] \in Early => user[c] = None
    /\ loop[c] \in {"putDev", "putCtx"} => Known(c)
    /\ loop[c] \in {"setCtx", "putNewCtx"} => user[c] \notin {None, c}
    /\ loop[c] \in {"removeDev", "removeUid"} => user[c] # None

\* Who has an info: until its channelInactive, the connection that logged in with it;
\* and what the info says.
InfoSays(c) ==
  LET e == info[c].ctx
  IN  /\ info[c].uid \in {login[c].uid, 0}
      /\ e # c => info[c].uid = 0
      /\ info[c].devId = login[c].devId
      /\ e \in Conns /\ conn[e] # "new"
      /\ conn[e] # "gone" => user[e] = c
      /\ e = c \/ Related(e, c)
InfoInv ==
  \A c \in Conns :
    /\ conn[c] # "gone" => /\ Known(c) => user[c] = c
                           /\ user[c] # None => /\ Known(user[c])
                                                /\ user[c] = c \/ Related(c, user[c])
    /\ Known(c) => InfoSays(c)

\* What the maps have, and what channelInactive finds.
UidMap ==
  \A u \in Uids : uid2Info[u] # None =>
    u # 0 /\ login[uid2Info[u]].uid = u /\ Known(uid2Info[u])
DevMap ==
  \A d \in DevIds : devId2Info[d] # None =>
    /\ d # 0 /\ login[devId2Info[d]].devId = d /\ Known(devId2Info[d])
    /\ loop[devId2Info[d]] # "putDev"
CtxMap ==
  \A a \in Addresses : ctx2Info[a] # None =>
    \E e \in Conns : Address[e] = a /\ conn[e] # "gone" /\ user[e] = ctx2Info[a]
GoneInv ==
  \A d \in Conns : conn[d] = "gone" /\ user[d] # None =>
    /\ Known(user[d])
    /\ \E e \in Conns : /\ Address[e] = Address[d] /\ conn[e] # "new"
                        /\ e = user[d] \/ Related(e, user[d])
MapInv == UidMap /\ DevMap /\ CtxMap /\ GoneInv

\* A user alone is in each map from its put on.
Staying(c) == user[c] = c /\ loop[c] = "idle"
Kept ==
  \A c \in Conns : Alone(c) =>
    /\ loop[c] \in {"putDev", "putCtx"} \/ Staying(c) =>
         (login[c].uid # 0 => uid2Info[login[c].uid] = c)
    /\ loop[c] = "putCtx" \/ Staying(c) =>
         (login[c].devId # 0 => devId2Info[login[c].devId] = c)
    /\ Staying(c) => ctx2Info[Address[c]] = c

\* Somebody has removed the old address of c and has not set the new one.
Pending(c) == \E f \in Conns : user[f] = c /\ loop[f] = "setCtx"

\* While a device leads to c, the connection that created it or the one that has it
\* now will find it by its address, or is about to remove the device.
Finds(e, c) == ctx2Info[Address[e]] = c \/ (loop[e] = "removeDev" /\ user[e] = c)
DevKept ==
  \A c \in Conns, d \in DevIds :
    LET e == info[c].ctx
    IN  devId2Info[d] = c /\ ~Pending(c) /\ SameAddress(c) = {} /\ SameAddress(e) = {} =>
          \/ loop[c] = "putCtx" \/ Finds(c, c)
          \/ loop[e] = "putNewCtx" /\ user[e] = c
          \/ Finds(e, c)

\* The same of a uid, if the info was never given to another connection.
UidKept ==
  \A c \in Conns, u \in Uids :
    uid2Info[u] = c /\ ~Updated(c) /\ ~Pending(c) /\ SameAddress(c) = {} =>
      \/ loop[c] \in {"putDev", "putCtx"} \/ ctx2Info[Address[c]] = c
      \/ loop[c] \in {"removeDev", "removeUid"} /\ user[c] = c

\* A step of the event loop of c, or of its peer.
Moves(c) ==
  \/ Open(c) \/ Close(c) \/ AddStep(c) \/ UpdateStep(c) \/ DelStep(c)
  \/ \E uid \in Uids, devId \in DevIds : (uid # 0 \/ devId # 0) /\ Login(c, uid, devId)

Inv == TypeInv /\ LoopInv /\ InfoInv /\ MapInv
IInv == Inv /\ Kept /\ DevKept /\ UidKept
-------------------------------------------------------------------------------
LEMMA InitInv == Init => IInv
<1> SUFFICES ASSUME Init PROVE IInv
  OBVIOUS
<1> USE ConnAssumption DEF Init, NoLogin, NoInfo
<1>1. TypeInv
  BY DEF TypeInv, Places
<1>2. LoopInv
  BY DEF LoopInv, Known, Ending, Early
<1>3. InfoInv
  BY DEF InfoInv, InfoSays, Known
<1>4. MapInv
  BY DEF MapInv, UidMap, DevMap, CtxMap, GoneInv
<1>5. Kept
  BY DEF Kept, Staying
<1>6. DevKept /\ UidKept
  BY DEF DevKept, UidKept
<1> QED
  BY <1>1, <1>2, <1>3, <1>4, <1>5, <1>6 DEF IInv, Inv

LEMMA SetCtxInfo ==
  ASSUME TypeInv, NEW c \in Conns, SetCtx(c)
  PROVE  info' = IF user[c] = None THEN info
                 ELSE [info EXCEPT ![user[c]] = [uid |-> 0, devId |-> info[user[c]].devId, ctx |-> c]]
<1>1. info' = [info EXCEPT ![user[c]] = [info[user[c]] EXCEPT !.ctx = c, !.uid = 0]]
  BY DEF SetCtx, TypeInv
<1>2. CASE user[c] = None
  BY <1>1, <1>2, ConnAssumption DEF TypeInv
<1>3. CASE user[c] \in Conns
  <2>1. info[user[c]] \in [uid: Uids \cup {0}, devId: DevIds \cup {0}, ctx: Conns \cup {None}]
    BY <1>3 DEF TypeInv
  <2>2. PICK r \in [uid: Uids \cup {0}, devId: DevIds \cup {0}, ctx: Conns \cup {None}] :
          r = info[user[c]]
    BY <2>1
  <2>3. [r EXCEPT !.ctx = c, !.uid = 0] = [uid |-> 0, devId |-> r.devId, ctx |-> c]
    <3>1. [r EXCEPT !.ctx = c] = [uid |-> r.uid, devId |-> r.devId, ctx |-> c]
      OBVIOUS
    <3>2. \A s : s = [uid |-> r.uid, devId |-> r.devId, ctx |-> c]
                 => [s EXCEPT !.uid = 0] = [uid |-> 0, devId |-> r.devId, ctx |-> c]
      OBVIOUS
    <3>3. [[r EXCEPT !.ctx = c] EXCEPT !.uid = 0] = [uid |-> 0, devId |-> r.devId, ctx |-> c]
      BY <3>1, <3>2, Zenon
    <3> QED
      BY <3>3, Zenon
  <2>4. info' = [info EXCEPT ![user[c]] = [uid |-> 0, devId |-> r.devId, ctx |-> c]]
    BY <1>1, <2>2, <2>3, Zenon
  <2> QED
    BY <1>3, <2>2, <2>4, ConnAssumption
<1> QED
  BY <1>2, <1>3 DEF TypeInv

LEMMA StepTypes ==
  ASSUME TypeInv, NEW c \in Conns,
         Moves(c)
  PROVE  TypeInv'
<1> USE DEF TypeInv, maps, Goto, Step, Places
<1>1. CASE Open(c) \/ Close(c)
  BY <1>1 DEF Open, Close
<1>2. CASE \E uid \in Uids, devId \in DevIds : Login(c, uid, devId)
  BY <1>2 DEF Login
<1>3. CASE GetByUid(c)
  BY <1>3 DEF GetByUid, Returns
<1>4. CASE GetByDevId(c)
  BY <1>4 DEF GetByDevId, Returns
<1>5. CASE PutUid(c)
  BY <1>5 DEF PutUid
<1>6. CASE PutDevId(c) \/ PutCtx(c)
  BY <1>6 DEF PutDevId, PutCtx
<1>7. CASE RemoveOldCtx(c) \/ PutNewCtx(c)
  BY <1>7 DEF RemoveOldCtx, PutNewCtx
<1>8. CASE SetCtx(c)
  <2>1. info' \in [Conns -> [uid: Uids \cup {0}, devId: DevIds \cup {0}, ctx: Conns \cup {None}]]
    BY <1>8, SetCtxInfo
  <2> QED
    BY <1>8, <2>1 DEF SetCtx
<1>9. CASE RemoveCtx(c)
  BY <1>9 DEF RemoveCtx, Addresses
<1>10. CASE RemoveDevId(c) \/ RemoveUid(c)
  BY <1>10 DEF RemoveDevId, RemoveUid
<1> QED
  BY <1>1, <1>2, <1>3, <1>4, <1>5, <1>6, <1>7, <1>8, <1>9, <1>10 DEF Moves, AddStep, UpdateStep,
       DelStep

LEMMA StepLoop ==
  ASSUME Inv, NEW c \in Conns,
         Moves(c)
  PROVE  LoopInv'
<1> USE ConnAssumption DEF Inv, TypeInv, LoopInv, maps, Goto, Step, Ending, Early, Known,
     NoLogin, NoInfo
<1>1. CASE Open(c) \/ Close(c)
  BY <1>1 DEF Open, Close
<1>2. CASE \E uid \in Uids, devId \in DevIds : (uid # 0 \/ devId # 0) /\ Login(c, uid, devId)
  BY <1>2 DEF Login
<1>3. CASE GetByUid(c)
  BY <1>3 DEF GetByUid, Returns
<1>4. CASE GetByDevId(c)
  BY <1>4 DEF GetByDevId, Returns
<1>5. CASE PutUid(c)
  BY <1>5 DEF PutUid
<1>6. CASE PutDevId(c) \/ PutCtx(c)
  BY <1>6 DEF PutDevId, PutCtx
<1>7. CASE RemoveOldCtx(c) \/ PutNewCtx(c)
  BY <1>7 DEF RemoveOldCtx, PutNewCtx
<1>8. CASE SetCtx(c)
  BY <1>8 DEF SetCtx, InfoInv, InfoSays
<1>9. CASE RemoveCtx(c)
  BY <1>9 DEF RemoveCtx, Addresses
<1>10. CASE RemoveDevId(c) \/ RemoveUid(c)
  BY <1>10 DEF RemoveDevId, RemoveUid
<1> QED
  BY <1>1, <1>2, <1>3, <1>4, <1>5, <1>6, <1>7, <1>8, <1>9, <1>10 DEF Moves, AddStep, UpdateStep,
       DelStep
(* Connections are never new again, logins are made once, infos are not undone. *)
LEMMA NeverNew ==
  ASSUME TypeInv, NEW c \in Conns, Moves(c)
  PROVE  \A d \in Conns : conn'[d] = "new" => conn[d] = "new"
BY DEF Moves, TypeInv, AddStep, UpdateStep, DelStep, Open, Close, Login, GetByUid, GetByDevId,
     Returns,
       PutUid, PutDevId, PutCtx, RemoveOldCtx, SetCtx, PutNewCtx, RemoveCtx, RemoveDevId, RemoveUid

LEMMA OneLogin ==
  ASSUME TypeInv, NEW c \in Conns, Moves(c)
  PROVE  \A d \in Conns : login[d] # NoLogin => login'[d] = login[d]
BY DEF Moves, TypeInv, AddStep, UpdateStep, DelStep, Open, Close, Login, GetByUid, GetByDevId,
     Returns,
       PutUid, PutDevId, PutCtx, RemoveOldCtx, SetCtx, PutNewCtx, RemoveCtx, RemoveDevId, RemoveUid

LEMMA Grows ==
  ASSUME Inv, NEW c \in Conns, Moves(c)
  PROVE  /\ \A d \in Conns : Known(d) => Known(d)' /\ login'[d] = login[d]
         /\ \A d, x \in Conns : Related(d, x) => Related(d, x)'
<1>1. \A d, x \in Conns : Related(d, x) => login[d] # NoLogin /\ login[x] # NoLogin
  BY DEF Related, NoLogin
<1>2. \A d \in Conns : Known(d) => login[d] # NoLogin
  BY DEF Inv, LoopInv
<1>3. \A d \in Conns : info'[d] = info[d] \/ (info'[d].ctx = c /\ c # None)
  BY ConnAssumption, SetCtxInfo
     DEF Moves, Inv, TypeInv, AddStep, UpdateStep, DelStep, Open, Close, Login, GetByUid,
          GetByDevId, Returns,
       PutUid, PutDevId, PutCtx, RemoveOldCtx, SetCtx, PutNewCtx, RemoveCtx, RemoveDevId, RemoveUid
<1>4. \A d \in Conns : Known(d) => Known(d)'
  BY <1>3 DEF Known, NoInfo
<1> QED
  BY <1>1, <1>2, <1>4, OneLogin DEF Inv, Related

LEMMA StepInfo ==
  ASSUME Inv, TypeInv', NEW c \in Conns, Moves(c)
  PROVE  InfoInv'
<1>a. /\ \A d \in Conns : Known(d) => Known(d)' /\ login'[d] = login[d]
      /\ \A d, x \in Conns : Related(d, x) => Related(d, x)'
      /\ \A d \in Conns : conn'[d] = "new" => conn[d] = "new"
  BY Grows, NeverNew DEF Inv
<1> USE ConnAssumption DEF Inv, TypeInv, InfoInv, InfoSays, Goto, Step
<1>1. ASSUME user' = user, info' = info, \A d \in Conns : conn'[d] = "gone" <=> conn[d] = "gone"
      PROVE  InfoInv'
  BY <1>1, <1>a DEF Known
<1>2. CASE Open(c) \/ Close(c)
  BY <1>1, <1>2 DEF Open, Close
<1>3. CASE \E uid \in Uids, devId \in DevIds : (uid # 0 \/ devId # 0) /\ Login(c, uid, devId)
  BY <1>1, <1>3 DEF Login
<1>4. CASE GetByUid(c) \/ GetByDevId(c)
  <2>1. /\ user'[c] # None => Known(user'[c]) /\ Related(c, user'[c])
        /\ ~Known(c) /\ user[c] = None
    <3>1. CASE GetByUid(c)
      BY <3>1 DEF GetByUid, Returns, MapInv, UidMap, LoopInv, Early, Related
    <3>2. CASE GetByDevId(c)
      BY <3>2 DEF GetByDevId, Returns, MapInv, DevMap, LoopInv, Early, Related
    <3> QED
      BY <1>4, <3>1, <3>2
  <2>2. /\ \A d \in Conns \ {c} : user'[d] = user[d]
        /\ info' = info /\ conn' = conn /\ login' = login
    BY <1>4 DEF GetByUid, GetByDevId, Returns
  <2> QED
    BY <2>1, <2>2 DEF Known, Related
<1>5. CASE PutUid(c)
  <2>1. /\ info'[c] = [uid |-> login[c].uid, devId |-> login[c].devId, ctx |-> c] /\ user'[c] = c
        /\ conn' = conn /\ login' = login
        /\ \A d \in Conns \ {c} : user'[d] = user[d] /\ info'[d] = info[d]
    BY <1>5 DEF PutUid
  <2>2. ~Known(c) /\ user[c] = None /\ conn[c] # "new"
    BY <1>5 DEF PutUid, LoopInv, Early, Ending, NoLogin
  <2>3. \A d \in Conns \ {c} : Known(d)' <=> Known(d)
    BY <2>1 DEF Known
  <2>4. \A d \in Conns \ {c} : Known(d) => info[d].ctx # c
    BY <2>2, <1>5 DEF PutUid, LoopInv, Ending
  <2>5. \A d \in Conns : conn'[d] # "gone" =>
          /\ Known(d)' => user'[d] = d
          /\ user'[d] # None => Known(user[d])' /\ (user'[d] = d \/ Related(d, user[d])')
    BY <2>1, <2>2, <2>3, <1>a DEF Known, NoInfo
  <2>6. \A d \in Conns \ {c} : Known(d) => user'[info[d].ctx] = user[info[d].ctx]
    BY <2>1, <2>4
  <2> SUFFICES ASSUME NEW d \in Conns, Known(d)'
               PROVE  InfoSays(d)'
    BY <2>5
  <2>7. CASE d = c
    BY <2>1, <2>2, <2>7
  <2>8. CASE d # c
    <3>1. Known(d) /\ info'[d] = info[d] /\ user'[info[d].ctx] = user[info[d].ctx]
      BY <2>1, <2>3, <2>6, <2>8
    <3> QED
      BY <2>1, <3>1 DEF Related
  <2> QED
    BY <2>7, <2>8
<1>6. CASE PutDevId(c) \/ PutCtx(c) \/ RemoveOldCtx(c) \/ PutNewCtx(c) \/ RemoveDevId(c) \/ RemoveUid(c)
  BY <1>1, <1>6 DEF PutDevId, PutCtx, RemoveOldCtx, PutNewCtx, RemoveDevId, RemoveUid
<1>7. CASE SetCtx(c)
  <2>1. PICK y \in Conns : y = user[c] /\ y # c /\ conn[c] \notin {"new", "gone"}
    BY <1>7 DEF SetCtx, LoopInv, Ending
  <2>2. /\ info' = [info EXCEPT ![y] = [uid |-> 0, devId |-> info[y].devId, ctx |-> c]]
        /\ user' = user /\ conn' = conn /\ login' = login
    BY <1>7, <2>1, SetCtxInfo DEF SetCtx
  <2>3. Known(y) /\ Related(c, y)
    BY <2>1
  <2>4. \A d \in Conns : Known(d)' <=> Known(d)
    BY <2>2, <2>3, <1>a DEF Known
  <2>5. \A d \in Conns : conn'[d] # "gone" =>
          /\ Known(d)' => user'[d] = d
          /\ user'[d] # None => Known(user[d])' /\ (user'[d] = d \/ Related(d, user[d])')
    BY <2>2, <2>4, <1>a DEF Related
  <2> QED
    BY <2>1, <2>2, <2>3, <2>4, <2>5 DEF Related
<1>8. CASE RemoveCtx(c)
  BY <1>8 DEF RemoveCtx, Known, Related
<1> QED
  BY <1>2, <1>3, <1>4, <1>5, <1>6, <1>7, <1>8 DEF Moves, AddStep, UpdateStep, DelStep

LEMMA StepUidMap ==
  ASSUME Inv, TypeInv', NEW c \in Conns,
         Moves(c)
  PROVE  UidMap'
<1> USE ConnAssumption DEF Inv, TypeInv, LoopInv, InfoInv, InfoSays, MapInv, maps, Goto, Step,
     Ending, Early, Known, NoLogin, NoInfo, UidMap
<1>1. CASE Open(c)
  BY <1>1 DEF Open
<1>2. CASE Close(c)
  BY <1>2 DEF Close
<1>3. CASE \E uid \in Uids, devId \in DevIds : (uid # 0 \/ devId # 0) /\ Login(c, uid, devId)
  BY <1>3 DEF Login
<1>4. CASE GetByUid(c)
  BY <1>4 DEF GetByUid, Returns
<1>5. CASE GetByDevId(c)
  BY <1>5 DEF GetByDevId, Returns
<1>6. CASE PutUid(c)
  BY <1>6 DEF PutUid
<1>7. CASE PutDevId(c)
  BY <1>7 DEF PutDevId
<1>8. CASE PutCtx(c)
  BY <1>8 DEF PutCtx
<1>9. CASE RemoveOldCtx(c)
  BY <1>9 DEF RemoveOldCtx
<1>10. CASE SetCtx(c)
  BY <1>10, SetCtxInfo DEF SetCtx
<1>11. CASE PutNewCtx(c)
  BY <1>11 DEF PutNewCtx
<1>12. CASE RemoveCtx(c)
  BY <1>12 DEF RemoveCtx
<1>13. CASE RemoveDevId(c)
  BY <1>13 DEF RemoveDevId
<1>14. CASE RemoveUid(c)
  BY <1>14 DEF RemoveUid
<1> QED
  BY <1>1, <1>2, <1>3, <1>4, <1>5, <1>6, <1>7, <1>8, <1>9, <1>10, <1>11, <1>12, <1>13, <1>14
     DEF Moves, AddStep, UpdateStep, DelStep

LEMMA StepDevMap ==
  ASSUME Inv, TypeInv', NEW c \in Conns,
         Moves(c)
  PROVE  DevMap'
<1> USE ConnAssumption DEF Inv, TypeInv, LoopInv, InfoInv, InfoSays, MapInv, maps, Goto, Step,
     Ending, Early, Known, NoLogin, NoInfo, DevMap
<1>1. CASE Open(c)
  BY <1>1 DEF Open
<1>2. CASE Close(c)
  BY <1>2 DEF Close
<1>3. CASE \E uid \in Uids, devId \in DevIds : (uid # 0 \/ devId # 0) /\ Login(c, uid, devId)
  BY <1>3 DEF Login
<1>4. CASE GetByUid(c)
  BY <1>4 DEF GetByUid, Returns
<1>5. CASE GetByDevId(c)
  BY <1>5 DEF GetByDevId, Returns
<1>6. CASE PutUid(c)
  BY <1>6 DEF PutUid
<1>7. CASE PutDevId(c)
  BY <1>7 DEF PutDevId
<1>8. CASE PutCtx(c)
  BY <1>8 DEF PutCtx
<1>9. CASE RemoveOldCtx(c)
  BY <1>9 DEF RemoveOldCtx
<1>10. CASE SetCtx(c)
  BY <1>10, SetCtxInfo DEF SetCtx
<1>11. CASE PutNewCtx(c)
  BY <1>11 DEF PutNewCtx
<1>12. CASE RemoveCtx(c)
  BY <1>12 DEF RemoveCtx
<1>13. CASE RemoveDevId(c)
  BY <1>13 DEF RemoveDevId
<1>14. CASE RemoveUid(c)
  BY <1>14 DEF RemoveUid
<1> QED
  BY <1>1, <1>2, <1>3, <1>4, <1>5, <1>6, <1>7, <1>8, <1>9, <1>10, <1>11, <1>12, <1>13, <1>14
     DEF Moves, AddStep, UpdateStep, DelStep

LEMMA StepCtxMap ==
  ASSUME Inv, TypeInv', NEW c \in Conns,
         Moves(c)
  PROVE  CtxMap'
<1> USE ConnAssumption DEF Inv, TypeInv, LoopInv, InfoInv, InfoSays, MapInv, maps, Goto, Step,
     Ending, Early, Known, NoLogin, NoInfo, CtxMap, Addresses
<1>1. CASE Open(c)
  BY <1>1 DEF Open
<1>2. CASE Close(c)
  BY <1>2 DEF Close
<1>3. CASE \E uid \in Uids, devId \in DevIds : (uid # 0 \/ devId # 0) /\ Login(c, uid, devId)
  BY <1>3 DEF Login
<1>4. CASE GetByUid(c)
  BY <1>4 DEF GetByUid, Returns
<1>5. CASE GetByDevId(c)
  BY <1>5 DEF GetByDevId, Returns
<1>6. CASE PutUid(c)
  BY <1>6 DEF PutUid
<1>7. CASE PutDevId(c)
  BY <1>7 DEF PutDevId
<1>8. CASE PutCtx(c)
  BY <1>8 DEF PutCtx
<1>9. CASE RemoveOldCtx(c)
  BY <1>9 DEF RemoveOldCtx
<1>10. CASE SetCtx(c)
  BY <1>10, SetCtxInfo DEF SetCtx
<1>11. CASE PutNewCtx(c)
  BY <1>11 DEF PutNewCtx
<1>12. CASE RemoveCtx(c)
  BY <1>12 DEF RemoveCtx
<1>13. CASE RemoveDevId(c)
  BY <1>13 DEF RemoveDevId
<1>14. CASE RemoveUid(c)
  BY <1>14 DEF RemoveUid
<1> QED
  BY <1>1, <1>2, <1>3, <1>4, <1>5, <1>6, <1>7, <1>8, <1>9, <1>10, <1>11, <1>12, <1>13, <1>14
     DEF Moves, AddStep, UpdateStep, DelStep

LEMMA StepGone ==
  ASSUME Inv, TypeInv', NEW c \in Conns, Moves(c)
  PROVE  GoneInv'
<1> SUFFICES ASSUME NEW d \in Conns, conn'[d] = "gone", user'[d] # None
             PROVE  /\ Known(user[d])'
                    /\ \E e \in Conns : /\ Address[e] = Address[d] /\ conn'[e] # "new"
                                        /\ e = user'[d] \/ Related(e, user[d])'
  BY DEF GoneInv
<1>1. user'[d] \in Conns
  BY DEF TypeInv
<1>2. /\ \A x \in Conns : Known(x) => Known(x)'
      /\ \A e, x \in Conns : Related(e, x) => Related(e, x)'
      /\ \A e \in Conns : conn'[e] = "new" => conn[e] = "new"
  BY Grows, NeverNew DEF Inv
<1>3. ASSUME NEW x \in Conns, x = user'[d], Known(x),
             NEW e \in Conns, Address[e] = Address[d], conn[e] # "new", e = x \/ Related(e, x)
      PROVE  /\ Known(user[d])'
             /\ \E f \in Conns : /\ Address[f] = Address[d] /\ conn'[f] # "new"
                                 /\ f = user'[d] \/ Related(f, user[d])'
  <2>1. Known(x)' /\ (e = x \/ Related(e, x)') /\ conn'[e] # "new"
    BY <1>2, <1>3
  <2> QED
    BY <1>3, <2>1 DEF Known, Related
<1>4. CASE RemoveCtx(c) /\ d = c
  <2>1. user'[d] = ctx2Info[Address[d]] /\ Address[d] \in Addresses
    BY <1>4 DEF RemoveCtx, Addresses, Inv, TypeInv
  <2>2. PICK e \in Conns : Address[e] = Address[d] /\ conn[e] # "gone" /\ user[e] = user'[d]
    BY <2>1 DEF Inv, MapInv, CtxMap
  <2>3. conn[e] # "new" /\ Known(user[e]) /\ (e = user[e] \/ Related(e, user[e]))
    BY <2>2 DEF Inv, LoopInv, InfoInv, InfoSays
  <2> QED
    BY <1>1, <1>3, <2>2, <2>3
<1>5. CASE ~(RemoveCtx(c) /\ d = c)
  <2>1. conn[d] = "gone" /\ user'[d] = user[d]
    BY <1>5, ConnAssumption DEF Inv, TypeInv, LoopInv, Moves, AddStep, UpdateStep, DelStep, Open,
         Close, Login,
         GetByUid, GetByDevId, Returns, PutUid, PutDevId, PutCtx, RemoveOldCtx, SetCtx, PutNewCtx,
         RemoveCtx, RemoveDevId, RemoveUid, Step, Ending
  <2>2. /\ Known(user[d])
        /\ \E e \in Conns : /\ Address[e] = Address[d] /\ conn[e] # "new"
                            /\ e = user[d] \/ Related(e, user[d])
    BY <2>1 DEF Inv, MapInv, GoneInv
  <2> QED
    BY <1>1, <1>3, <2>1, <2>2
<1> QED
  BY <1>4, <1>5

LEMMA StepInv ==
  ASSUME Inv, NEW c \in Conns, Moves(c)
  PROVE  Inv'
<1>1. TypeInv'
  BY StepTypes DEF Inv
<1> QED
  BY <1>1, StepLoop, StepInfo, StepUidMap, StepDevMap, StepCtxMap, StepGone DEF Inv, MapInv

-------------------------------------------------------------------------------
LEMMA AloneBefore ==
  ASSUME Inv, NEW c \in Conns, Moves(c), NEW x \in Conns
  PROVE  /\ SameAddress(x)' = {} => SameAddress(x) = {}
         /\ Alone(x)' => Alone(x)
<1>1. SameAddress(x) \subseteq SameAddress(x)'
  BY NeverNew DEF SameAddress, Inv
<1>2. SameUser(x) \subseteq SameUser(x)'
  BY OneLogin DEF SameUser, Inv, NoLogin
<1> QED
  BY <1>1, <1>2 DEF Alone

LEMMA AloneOwn ==
  ASSUME Inv, NEW x \in Conns, Alone(x), NEW d \in Conns, user[d] = x
  PROVE  d = x
<1> USE DEF Inv, Alone, SameAddress, SameUser, Related
<1>1. CASE conn[d] # "gone"
  BY <1>1, ConnAssumption DEF InfoInv, InfoSays
<1>2. CASE conn[d] = "gone"
  <2>1. PICK e \in Conns : /\ Address[e] = Address[d] /\ conn[e] # "new"
                           /\ e = x \/ Related(e, x)
    BY <1>2, ConnAssumption DEF MapInv, GoneInv
  <2>2. e = x
    BY <2>1
  <2> QED
    BY <1>2, <2>1, <2>2
<1> QED
  BY <1>1, <1>2

(* An address that no other connection has had leads only to the user of its own. *)
LEMMA CtxOwner ==
  ASSUME Inv, NEW e \in Conns, SameAddress(e) = {}, NEW x \in Conns, ctx2Info[Address[e]] = x
  PROVE  conn[e] # "gone" /\ user[e] = x
<1>1. PICK o \in Conns : Address[o] = Address[e] /\ conn[o] # "gone" /\ user[o] = x
  BY ConnAssumption DEF Inv, MapInv, CtxMap, Addresses
<1>2. conn[o] # "new"
  BY <1>1, ConnAssumption DEF Inv, LoopInv
<1> QED
  BY <1>1, <1>2 DEF SameAddress

-------------------------------------------------------------------------------
LEMMA StepKept ==
  ASSUME Inv, Kept, NEW c \in Conns, Moves(c)
  PROVE  Kept'
<1> SUFFICES ASSUME NEW x \in Conns, Alone(x)'
             PROVE  /\ loop'[x] \in {"putDev", "putCtx"} \/ Staying(x)' =>
                         (login'[x].uid # 0 => uid2Info'[login'[x].uid] = x)
                    /\ loop'[x] = "putCtx" \/ Staying(x)' =>
                         (login'[x].devId # 0 => devId2Info'[login'[x].devId] = x)
                    /\ Staying(x)' => ctx2Info'[Address[x]] = x
  BY DEF Kept
<1>0. Alone(x)
  BY AloneBefore
<1>a. /\ loop[x] \in {"putDev", "putCtx"} \/ Staying(x) =>
           (login[x].uid # 0 => uid2Info[login[x].uid] = x)
      /\ loop[x] = "putCtx" \/ Staying(x) =>
           (login[x].devId # 0 => devId2Info[login[x].devId] = x)
      /\ Staying(x) => ctx2Info[Address[x]] = x
  BY <1>0 DEF Kept
<1>b. /\ \A d \in Conns : conn[d] # "new" /\ Address[d] = Address[x] => d = x
      /\ \A d \in Conns : Related(d, x) => d = x
  BY <1>0 DEF Alone, SameAddress, SameUser, Related
<1>c. Address[x] \in Addresses
  BY DEF Addresses
<1> USE <1>a, ConnAssumption DEF Inv, TypeInv, Staying, maps, Goto, Step
<1>1. CASE Open(c) \/ Close(c)
  BY <1>1 DEF Open, Close
<1>2. CASE \E uid \in Uids, devId \in DevIds : (uid # 0 \/ devId # 0) /\ Login(c, uid, devId)
  BY <1>2 DEF Login, LoopInv
<1>3. CASE GetByUid(c)
  BY <1>3 DEF GetByUid, Returns, MapInv, UidMap, LoopInv, Early, Ending
<1>4. CASE GetByDevId(c)
  BY <1>4 DEF GetByDevId, Returns, MapInv, DevMap, LoopInv, Early, Ending
<1>5. CASE PutUid(c)
  BY <1>5, <1>b DEF PutUid, Related
<1>6. CASE PutDevId(c)
  BY <1>6, <1>b DEF PutDevId, Related
<1>7. CASE PutCtx(c)
  BY <1>7, <1>b, <1>c DEF PutCtx, LoopInv, NoLogin, Ending
<1>8. CASE RemoveOldCtx(c)
  <2> DEFINE y == user[c]
             e == info[y].ctx
  <2>1. y \in Conns /\ conn[c] # "gone"
    BY <1>8 DEF RemoveOldCtx
  <2>2. e \in Conns /\ conn[e] # "new" /\ (conn[e] # "gone" => user[e] = y)
    BY <2>1 DEF InfoInv, InfoSays
  <2>3. ASSUME Staying(x), Address[e] = Address[x]
        PROVE  FALSE
    <3>1. e = x
      BY <2>2, <2>3, <1>b
    <3>2. y = x
      BY <2>2, <2>3, <3>1 DEF LoopInv, Ending
    <3> QED
      BY <1>0, <1>8, <3>2, AloneOwn DEF RemoveOldCtx
  <2> QED
    BY <1>8, <2>3 DEF RemoveOldCtx
<1>9. CASE SetCtx(c)
  BY <1>9 DEF SetCtx
<1>10. CASE PutNewCtx(c)
  BY <1>10, <1>b, <1>c DEF PutNewCtx, LoopInv, Ending
<1>11. CASE RemoveCtx(c)
  BY <1>11, <1>b, <1>c DEF RemoveCtx
<1>12. CASE RemoveDevId(c)
  <2> DEFINE y == user[c]
  <2>1. y \in Conns /\ conn[c] = "gone" /\ info[y].devId = login[y].devId
    BY <1>12 DEF RemoveDevId, LoopInv, Ending, InfoInv, InfoSays, MapInv, GoneInv
  <2>2. c # x => y # x
    BY <1>0, AloneOwn
  <2>3. c # x /\ login[x].devId # 0 => info[y].devId # login[x].devId
    BY <2>1, <2>2, <1>b DEF Related
  <2> QED
    BY <1>12, <2>3 DEF RemoveDevId
<1>13. CASE RemoveUid(c)
  <2> DEFINE y == user[c]
  <2>1. y \in Conns /\ conn[c] = "gone" /\ info[y].uid \in {login[y].uid, 0}
    BY <1>13 DEF RemoveUid, LoopInv, Ending, InfoInv, InfoSays, MapInv, GoneInv
  <2>2. c # x => y # x
    BY <1>0, AloneOwn
  <2>3. c # x /\ login[x].uid # 0 => info[y].uid # login[x].uid
    BY <2>1, <2>2, <1>b DEF Related
  <2> QED
    BY <1>13, <2>3 DEF RemoveUid
<1> QED
  BY <1>1, <1>2, <1>3, <1>4, <1>5, <1>6, <1>7, <1>8, <1>9, <1>10, <1>11, <1>12, <1>13
     DEF Moves, AddStep, UpdateStep, DelStep

-------------------------------------------------------------------------------
(* Only a connection that takes the user over, or its own channelInactive, removes the
   entry of a connection whose address no other has had. *)
LEMMA CtxStays ==
  ASSUME Inv, NEW c \in Conns, Moves(c),
         NEW e \in Conns, SameAddress(e) = {}, NEW x \in Conns, ctx2Info[Address[e]] = x
  PROVE  \/ ctx2Info'[Address[e]] = x
         \/ RemoveOldCtx(c) /\ user[c] = x
         \/ RemoveCtx(c) /\ c = e
<1>1. conn[e] # "gone" /\ user[e] = x /\ Address[e] \in Addresses
  BY CtxOwner DEF Addresses
<1>2. \A d \in Conns : conn[d] # "new" /\ Address[d] = Address[e] => d = e
  BY DEF SameAddress
<1> USE ConnAssumption DEF Inv, TypeInv, maps, Goto, Step
<1>3. CASE RemoveOldCtx(c)
  <2> DEFINE y == user[c]
  <2>1. y \in Conns /\ conn[c] # "gone"
    BY <1>3 DEF RemoveOldCtx
  <2>2. info[y].ctx \in Conns /\ conn[info[y].ctx] # "new"
        /\ (conn[info[y].ctx] # "gone" => user[info[y].ctx] = y)
    BY <2>1 DEF InfoInv, InfoSays
  <2>3. Address[info[y].ctx] = Address[e] => y = x
    BY <1>1, <1>2, <2>2
  <2> QED
    BY <1>3, <2>3 DEF RemoveOldCtx
<1>4. CASE PutCtx(c)
  <2>1. user[c] = c /\ conn[c] # "new"
    BY <1>4 DEF PutCtx, LoopInv, InfoInv, Ending
  <2> QED
    BY <1>1, <1>2, <1>4, <2>1 DEF PutCtx
<1>5. CASE PutNewCtx(c)
  <2>1. conn[c] # "new"
    BY <1>5 DEF PutNewCtx, LoopInv, Ending
  <2> QED
    BY <1>1, <1>2, <1>5, <2>1 DEF PutNewCtx
<1>6. CASE RemoveCtx(c)
  BY <1>1, <1>2, <1>6 DEF RemoveCtx
<1>7. CASE ctx2Info' = ctx2Info
  BY <1>7
<1> QED
  BY <1>3, <1>4, <1>5, <1>6, <1>7
     DEF Moves, AddStep, UpdateStep, DelStep, Open, Close, Login, GetByUid, GetByDevId, Returns,
          PutUid,
         PutDevId, SetCtx, RemoveDevId, RemoveUid

\* The one who removed the old address of x sets the new one next.
LEMMA PendingStep ==
  ASSUME Inv, NEW c \in Conns, Moves(c), NEW x \in Conns, Pending(x), ~Pending(x)'
  PROVE  SetCtx(c) /\ user[c] = x
BY ConnAssumption
   DEF Pending, Moves, AddStep, UpdateStep, DelStep, Open, Close, Login, GetByUid, GetByDevId,
        Returns,
       PutUid, PutDevId, PutCtx, RemoveOldCtx, SetCtx, PutNewCtx, RemoveCtx, RemoveDevId, RemoveUid,
       Step, Goto, Inv, TypeInv

LEMMA StepDevKept ==
  ASSUME Inv, DevKept, NEW c \in Conns, Moves(c)
  PROVE  DevKept'
<1> SUFFICES ASSUME NEW x \in Conns, NEW d \in DevIds, NEW e, e = info'[x].ctx,
                    devId2Info'[d] = x, ~Pending(x)', SameAddress(x)' = {}, SameAddress(e)' = {}
             PROVE  \/ loop'[x] = "putCtx" \/ Finds(x, x)'
                    \/ loop'[e] = "putNewCtx" /\ user'[e] = x
                    \/ Finds(e, x)'
  BY DEF DevKept
<1> USE ConnAssumption DEF Inv, TypeInv, maps, Goto, Step
<1>1. CASE PutDevId(c) /\ c = x
  BY <1>1 DEF PutDevId
<1>2. CASE SetCtx(c) /\ user[c] = x
  <2>1. info'[x].ctx = c
    BY <1>2, SetCtxInfo
  <2> QED
    BY <1>2, <2>1 DEF SetCtx
<1>3. CASE ~(PutDevId(c) /\ c = x) /\ ~(SetCtx(c) /\ user[c] = x)
  <2>1. devId2Info[d] = x
    BY <1>3 DEF Moves, AddStep, UpdateStep, DelStep, Open, Close, Login, GetByUid, GetByDevId,
         Returns, PutUid,
                PutDevId, PutCtx, RemoveOldCtx, SetCtx, PutNewCtx, RemoveCtx, RemoveDevId, RemoveUid
  <2>2. Known(x) /\ login[x].devId = d /\ d # 0
    BY <2>1 DEF MapInv, DevMap
  <2>3. info'[x] = info[x] /\ e = info[x].ctx
    <3>1. ~PutUid(c) \/ c # x
      BY <2>2 DEF PutUid, LoopInv, Early
    <3> QED
      BY <1>3, <3>1, SetCtxInfo
         DEF Moves, AddStep, UpdateStep, DelStep, Open, Close, Login, GetByUid, GetByDevId,
              Returns, PutUid,
             PutDevId, PutCtx, RemoveOldCtx, PutNewCtx, RemoveCtx, RemoveDevId, RemoveUid
  <2>4. e \in Conns /\ info[x].devId = d
    BY <2>2, <2>3 DEF InfoInv, InfoSays
  <2>5. ~Pending(x) /\ SameAddress(x) = {} /\ SameAddress(e) = {}
    BY <1>3, <2>4, PendingStep, AloneBefore
  <2>6. \/ loop[x] = "putCtx" \/ Finds(x, x)
        \/ loop[e] = "putNewCtx" /\ user[e] = x
        \/ Finds(e, x)
    BY <2>1, <2>3, <2>5 DEF DevKept
  <2>7. ~(RemoveOldCtx(c) /\ user[c] = x)
    BY DEF Pending, RemoveOldCtx
  <2>8. ASSUME NEW o \in Conns, SameAddress(o) = {}, ctx2Info[Address[o]] = x
        PROVE  Finds(o, x)'
    <3>1. CASE RemoveCtx(c) /\ c = o
      BY <2>8, <3>1 DEF RemoveCtx, Finds
    <3> QED
      BY <2>7, <2>8, <3>1, CtxStays DEF Finds
  <2>9. ASSUME NEW o \in Conns, loop[o] = "removeDev", user[o] = x
        PROVE  loop'[o] = "removeDev" /\ user'[o] = x
    <3>1. ~(RemoveDevId(c) /\ c = o)
      BY <2>4, <2>9 DEF RemoveDevId
    <3> QED
      BY <2>9, <3>1
         DEF Moves, AddStep, UpdateStep, DelStep, Open, Close, Login, GetByUid, GetByDevId,
              Returns, PutUid,
             PutDevId, PutCtx, RemoveOldCtx, SetCtx, PutNewCtx, RemoveCtx, RemoveDevId, RemoveUid
  <2>10. CASE Finds(x, x) \/ Finds(e, x)
    BY <2>4, <2>5, <2>8, <2>9, <2>10 DEF Finds
  <2>11. CASE loop[x] = "putCtx"
    <3>1. CASE c = x
      <4>1. PutCtx(x) \/ Close(x)
        BY <2>11, <3>1
           DEF Moves, AddStep, UpdateStep, DelStep, Open, Close, Login, GetByUid, GetByDevId,
                Returns, PutUid,
               PutDevId, PutCtx, RemoveOldCtx, SetCtx, PutNewCtx, RemoveCtx, RemoveDevId, RemoveUid, LoopInv
      <4> QED
        BY <2>11, <4>1 DEF PutCtx, Close, Finds, Addresses
    <3>2. CASE c # x
      <4>1. loop'[x] = loop[x]
        BY <3>2 DEF Moves, AddStep, UpdateStep, DelStep, Open, Close, Login, GetByUid,
             GetByDevId, Returns,
                    PutUid, PutDevId, PutCtx, RemoveOldCtx, SetCtx, PutNewCtx, RemoveCtx, RemoveDevId, RemoveUid
      <4> QED
        BY <2>11, <4>1
    <3> QED
      BY <3>1, <3>2
  <2>12. CASE loop[e] = "putNewCtx" /\ user[e] = x
    <3>1. CASE PutNewCtx(c) /\ c = e
      BY <2>4, <2>12, <3>1 DEF PutNewCtx, Finds, Addresses
    <3>2. CASE ~(PutNewCtx(c) /\ c = e)
      <4>1. loop'[e] = loop[e] /\ user'[e] = user[e]
        BY <2>4, <2>12, <3>2
           DEF Moves, AddStep, UpdateStep, DelStep, Open, Close, Login, GetByUid, GetByDevId,
                Returns, PutUid,
               PutDevId, PutCtx, RemoveOldCtx, SetCtx, PutNewCtx, RemoveCtx, RemoveDevId, RemoveUid, LoopInv
      <4> QED
        BY <2>12, <4>1
    <3> QED
      BY <3>1, <3>2
  <2> QED
    BY <2>6, <2>10, <2>11, <2>12
<1> QED
  BY <1>1, <1>2, <1>3

LEMMA StepUidKept ==
  ASSUME Inv, UidKept, NEW c \in Conns, Moves(c)
  PROVE  UidKept'
<1> SUFFICES ASSUME NEW x \in Conns, NEW u \in Uids,
                    uid2Info'[u] = x, ~Updated(x)', ~Pending(x)', SameAddress(x)' = {}
             PROVE  \/ loop'[x] \in {"putDev", "putCtx"} \/ ctx2Info'[Address[x]] = x
                    \/ loop'[x] \in {"removeDev", "removeUid"} /\ user'[x] = x
  BY DEF UidKept
<1> USE ConnAssumption DEF Inv, TypeInv, maps, Goto, Step
<1>1. CASE PutUid(c) /\ c = x
  BY <1>1 DEF PutUid
<1>2. CASE ~(PutUid(c) /\ c = x)
  <2>1. uid2Info[u] = x
    BY <1>2 DEF Moves, AddStep, UpdateStep, DelStep, Open, Close, Login, GetByUid, GetByDevId,
         Returns, PutUid,
                PutDevId, PutCtx, RemoveOldCtx, SetCtx, PutNewCtx, RemoveCtx, RemoveDevId, RemoveUid
  <2>2. Known(x) /\ login[x].uid = u /\ u # 0 /\ login[x] # NoLogin
    BY <2>1 DEF MapInv, UidMap, NoLogin
  <2>3. login'[x] = login[x]
    BY <2>2, OneLogin
  <2>4. ~(SetCtx(c) /\ user[c] = x)
    BY <2>2, <2>3, SetCtxInfo DEF Updated
  <2>5. info'[x] = info[x]
    BY <1>2, <2>4, SetCtxInfo
       DEF Moves, AddStep, UpdateStep, DelStep, Open, Close, Login, GetByUid, GetByDevId,
            Returns, PutUid,
           PutDevId, PutCtx, RemoveOldCtx, PutNewCtx, RemoveCtx, RemoveDevId, RemoveUid
  <2>6. ~Updated(x) /\ ~Pending(x) /\ SameAddress(x) = {}
    BY <2>3, <2>4, <2>5, PendingStep, AloneBefore DEF Updated
  <2>7. \/ loop[x] \in {"putDev", "putCtx"} \/ ctx2Info[Address[x]] = x
        \/ loop[x] \in {"removeDev", "removeUid"} /\ user[x] = x
    BY <2>1, <2>6 DEF UidKept
  <2>8. CASE ctx2Info[Address[x]] = x
    <3>1. ~(RemoveOldCtx(c) /\ user[c] = x)
      BY DEF Pending, RemoveOldCtx
    <3>2. CASE RemoveCtx(c) /\ c = x
      BY <2>8, <3>2 DEF RemoveCtx
    <3> QED
      BY <2>6, <2>8, <3>1, <3>2, CtxStays
  <2>9. CASE loop[x] \in {"putDev", "putCtx"}
    BY <2>9 DEF Moves, AddStep, UpdateStep, DelStep, Open, Close, Login, GetByUid, GetByDevId,
         Returns, PutUid,
                PutDevId, PutCtx, RemoveOldCtx, SetCtx, PutNewCtx, RemoveCtx, RemoveDevId, RemoveUid, Addresses
  <2>10. CASE loop[x] \in {"removeDev", "removeUid"} /\ user[x] = x
    <3>1. info[x].uid = u
      BY <2>2, <2>6 DEF Updated
    <3>2. ~(RemoveUid(c) /\ c = x)
      BY <2>10, <3>1 DEF RemoveUid
    <3> QED
      BY <2>10, <3>2
         DEF Moves, AddStep, UpdateStep, DelStep, Open, Close, Login, GetByUid, GetByDevId,
              Returns, PutUid,
             PutDevId, PutCtx, RemoveOldCtx, SetCtx, PutNewCtx, RemoveCtx, RemoveDevId, RemoveUid
  <2> QED
    BY <2>7, <2>8, <2>9, <2>10
<1> QED
  BY <1>1, <1>2

-------------------------------------------------------------------------------
LEMMA Stutter == IInv /\ UNCHANGED vars => IInv'
<1> SUFFICES ASSUME IInv, UNCHANGED vars PROVE IInv'
  OBVIOUS
<1> USE DEF vars, maps, Known, Related, Staying, Alone, SameAddress, SameUser
<1>1. TypeInv' /\ LoopInv'
  BY DEF IInv, Inv, TypeInv, LoopInv
<1>2. InfoInv'
  BY DEF IInv, Inv, InfoInv, InfoSays
<1>3. MapInv'
  BY DEF IInv, Inv, MapInv, UidMap, DevMap, CtxMap, GoneInv
<1>4. Kept'
  BY DEF IInv, Kept
<1>5. DevKept' /\ UidKept'
  BY DEF IInv, DevKept, UidKept, Finds, Pending, Updated
<1> QED
  BY <1>1, <1>2, <1>3, <1>4, <1>5 DEF IInv, Inv

LEMMA Invariance == Spec => []IInv
<1>1. IInv /\ [Next]_vars => IInv'
  <2> SUFFICES ASSUME IInv, [Next]_vars PROVE IInv'
    OBVIOUS
  <2>1. CASE Next
    <3>1. PICK c \in Conns : Moves(c)
      BY <2>1 DEF Next, Moves
    <3> QED
      BY <3>1, StepInv, StepKept, StepDevKept, StepUidKept DEF IInv
  <2>2. CASE UNCHANGED vars
    BY <2>2, Stutter
  <2> QED
    BY <2>1, <2>2
<1> QED
  BY InitInv, <1>1, PTL DEF Spec

(***************************************************************************)
(* A user whose uid, device and address no other connection has had is     *)
(* found in all three maps from the end of addUserInfo until its own       *)
(* channelInactive, whatever the event loops of others do meanwhile.       *)
(***************************************************************************)
THEOREM Stays == Spec => []OthersDoNotRemove
<1>1. IInv => OthersDoNotRemove
  BY DEF IInv, Kept, OthersDoNotRemove, Staying, Found
<1> QED
  BY Invariance, <1>1, PTL

(***************************************************************************)
(* When every connection that has had an AccessUserInfo is through its     *)
(* channelInactive, and no other has used one of their addresses,          *)
(* delUserInfo has taken the info out of devId2InfoMap and ctx2InfoMap,    *)
(* and, unless updateUserInfoCtx has reset its uid, of uid2InfoMap.        *)
(***************************************************************************)
THEOREM Forgotten == Spec => []GoneIsForgotten
<1>1. ASSUME IInv PROVE GoneIsForgotten
  <2> SUFFICES ASSUME NEW x \in Conns, Known(x),
                      \A o \in Owners(x) : loop[o] = "end" /\ SameAddress(o) = {}
               PROVE  /\ \A d \in DevIds : devId2Info[d] # x
                      /\ \A a \in Addresses : ctx2Info[a] # x
                      /\ Updated(x) \/ \A u \in Uids : uid2Info[u] # x
    BY DEF GoneIsForgotten, Known
  <2> DEFINE e == info[x].ctx
  <2>1. e \in Conns
    BY <1>1 DEF IInv, Inv, InfoInv, InfoSays
  <2>2. \A o \in Conns : o \in {x, e} \/ user[o] = x => loop[o] = "end" /\ SameAddress(o) = {}
    BY DEF Owners
  <2>3. \A a \in Addresses : ctx2Info[a] # x
    <3> SUFFICES ASSUME NEW a \in Addresses, ctx2Info[a] = x PROVE FALSE
      OBVIOUS
    <3>1. PICK o \in Conns : conn[o] # "gone" /\ user[o] = x
      BY <1>1, ConnAssumption DEF IInv, Inv, MapInv, CtxMap
    <3> QED
      BY <1>1, <2>2, <3>1 DEF IInv, Inv, LoopInv, Ending
  <2>4. ctx2Info[Address[x]] # x /\ ctx2Info[Address[e]] # x
    BY <2>1, <2>3 DEF Addresses
  <2>5. ~Pending(x)
    BY <2>2 DEF Pending
  <2>6. \A d \in DevIds : devId2Info[d] # x
    BY <1>1, <2>1, <2>2, <2>4, <2>5 DEF IInv, DevKept, Finds
  <2>7. Updated(x) \/ \A u \in Uids : uid2Info[u] # x
    BY <1>1, <2>2, <2>4, <2>5 DEF IInv, UidKept
  <2> QED
    BY <2>3, <2>6, <2>7
<1> QED
  BY Invariance, <1>1, PTL
==============================================================================
