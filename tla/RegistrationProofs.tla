------------------------- MODULE RegistrationProofs --------------------------
(***************************************************************************)
(* The connection of a server to discover, for any number of channels,     *)
(* lost connections and stops of discover: first the client of             *)
(* ClientLifecycle by itself, then server and discover together, which     *)
(* implement it.                                                           *)
(***************************************************************************)
EXTENDS Registration, FiniteSetTheorems, TLAPS

\* Attempts that have no channel yet.
Dials == checking + dialing + retries

Waits(c, task) == Contains(tasks[c], task)
Once(s, task) == \A i, j \in 1 .. Len(s) : s[i] = task /\ s[j] = task => i = j

\* The listener of c has not run, or not to its end.
Adding(c)  == loop[c] \in {"addType", "addChannel"}
Fresh(c)   == c \in resuming \/ Waits(c, "listener") \/ Adding(c)
Pending(c) == Fresh(c) \/ loop[c] = "removeType"
\* The channel that the client is about.
Held(c)    == Pending(c) \/ Open(c) \/ Waits(c, "inactive") \/ c \in byChannel

\* One attempt, and none while the client is about a channel, of which there is one.
Single == /\ Dials <= 1
          /\ Dials = 1 => \A c \in Channels : ~Held(c)
          /\ \A c, d \in Channels : Held(c) /\ Held(d) => c = d

\* The order in which an event loop comes to its tasks.
LoopInv(c) ==
  /\ Once(tasks[c], "listener") /\ Once(tasks[c], "inactive")
  /\ status[c] = "unused" => ~Held(c)
  /\ c \in resuming => ~Waits(c, "listener") /\ loop[c] = "idle"
  /\ Waits(c, "listener") => loop[c] = "idle"
  /\ Waits(c, "inactive") => status[c] = "closed" /\ loop[c] # "removeType"
  /\ loop[c] = "removeType" => status[c] = "closed"

MapInv(c) ==
  /\ c \in byChannel => ~Pending(c) /\ channel = c
  /\ c \in byChannel => Open(c) \/ Waits(c, "inactive") \/ c \in early
  /\ Adding(c) => channel = c
  /\ Fresh(c) => Open(c) \/ c \in early

\* Until destroy.
RunningInv(c) ==
  /\ Open(c) /\ ~Fresh(c) => c \in byChannel /\ byType /\ said[c] = "register"
  /\ Open(c) /\ Adding(c) => said[c] = "register"
  /\ loop[c] = "addChannel" => byType
  /\ Waits(c, "inactive") /\ c \notin early => c \in byChannel

\* Channel c will be, or has been, the connection of the client.
Alive(c) == c \in resuming \/ loop[c] = "removeType" \/ Open(c) \/ Waits(c, "inactive")

Running == /\ group = "open"
           /\ \A c \in Channels : RunningInv(c)
           /\ early = {} => Dials = 1 \/ \E c \in Channels : Alive(c)

Withdrawn == Dials = 0 /\ byChannel = {} /\ \A c \in Channels : ~Pending(c)

Core == Single /\ \A c \in Channels : LoopInv(c) /\ MapInv(c)

IInv == /\ TypeOK /\ Core
        /\ destroyer = "none" => Running
        /\ withdrawn => Withdrawn
-------------------------------------------------------------------------------
(* Queues of tasks. *)

LEMMA ContainsAppend ==
  ASSUME NEW s \in Seq(Tasks), NEW task \in Tasks
  PROVE  /\ Append(s, task) \in Seq(Tasks)
         /\ \A t : Contains(Append(s, task), t) <=> Contains(s, t) \/ t = task
         /\ \A t : Once(s, t) /\ (t = task => ~Contains(s, t)) => Once(Append(s, task), t)
<1>1. /\ Append(s, task) \in Seq(Tasks) /\ Len(Append(s, task)) = Len(s) + 1 /\ Len(s) \in Nat
      /\ \A i \in 1 .. Len(s) : Append(s, task)[i] = s[i]
      /\ Append(s, task)[Len(s) + 1] = task
  OBVIOUS
<1>2. \A i \in 1 .. Len(s) + 1 : i \in 1 .. Len(s) \/ i = Len(s) + 1
  BY <1>1
<1>3. \A i \in 1 .. Len(s) : i \in 1 .. Len(s) + 1
  BY <1>1
<1>4. Len(s) + 1 \in 1 .. Len(s) + 1
  BY <1>1
<1>5. QED BY ONLY <1>1, <1>2, <1>3, <1>4 DEF Contains, Once

LEMMA ContainsTail ==
  ASSUME NEW s \in Seq(Tasks), s # <<>>
  PROVE  /\ Tail(s) \in Seq(Tasks) /\ Contains(s, Head(s))
         /\ \A t : t # Head(s) => (Contains(Tail(s), t) <=> Contains(s, t))
         /\ \A t : Once(s, t) => Once(Tail(s), t)
         /\ Once(s, Head(s)) => ~Contains(Tail(s), Head(s))
<1>1. /\ Tail(s) \in Seq(Tasks) /\ Len(Tail(s)) = Len(s) - 1 /\ Len(s) \in Nat \ {0}
      /\ Head(s) = s[1]
  OBVIOUS
<1>2. \A i \in 1 .. Len(Tail(s)) :
        i + 1 \in 1 .. Len(s) /\ Tail(s)[i] = s[i + 1] /\ i + 1 # 1
  BY <1>1
<1>3. \A i \in 1 .. Len(s) : i = 1 \/ (i - 1 \in 1 .. Len(Tail(s)) /\ Tail(s)[i - 1] = s[i])
  <2>1. \A i \in 1 .. Len(s) : i = 1 \/ (i - 1 \in 1 .. Len(Tail(s)) /\ i = (i - 1) + 1)
    BY <1>1
  <2>2. QED BY <2>1, <1>2
<1>4. 1 \in 1 .. Len(s)
  BY <1>1
<1>5. \A i, j \in 1 .. Len(Tail(s)) : i + 1 = j + 1 => i = j
  BY <1>1
<1>6. /\ Contains(s, Head(s))
      /\ \A t : t # Head(s) => (Contains(Tail(s), t) <=> Contains(s, t))
  BY ONLY <1>1, <1>2, <1>3, <1>4 DEF Contains
<1>7. \A t : Once(s, t) => Once(Tail(s), t)
  BY ONLY <1>2, <1>5 DEF Once
<1>8. Once(s, Head(s)) => ~Contains(Tail(s), Head(s))
  BY ONLY <1>1, <1>2, <1>4 DEF Once, Contains
<1>9. QED BY <1>1, <1>6, <1>7, <1>8

LEMMA NothingQueued ==
  /\ \A t : ~Contains(<<>>, t) /\ Once(<<>>, t)
  BY DEF Contains, Once
-------------------------------------------------------------------------------
(* Types. *)

LEMMA TypeInit == Init => TypeOK
<1> SUFFICES ASSUME Init PROVE TypeOK
  OBVIOUS
<1>1. tasks \in [Channels -> Seq(Tasks)]
  BY DEF Init
<1>2. faults \in 0 .. MaxFaults
  BY LifecycleAssumption DEF Init
<1>3. checking \in Nat /\ dialing \in Nat /\ retries \in Nat
  BY DEF Init
<1>4. QED BY <1>1, <1>2, <1>3 DEF Init, TypeOK

LEMMA QueueTypes ==
  ASSUME TypeOK, NEW c \in Channels
  PROVE  /\ tasks[c] \in Seq(Tasks)
         /\ \A task \in Tasks : Append(tasks[c], task) \in Seq(Tasks)
         /\ tasks[c] # <<>> => /\ Tail(tasks[c]) \in Seq(Tasks)
                               /\ \A task \in Tasks : Append(Tail(tasks[c]), task) \in Seq(Tasks)
<1>1. tasks[c] \in Seq(Tasks)
  BY DEF TypeOK
<1>2. QED BY <1>1, ContainsAppend, ContainsTail

\* A step that replaces the queue of one channel.
LEMMA QueueStep ==
  ASSUME TypeOK, NEW c \in Channels, NEW q \in Seq(Tasks), tasks' = [tasks EXCEPT ![c] = q]
  PROVE  tasks' \in [Channels -> Seq(Tasks)]
  BY DEF TypeOK

LEMMA TypeStep ==
  TypeOK /\ (\A c \in Channels : Adding(c) => channel = c) /\ [Next]_vars => TypeOK'
<1> SUFFICES ASSUME TypeOK, \A c \in Channels : Adding(c) => channel = c, [Next]_vars
             PROVE  TypeOK'
  OBVIOUS
<1>0. "listener" \in Tasks /\ "close" \in Tasks /\ "inactive" \in Tasks
  BY DEF Tasks
<1>1. CASE Check
  BY <1>1 DEF Check, TypeOK, network, loops, fields, maps, history
<1>2. CASE DialSucceeds
  BY <1>2 DEF DialSucceeds, TypeOK, network, fields, maps, history
<1>3. CASE DialFails \/ Retry
  BY <1>3 DEF DialFails, Retry, TypeOK, network, loops, fields, maps, history
<1>4. ASSUME NEW c \in Channels, Resume(c) PROVE TypeOK'
  <2>1. tasks' = tasks \/ tasks' = [tasks EXCEPT ![c] = Append(tasks[c], "listener")]
    BY <1>4 DEF Resume, Queue
  <2>2. tasks' \in [Channels -> Seq(Tasks)]
    <3>1. CASE tasks' = tasks
      BY <3>1 DEF TypeOK
    <3>2. CASE tasks' = [tasks EXCEPT ![c] = Append(tasks[c], "listener")]
      BY <1>0, <3>2, QueueTypes, QueueStep
    <3>3. QED BY <2>1, <3>1, <3>2
  <2>3. QED BY <1>4, <2>2 DEF Resume, TypeOK, network, maps, history
<1>5. ASSUME NEW c \in Channels, Listener(c) PROVE TypeOK'
  <2>1. tasks' = [tasks EXCEPT ![c] = Tail(tasks[c])] /\ tasks[c] # <<>>
    BY <1>5 DEF Listener, Runs, Done
  <2>2. tasks' \in [Channels -> Seq(Tasks)]
    BY <2>1, QueueTypes, QueueStep
  <2>3. said' \in [Channels -> {"nothing", "register", "unregister"}]
    BY <1>5 DEF Listener, Write, TypeOK
  <2>4. loop' \in [Channels -> {"idle", "addType", "addChannel", "removeType"}]
    BY <1>5 DEF Listener, Goto, TypeOK
  <2>5. channel' = c /\ UNCHANGED <<network, status, dials, future, maps, destroyer, early, withdrawn>>
    BY <1>5 DEF Listener
  <2>6. QED BY <2>2, <2>3, <2>4, <2>5 DEF TypeOK, network, dials, maps
<1>6. ASSUME NEW c \in Channels, AddType(c) \/ AddChannel(c) \/ RemoveType(c) PROVE TypeOK'
  <2>1. loop' \in [Channels -> {"idle", "addType", "addChannel", "removeType"}]
    BY <1>6 DEF AddType, AddChannel, RemoveType, Goto, TypeOK
  <2>2. CASE AddChannel(c)
    <3>1. channel = c
      BY <2>2 DEF AddChannel, Adding
    <3>2. QED BY <2>1, <2>2, <3>1 DEF AddChannel, TypeOK, network, dials, fields, maps, history
  <2>3. CASE AddType(c)
    BY <2>1, <2>3 DEF AddType, TypeOK, network, dials, fields, maps, history
  <2>4. CASE RemoveType(c)
    <3>1. byType' \in BOOLEAN
      BY <2>4 DEF RemoveType
    <3>2. checking' \in Nat
      BY <2>4 DEF RemoveType, TypeOK
    <3>3. UNCHANGED <<network, status, tasks, dialing, resuming, retries, fields, byChannel,
                      destroyer, history>>
      BY <2>4 DEF RemoveType
    <3>4. QED BY <2>1, <3>1, <3>2, <3>3 DEF TypeOK, network, fields, history
  <2>5. QED BY <1>6, <2>2, <2>3, <2>4
<1>7. ASSUME NEW c \in Channels, CloseTask(c) PROVE TypeOK'
  <2>1. tasks[c] # <<>>
    BY <1>7 DEF CloseTask, Runs
  <2>2. CASE tasks' = [tasks EXCEPT ![c] = Append(Tail(tasks[c]), "inactive")]
    <3>1. tasks' \in [Channels -> Seq(Tasks)]
      BY <1>0, <2>1, <2>2, QueueTypes, QueueStep
    <3>2. QED BY <1>7, <3>1 DEF CloseTask, TypeOK, network, dials, fields, maps
  <2>3. CASE tasks' = [tasks EXCEPT ![c] = Tail(tasks[c])]
    <3>1. tasks' \in [Channels -> Seq(Tasks)]
      BY <2>1, <2>3, QueueTypes, QueueStep
    <3>2. QED BY <1>7, <3>1 DEF CloseTask, TypeOK, network, dials, fields, maps
  <2>4. QED BY <1>7, <2>2, <2>3 DEF CloseTask
<1>8. ASSUME NEW c \in Channels, Inactive(c) PROVE TypeOK'
  <2>1. tasks' = [tasks EXCEPT ![c] = Tail(tasks[c])] /\ tasks[c] # <<>>
    BY <1>8 DEF Inactive, Runs, Done
  <2>2. tasks' \in [Channels -> Seq(Tasks)]
    BY <2>1, QueueTypes, QueueStep
  <2>3. loop' \in [Channels -> {"idle", "addType", "addChannel", "removeType"}]
    BY <1>8 DEF Inactive, Goto, TypeOK
  <2>4. QED BY <1>8, <2>2, <2>3 DEF Inactive, TypeOK, network, dials, fields, maps, history
<1>9. CASE Destroy
  BY <1>9 DEF Destroy, Write, Open, TypeOK, network, loops, dials, fields, maps
<1>10. CASE Close
  <2>1. CASE tasks' = tasks
    BY <1>10, <2>1 DEF Close, TypeOK, network, dials, fields, maps, history
  <2>2. CASE future \in Channels /\ tasks' = [tasks EXCEPT ![future] = Append(tasks[future], "close")]
    <3>1. tasks' \in [Channels -> Seq(Tasks)]
      BY <1>0, <2>2, QueueTypes, QueueStep
    <3>2. QED BY <1>10, <3>1 DEF Close, TypeOK, network, dials, fields, maps, history
  <2>3. QED BY <1>10, <2>1, <2>2 DEF Close, Queue, TypeOK
<1>11. CASE ShutdownGracefully
  BY <1>11 DEF ShutdownGracefully, TypeOK, loops, dials, fields, maps, history
<1>12. CASE DestroyRemoveType
  BY <1>12 DEF DestroyRemoveType, TypeOK, network, loops, dials, fields, history
<1>13. CASE DestroyRemoveChannel
  <2>1. withdrawn' \in BOOLEAN /\ byChannel' \subseteq Channels /\ destroyer' = "done"
    BY <1>13 DEF DestroyRemoveChannel, TypeOK
  <2>2. UNCHANGED <<network, loops, dials, fields, byType, early, said>>
    BY <1>13 DEF DestroyRemoveChannel
  <2>3. QED BY <2>1, <2>2 DEF TypeOK, network, loops, dials, fields
<1>14. ASSUME NEW c \in Channels, Break(c) \/ BreakDown(c) \/ CloseAll(c) PROVE TypeOK'
  <2>1. Lose(c) /\ tasks' = [tasks EXCEPT ![c] = Append(tasks[c], "inactive")]
    BY <1>14 DEF Break, BreakDown, CloseAll, Lose, Queue
  <2>2. tasks' \in [Channels -> Seq(Tasks)]
    BY <1>0, <2>1, QueueTypes, QueueStep
  <2>3. discoverUp' = discoverUp /\ group' = group
    BY <1>14 DEF Break, BreakDown, CloseAll, network
  <2>4. faults' = faults \/ Fault
    BY <1>14 DEF Break, BreakDown, CloseAll, network
  <2>5. faults' \in 0 .. MaxFaults
    BY <2>4, LifecycleAssumption DEF Fault, TypeOK
  <2>6. QED BY <2>1, <2>2, <2>3, <2>5 DEF Lose, TypeOK, dials, fields, maps
<1>15. CASE DiscoverStops
  <2>1. faults' \in 0 .. MaxFaults
    BY <1>15, LifecycleAssumption DEF DiscoverStops, Fault, TypeOK
  <2>2. discoverUp' \in BOOLEAN
        /\ UNCHANGED <<group, loops, dials, fields, maps, destroyer, history>>
    BY <1>15 DEF DiscoverStops
  <2>3. QED BY <2>1, <2>2 DEF TypeOK, loops, dials, fields, maps, history
<1>16. CASE DiscoverStarts
  BY <1>16 DEF DiscoverStarts, TypeOK, loops, dials, fields, maps, history
<1>17. CASE Terminate
  BY <1>17 DEF Terminate, TypeOK, loops, dials, fields, maps, history
<1>18. CASE UNCHANGED vars
  BY <1>18 DEF vars, TypeOK, network, loops, dials, fields, maps, history
<1>19. QED
  BY <1>1, <1>2, <1>3, <1>4, <1>5, <1>6, <1>7, <1>8, <1>9, <1>10, <1>11, <1>12, <1>13, <1>14,
     <1>15, <1>16, <1>17, <1>18
  DEF Next, DoConnectStep, LoopStep, DestroyStep, BreakStep
-------------------------------------------------------------------------------
(* What a step leaves alone. *)

\* For channel d the step changes nothing but a task "close".
Same(d) ==
  /\ Waits(d, "listener")' <=> Waits(d, "listener")
  /\ Waits(d, "inactive")' <=> Waits(d, "inactive")
  /\ Once(tasks[d], "listener") => Once(tasks[d], "listener")'
  /\ Once(tasks[d], "inactive") => Once(tasks[d], "inactive")'
  /\ loop'[d] = loop[d]
  /\ (d \in resuming') <=> (d \in resuming)
  /\ (d \in byChannel') <=> (d \in byChannel)
  /\ Open(d)' <=> Open(d)
  /\ status'[d] = "unused" => status[d] = "unused"
  /\ status[d] = "closed" => status'[d] = "closed"

\* What is defined of channel d stays as it is.
Like(d) ==
  /\ Held(d)' <=> Held(d)
  /\ Pending(d)' <=> Pending(d)
  /\ Fresh(d)' <=> Fresh(d)
  /\ Adding(d)' <=> Adding(d)
  /\ Alive(d)' <=> Alive(d)

LEMMA Untouched ==
  ASSUME NEW d \in Channels, tasks'[d] = tasks[d], status'[d] = status[d], loop'[d] = loop[d],
         (d \in resuming') <=> (d \in resuming), (d \in byChannel') <=> (d \in byChannel)
  PROVE  Same(d)
  BY DEF Same, Waits, Open

LEMMA Kept ==
  ASSUME NEW d \in Channels, Same(d), LoopInv(d)
  PROVE  Like(d) /\ LoopInv(d)'
<1>1. /\ Adding(d)' <=> Adding(d)
      /\ Fresh(d)' <=> Fresh(d)
  BY DEF Same, Adding, Fresh
<1>2. Pending(d)' <=> Pending(d)
  BY <1>1 DEF Same, Pending
<1>3. Held(d)' <=> Held(d)
  BY <1>2 DEF Same, Held
<1>4. Alive(d)' <=> Alive(d)
  BY DEF Same, Alive
<1>5. LoopInv(d)'
  BY <1>3 DEF Same, LoopInv
<1>6. QED BY <1>1, <1>2, <1>3, <1>4, <1>5 DEF Like

\* Only what is about channel c changes.
LEMMA Focus ==
  ASSUME Core, NEW c \in Channels, \A d \in Channels \ {c} : Same(d) /\ ~Held(d),
         Dials' <= 1, Dials' = 1 => ~Held(c)', LoopInv(c)', MapInv(c)'
  PROVE  /\ Core'
         /\ \A d \in Channels \ {c} : RunningInv(d)' /\ ~Pending(d)' /\ d \notin byChannel'
<1>1. \A d \in Channels \ {c} : ~Held(d)' /\ LoopInv(d)'
  BY Kept DEF Core, Like
<1>2. \A d \in Channels \ {c} : MapInv(d)' /\ RunningInv(d)' /\ ~Pending(d)' /\ d \notin byChannel'
  BY <1>1 DEF Held, Pending, Fresh, Adding, MapInv, RunningInv
<1>3. Single'
  BY <1>1 DEF Single
<1>4. QED BY <1>1, <1>2, <1>3 DEF Core

LEMMA Alone ==
  ASSUME TypeOK, Core, NEW c \in Channels, Held(c)
  PROVE  Dials = 0 /\ \A d \in Channels \ {c} : ~Held(d)
<1>1. Dials \in Nat
  BY DEF Dials, TypeOK
<1>2. QED BY <1>1 DEF Core, Single

\* Nothing changes but what the network, the dialling threads or destroy do.
LEMMA Outside ==
  ASSUME Core, \A d \in Channels : Same(d), Dials' = Dials, UNCHANGED <<channel, early>>
  PROVE  /\ Core'
         /\ \A d \in Channels : Like(d)
         /\ UNCHANGED <<byType, said>> =>
              \A d \in Channels : RunningInv(d) => RunningInv(d)'
<1>1. \A d \in Channels : Like(d) /\ LoopInv(d)'
  BY Kept DEF Core
<1>2. \A d \in Channels : MapInv(d)'
  BY <1>1 DEF Core, MapInv, Same, Like
<1>3. Single'
  BY <1>1 DEF Core, Single, Like
<1>4. ASSUME UNCHANGED <<byType, said>>, NEW d \in Channels, RunningInv(d)
      PROVE  RunningInv(d)'
  <2>1. Like(d) /\ Same(d)
    BY <1>1
  <2>2. QED BY <1>4, <2>1 DEF RunningInv, Same, Like
<1>5. QED BY <1>1, <1>2, <1>3, <1>4 DEF Core
-------------------------------------------------------------------------------
LEMMA Taken ==
  ASSUME TypeOK, NEW c \in Channels, NEW task \in Tasks, Runs(c, task),
         tasks'[c] = Tail(tasks[c])
  PROVE  /\ Waits(c, task) /\ loop[c] = "idle"
         /\ \A t : t # task => (Waits(c, t)' <=> Waits(c, t))
         /\ \A t : Once(tasks[c], t) => Once(tasks[c], t)'
         /\ Once(tasks[c], task) => ~Waits(c, task)'
<1>1. tasks[c] \in Seq(Tasks) /\ tasks[c] # <<>> /\ Head(tasks[c]) = task /\ loop[c] = "idle"
  BY DEF TypeOK, Runs
<1>2. QED BY <1>1, ContainsTail DEF Waits

LEMMA Queued ==
  ASSUME TypeOK, NEW c \in Channels, NEW task \in Tasks, tasks'[c] = Append(tasks[c], task)
  PROVE  /\ Waits(c, task)'
         /\ \A t : t # task => (Waits(c, t)' <=> Waits(c, t))
         /\ \A t : Once(tasks[c], t) /\ (t = task => ~Waits(c, t)) => Once(tasks[c], t)'
<1>1. tasks[c] \in Seq(Tasks)
  BY DEF TypeOK
<1>2. QED BY <1>1, ContainsAppend DEF Waits
-------------------------------------------------------------------------------
(* What is left to show of a step. *)

\* Of a step that is about no channel.
LEMMA OutsideStep ==
  ASSUME IInv, TypeOK', \A d \in Channels : Same(d), Dials' = Dials, UNCHANGED <<channel, early>>,
         destroyer' = "none" => destroyer = "none" /\ UNCHANGED <<group, byType, said>>,
         withdrawn' => withdrawn
  PROVE  IInv'
<1>1. Core' /\ (\A d \in Channels : Like(d))
      /\ (UNCHANGED <<byType, said>> => \A d \in Channels : RunningInv(d) => RunningInv(d)')
  BY Outside DEF IInv
<1>2. destroyer' = "none" => Running'
  <2> SUFFICES ASSUME destroyer' = "none" PROVE Running'
    OBVIOUS
  <2>1. Running
    BY DEF IInv
  <2>2. QED BY <1>1, <2>1 DEF Running, Like
<1>3. withdrawn' => Withdrawn'
  <2>1. Withdrawn => \A d \in Channels : d \notin byChannel' /\ ~Pending(d)'
    BY <1>1 DEF Withdrawn, Like, Same
  <2>2. QED BY <2>1 DEF Withdrawn, IInv, TypeOK
<1>4. QED BY <1>1, <1>2, <1>3 DEF IInv

\* Of a step that is about channel c.
LEMMA FocusStep ==
  ASSUME IInv, TypeOK', NEW c \in Channels, \A d \in Channels \ {c} : Same(d) /\ ~Held(d),
         Dials' <= 1, Dials' = 1 => ~Held(c)', LoopInv(c)', MapInv(c)',
         destroyer' = "none" => /\ destroyer = "none" /\ UNCHANGED group
                                /\ RunningInv(c)'
                                /\ early' = {} => Dials' = 1 \/ Alive(c)',
         withdrawn' => Dials' = 0 /\ c \notin byChannel' /\ ~Pending(c)'
  PROVE  IInv'
<1>1. /\ Core'
      /\ \A d \in Channels \ {c} : RunningInv(d)' /\ ~Pending(d)' /\ d \notin byChannel'
  BY Focus DEF IInv
<1>2. destroyer' = "none" => Running'
  BY <1>1 DEF IInv, Running
<1>3. withdrawn' => Withdrawn'
  BY <1>1 DEF Withdrawn, TypeOK
<1>4. QED BY <1>1, <1>2, <1>3 DEF IInv

LEMMA Typed == IInv /\ [Next]_vars => TypeOK'
  BY TypeStep DEF IInv, Core, MapInv
-------------------------------------------------------------------------------
(* doConnect. *)

LEMMA DialStep == IInv /\ (Check \/ DialFails \/ Retry) => IInv'
<1> SUFFICES ASSUME IInv, Check \/ DialFails \/ Retry PROVE IInv'
  OBVIOUS
<1>0. TypeOK'
  BY Typed DEF Next, DoConnectStep
<1>1. checking \in Nat /\ dialing \in Nat /\ retries \in Nat
  BY DEF IInv, TypeOK
<1>2. Dials = 1
  BY <1>1 DEF IInv, Core, Single, Dials, Check, DialFails, Retry
<1>3. \A d \in Channels : ~Held(d)
  BY <1>2 DEF IInv, Core, Single
<1>4. ~Open(channel)
  BY <1>3 DEF Held, Open, IInv, TypeOK
<1>5. Dials' = Dials
  BY <1>1, <1>4 DEF Check, DialFails, Retry, Dials
<1>6. UNCHANGED <<network, loops, resuming, fields, maps, destroyer, history>>
  BY DEF Check, DialFails, Retry
<1>7. \A d \in Channels : Same(d)
  BY <1>6, Untouched DEF loops, maps
<1>8. QED BY <1>0, <1>5, <1>6, <1>7, OutsideStep DEF network, fields, maps, history

LEMMA DialSucceedsStep == IInv /\ DialSucceeds => IInv'
<1> SUFFICES ASSUME IInv, DialSucceeds PROVE IInv'
  OBVIOUS
<1>0. TypeOK' /\ TypeOK
  BY Typed DEF Next, DoConnectStep, IInv
<1>1. PICK c \in Channels : /\ status' = [status EXCEPT ![c] = "open"]
                            /\ resuming' = resuming \cup {c}
  BY DEF DialSucceeds
<1>2. checking \in Nat /\ dialing \in Nat \ {0} /\ retries \in Nat
  BY <1>0 DEF TypeOK, DialSucceeds
<1>3. Dials = 1 /\ Dials' = 0
  BY <1>2 DEF IInv, Core, Single, Dials, DialSucceeds
<1>4. \A d \in Channels : ~Held(d)
  BY <1>3 DEF IInv, Core, Single
<1>5. UNCHANGED <<network, tasks, loop, fields, maps, destroyer, history>>
  BY DEF DialSucceeds
<1>6. \A d \in Channels \ {c} : Same(d)
  BY <1>0, <1>1, <1>5, Untouched DEF TypeOK, maps
<1>7. /\ status'[c] = "open" /\ Open(c)' /\ c \in resuming' /\ loop'[c] = "idle"
      /\ ~Waits(c, "listener")' /\ ~Waits(c, "inactive")' /\ c \notin byChannel'
      /\ Once(tasks[c], "listener")' /\ Once(tasks[c], "inactive")'
  <2>1. ~Waits(c, "listener") /\ ~Waits(c, "inactive") /\ c \notin byChannel /\ loop[c] = "idle"
    BY <1>0, <1>4 DEF TypeOK, Held, Pending, Fresh, Adding
  <2>2. Once(tasks[c], "listener") /\ Once(tasks[c], "inactive")
    BY DEF IInv, Core, LoopInv
  <2>3. c # None
    BY LifecycleAssumption
  <2>4. status'[c] = "open" /\ c \in resuming'
    BY <1>0, <1>1 DEF TypeOK
  <2>5. QED BY <1>5, <2>1, <2>2, <2>3, <2>4 DEF Open, Waits, maps
<1>8. LoopInv(c)' /\ MapInv(c)' /\ RunningInv(c)' /\ Alive(c)'
  BY <1>7 DEF LoopInv, MapInv, RunningInv, Alive, Pending, Fresh, Adding
<1>9. ~withdrawn'
  BY <1>3, <1>5 DEF IInv, Withdrawn, history
<1>10. QED BY <1>0, <1>3, <1>4, <1>5, <1>6, <1>8, <1>9, FocusStep DEF network

LEMMA ResumeStep == ASSUME IInv, NEW c \in Channels, Resume(c) PROVE IInv'
<1>0. TypeOK' /\ TypeOK
  BY Typed DEF Next, DoConnectStep, IInv
<1>1. /\ c \in resuming /\ resuming' = resuming \ {c}
      /\ UNCHANGED <<network, status, loop, checking, dialing, retries, channel, maps,
                     destroyer, history>>
  BY DEF Resume
<1>2. Held(c) /\ Pending(c)
  BY <1>1 DEF Held, Pending, Fresh
<1>3. Dials = 0 /\ \A d \in Channels \ {c} : ~Held(d)
  BY <1>0, <1>2, Alone DEF IInv
<1>4. Dials' = 0
  BY <1>1, <1>3 DEF Dials
<1>5. \A d \in Channels \ {c} : tasks'[d] = tasks[d]
  BY <1>0 DEF TypeOK, Resume, Queue
<1>6. \A d \in Channels \ {c} : Same(d)
  BY <1>1, <1>5, Untouched DEF maps
<1>7. LoopInv(c) /\ MapInv(c) /\ loop[c] = "idle" /\ ~Waits(c, "listener")
  BY <1>1 DEF IInv, Core, LoopInv
<1>8. /\ Waits(c, "inactive")' <=> Waits(c, "inactive")
      /\ Once(tasks[c], "listener")' /\ Once(tasks[c], "inactive")'
  <2>1. CASE tasks' = tasks
    BY <1>7, <2>1 DEF Waits, LoopInv
  <2>2. CASE tasks'[c] = Append(tasks[c], "listener")
    BY <1>0, <1>7, <2>2, Queued DEF Tasks, LoopInv
  <2>3. QED BY <1>0, <2>1, <2>2 DEF Resume, Queue, TypeOK
<1>9. group # "terminated" => Waits(c, "listener")'
  BY <1>0, Queued DEF Resume, Queue, TypeOK, Tasks
<1>10. LoopInv(c)' /\ MapInv(c)'
  <2>1. (Open(c)' <=> Open(c)) /\ c \notin resuming' /\ c \notin byChannel' /\ status'[c] # "unused"
        /\ (Open(c) \/ c \in early) /\ loop'[c] = "idle"
    BY <1>1, <1>2, <1>7 DEF Open, MapInv, LoopInv, Pending, Fresh, maps
  <2>2. QED BY <1>1, <1>7, <1>8, <2>1 DEF LoopInv, MapInv, Adding, history
<1>11. destroyer' = "none" => /\ destroyer = "none" /\ UNCHANGED group
                              /\ RunningInv(c)'
                              /\ early' = {} => Alive(c)'
  <2> SUFFICES ASSUME destroyer' = "none"
               PROVE  UNCHANGED group /\ RunningInv(c)' /\ (early' = {} => Alive(c)')
    BY <1>1
  <2>1. group = "open" /\ RunningInv(c)
    BY <1>1 DEF IInv, Running
  <2>2. Fresh(c)'
    BY <1>9, <2>1 DEF Fresh
  <2>3. early = {} => Open(c)
    BY <1>1, <1>7 DEF MapInv, Fresh
  <2>4. QED BY <1>1, <1>7, <1>8, <2>1, <2>2, <2>3
            DEF network, maps, history, RunningInv, Open, Alive, Adding
<1>12. ~withdrawn'
  BY <1>1, <1>2 DEF IInv, Withdrawn, history
<1>13. QED BY <1>0, <1>3, <1>4, <1>6, <1>10, <1>11, <1>12, FocusStep
-------------------------------------------------------------------------------
(* The event loop of channel c. *)

LEMMA LoopTyped == ASSUME IInv, NEW c \in Channels, LoopStep(c) PROVE TypeOK /\ TypeOK'
  BY Typed DEF Next, IInv

LEMMA ListenerStep == ASSUME IInv, NEW c \in Channels, Listener(c) PROVE IInv'
<1>0. TypeOK' /\ TypeOK
  BY LoopTyped DEF LoopStep
<1>1. /\ channel' = c /\ tasks' = [tasks EXCEPT ![c] = Tail(tasks[c])] /\ Runs(c, "listener")
      /\ UNCHANGED <<network, status, dials, future, maps, destroyer, early, withdrawn>>
  BY DEF Listener, Done
<1>2. tasks'[c] = Tail(tasks[c]) /\ "listener" \in Tasks
  BY <1>0, <1>1 DEF TypeOK, Tasks
<1>3. LoopInv(c) /\ MapInv(c)
  BY DEF IInv, Core
<1>4. /\ Waits(c, "listener") /\ loop[c] = "idle" /\ ~Waits(c, "listener")'
      /\ (Waits(c, "inactive")' <=> Waits(c, "inactive"))
      /\ Once(tasks[c], "listener")' /\ Once(tasks[c], "inactive")'
  BY <1>0, <1>1, <1>2, <1>3, Taken DEF LoopInv
<1>5. Fresh(c) /\ Pending(c) /\ Held(c)
  BY <1>4 DEF Held, Pending, Fresh
<1>6. Dials = 0 /\ Dials' = 0 /\ \A d \in Channels \ {c} : ~Held(d)
  BY <1>0, <1>1, <1>5, Alone DEF IInv, Dials, dials
<1>7. /\ loop' = loop \/ loop' = [loop EXCEPT ![c] = "addType"]
      /\ said' = said \/ said' = [said EXCEPT ![c] = "register"]
      /\ Open(c) => /\ loop' = [loop EXCEPT ![c] = "addType"]
                    /\ said' = [said EXCEPT ![c] = "register"]
  BY DEF Listener, Goto, Write
<1>8. \A d \in Channels \ {c} : Same(d)
  BY <1>0, <1>1, <1>7, Untouched DEF TypeOK, dials, maps
<1>9. /\ (Open(c)' <=> Open(c)) /\ status'[c] = status[c] /\ status[c] # "unused"
      /\ c \notin byChannel' /\ c \notin resuming' /\ (Open(c) \/ c \in early)
      /\ (loop'[c] = "idle" \/ loop'[c] = "addType")
      /\ Open(c) => loop'[c] = "addType" /\ said'[c] = "register"
      /\ (Waits(c, "inactive") => status[c] = "closed")
  BY <1>0, <1>1, <1>3, <1>4, <1>5, <1>7
     DEF Open, dials, maps, LoopInv, MapInv, TypeOK
<1>10. LoopInv(c)' /\ MapInv(c)'
  BY <1>1, <1>4, <1>9 DEF LoopInv, MapInv, Pending, Fresh, Adding, Held
<1>11. destroyer' = "none" => /\ destroyer = "none" /\ UNCHANGED group
                              /\ RunningInv(c)'
                              /\ early' = {} => Alive(c)'
  <2> SUFFICES ASSUME destroyer' = "none"
               PROVE  UNCHANGED group /\ RunningInv(c)' /\ (early' = {} => Alive(c)')
    BY <1>1
  <2>1. RunningInv(c)
    BY <1>1 DEF IInv, Running
  <2>2. Open(c) => Fresh(c)'
    BY <1>9 DEF Fresh, Adding
  <2>3. QED BY <1>1, <1>4, <1>9, <2>1, <2>2 DEF network, maps, RunningInv, Alive
<1>12. ~withdrawn'
  BY <1>1, <1>5 DEF IInv, Withdrawn
<1>13. QED BY <1>0, <1>6, <1>8, <1>10, <1>11, <1>12, FocusStep

LEMMA AddTypeStep == ASSUME IInv, NEW c \in Channels, AddType(c) PROVE IInv'
<1>0. TypeOK' /\ TypeOK
  BY LoopTyped DEF LoopStep
<1>1. /\ loop[c] = "addType" /\ loop' = [loop EXCEPT ![c] = "addChannel"] /\ byType' = TRUE
      /\ UNCHANGED <<network, status, tasks, dials, fields, byChannel, destroyer, history>>
  BY DEF AddType, Goto
<1>2. loop'[c] = "addChannel"
  BY <1>0, <1>1 DEF TypeOK
<1>3. Fresh(c) /\ Pending(c) /\ Held(c) /\ Adding(c) /\ LoopInv(c) /\ MapInv(c)
  BY <1>1 DEF Held, Pending, Fresh, Adding, IInv, Core
<1>4. Dials = 0 /\ Dials' = 0 /\ \A d \in Channels \ {c} : ~Held(d)
  BY <1>0, <1>1, <1>3, Alone DEF IInv, Dials, dials
<1>5. \A d \in Channels \ {c} : Same(d)
  BY <1>0, <1>1, Untouched DEF TypeOK, dials
<1>6. LoopInv(c)' /\ MapInv(c)' /\ Fresh(c)' /\ Adding(c)'
  BY <1>1, <1>2, <1>3
     DEF LoopInv, MapInv, Pending, Fresh, Adding, Held, Waits, Open, dials, fields, history
<1>7. destroyer' = "none" => /\ destroyer = "none" /\ UNCHANGED group
                             /\ RunningInv(c)'
                             /\ early' = {} => Alive(c)'
  <2> SUFFICES ASSUME destroyer' = "none"
               PROVE  UNCHANGED group /\ RunningInv(c)' /\ (early' = {} => Alive(c)')
    BY <1>1
  <2>1. RunningInv(c)
    BY <1>1 DEF IInv, Running
  <2>2. early = {} => Open(c)
    BY <1>3 DEF MapInv
  <2>3. QED BY <1>1, <1>3, <1>6, <2>1, <2>2 DEF network, history, RunningInv, Alive, Open, Waits
<1>8. ~withdrawn'
  BY <1>1, <1>3 DEF IInv, Withdrawn, history
<1>9. QED BY <1>0, <1>4, <1>5, <1>6, <1>7, <1>8, FocusStep

LEMMA AddChannelStep == ASSUME IInv, NEW c \in Channels, AddChannel(c) PROVE IInv'
<1>0. TypeOK' /\ TypeOK
  BY LoopTyped DEF LoopStep
<1>1. /\ loop[c] = "addChannel" /\ loop' = [loop EXCEPT ![c] = "idle"]
      /\ byChannel' = byChannel \cup {channel}
      /\ UNCHANGED <<network, status, tasks, dials, fields, byType, destroyer, history>>
  BY DEF AddChannel, Goto
<1>2. loop'[c] = "idle"
  BY <1>0, <1>1 DEF TypeOK
<1>3. Fresh(c) /\ Pending(c) /\ Held(c) /\ Adding(c) /\ LoopInv(c) /\ MapInv(c)
  BY <1>1 DEF Held, Pending, Fresh, Adding, IInv, Core
<1>4. Dials = 0 /\ Dials' = 0 /\ \A d \in Channels \ {c} : ~Held(d)
  BY <1>0, <1>1, <1>3, Alone DEF IInv, Dials, dials
<1>5. channel = c
  BY <1>3 DEF MapInv
<1>6. \A d \in Channels \ {c} : Same(d)
  BY <1>0, <1>1, <1>5, Untouched DEF TypeOK, dials
<1>7. ~Waits(c, "listener") /\ c \notin resuming /\ (Open(c) \/ c \in early)
  BY <1>1, <1>3 DEF LoopInv, MapInv
<1>8. ~Fresh(c)' /\ ~Pending(c)' /\ c \in byChannel' /\ (Open(c)' <=> Open(c))
  BY <1>1, <1>2, <1>5, <1>7 DEF Pending, Fresh, Adding, Waits, Open, dials
<1>9. LoopInv(c)' /\ MapInv(c)'
  BY <1>1, <1>2, <1>3, <1>5, <1>7, <1>8
     DEF LoopInv, MapInv, Adding, Waits, dials, fields, history
<1>10. destroyer' = "none" => /\ destroyer = "none" /\ UNCHANGED group
                              /\ RunningInv(c)'
                              /\ early' = {} => Alive(c)'
  <2> SUFFICES ASSUME destroyer' = "none"
               PROVE  UNCHANGED group /\ RunningInv(c)' /\ (early' = {} => Alive(c)')
    BY <1>1
  <2>1. RunningInv(c)
    BY <1>1 DEF IInv, Running
  <2>2. QED BY <1>1, <1>2, <1>3, <1>7, <1>8, <2>1
            DEF network, history, RunningInv, Alive, Waits, Adding
<1>11. ~withdrawn'
  BY <1>1, <1>3 DEF IInv, Withdrawn, history
<1>12. QED BY <1>0, <1>4, <1>6, <1>9, <1>10, <1>11, FocusStep

LEMMA RemoveTypeStep == ASSUME IInv, NEW c \in Channels, RemoveType(c) PROVE IInv'
<1>0. TypeOK' /\ TypeOK
  BY LoopTyped DEF LoopStep
<1>1. /\ loop[c] = "removeType" /\ loop' = [loop EXCEPT ![c] = "idle"]
      /\ checking' = checking + 1
      /\ UNCHANGED <<network, status, tasks, dialing, resuming, retries, fields, byChannel,
                     destroyer, history>>
  BY DEF RemoveType, Goto
<1>2. loop'[c] = "idle"
  BY <1>0, <1>1 DEF TypeOK
<1>3. Pending(c) /\ Held(c) /\ LoopInv(c) /\ MapInv(c)
  BY <1>1 DEF Held, Pending, IInv, Core
<1>4. Dials = 0 /\ \A d \in Channels \ {c} : ~Held(d)
  BY <1>0, <1>3, Alone DEF IInv
<1>5. Dials' = 1
  BY <1>0, <1>1, <1>4 DEF Dials, TypeOK
<1>6. \A d \in Channels \ {c} : Same(d)
  BY <1>0, <1>1, Untouched DEF TypeOK
<1>7. /\ ~Waits(c, "listener") /\ ~Waits(c, "inactive") /\ c \notin resuming /\ c \notin byChannel
      /\ status[c] = "closed"
  BY <1>1, <1>3 DEF LoopInv, MapInv
<1>8. ~Fresh(c)' /\ ~Pending(c)' /\ ~Open(c)' /\ ~Held(c)' /\ ~Waits(c, "inactive")'
      /\ ~Waits(c, "listener")' /\ ~Adding(c)' /\ c \notin resuming' /\ c \notin byChannel'
  BY <1>1, <1>2, <1>7 DEF Pending, Fresh, Adding, Waits, Open, Held
<1>9. LoopInv(c)' /\ MapInv(c)' /\ RunningInv(c)'
  BY <1>1, <1>2, <1>3, <1>8 DEF LoopInv, MapInv, RunningInv
<1>10. ~withdrawn'
  BY <1>1, <1>3 DEF IInv, Withdrawn, history
<1>11. QED BY <1>0, <1>1, <1>4, <1>5, <1>6, <1>8, <1>9, <1>10, FocusStep DEF network

LEMMA InactiveStep == ASSUME IInv, NEW c \in Channels, Inactive(c) PROVE IInv'
<1>0. TypeOK' /\ TypeOK
  BY LoopTyped DEF LoopStep
<1>1. /\ tasks' = [tasks EXCEPT ![c] = Tail(tasks[c])] /\ Runs(c, "inactive")
      /\ loop' = IF c \in byChannel THEN [loop EXCEPT ![c] = "removeType"] ELSE loop
      /\ byChannel' = byChannel \ {c}
      /\ UNCHANGED <<network, status, dials, fields, byType, destroyer, history>>
  BY DEF Inactive, Done, Goto
<1>2. tasks'[c] = Tail(tasks[c]) /\ "inactive" \in Tasks
  BY <1>0, <1>1 DEF TypeOK, Tasks
<1>3. LoopInv(c) /\ MapInv(c)
  BY DEF IInv, Core
<1>4. /\ Waits(c, "inactive") /\ loop[c] = "idle" /\ ~Waits(c, "inactive")'
      /\ (Waits(c, "listener")' <=> Waits(c, "listener"))
      /\ Once(tasks[c], "listener")' /\ Once(tasks[c], "inactive")'
  BY <1>0, <1>1, <1>2, <1>3, Taken DEF LoopInv
<1>5. Held(c)
  BY <1>4 DEF Held
<1>6. Dials = 0 /\ Dials' = 0 /\ \A d \in Channels \ {c} : ~Held(d)
  BY <1>0, <1>1, <1>5, Alone DEF IInv, Dials, dials
<1>7. \A d \in Channels \ {c} : Same(d)
  BY <1>0, <1>1, Untouched DEF TypeOK, dials
<1>8. /\ status[c] = "closed" /\ ~Open(c) /\ ~Open(c)' /\ status'[c] = "closed"
      /\ (c \in resuming' <=> c \in resuming) /\ c \notin byChannel'
  BY <1>1, <1>3, <1>4 DEF LoopInv, Open, dials
<1>9. CASE c \in byChannel
  <2>1. loop'[c] = "removeType" /\ ~Fresh(c)
    BY <1>0, <1>1, <1>3, <1>9 DEF TypeOK, MapInv, Pending
  <2>2. ~Fresh(c)' /\ ~Adding(c)' /\ c \notin resuming' /\ ~Waits(c, "listener")'
    BY <1>4, <1>8, <2>1 DEF Fresh, Adding
  <2>3. LoopInv(c)' /\ MapInv(c)' /\ RunningInv(c)' /\ Alive(c)'
    BY <1>4, <1>8, <2>1, <2>2 DEF LoopInv, MapInv, RunningInv, Alive
  <2>4. ~withdrawn'
    BY <1>1, <1>9 DEF IInv, Withdrawn, history
  <2>5. QED BY <1>0, <1>1, <1>6, <1>7, <2>3, <2>4, FocusStep DEF network
<1>10. CASE c \notin byChannel
  <2>1. loop' = loop
    BY <1>1, <1>10
  <2>2. (Fresh(c)' <=> Fresh(c)) /\ (Adding(c)' <=> Adding(c)) /\ (Pending(c)' <=> Pending(c))
    BY <1>4, <1>8, <2>1 DEF Fresh, Adding, Pending
  <2>3. LoopInv(c)' /\ MapInv(c)'
    BY <1>1, <1>3, <1>4, <1>8, <2>1, <2>2 DEF LoopInv, MapInv, history, fields
  <2>4. destroyer' = "none" => /\ destroyer = "none" /\ UNCHANGED group
                               /\ RunningInv(c)'
                               /\ early' = {} => Alive(c)'
    <3> SUFFICES ASSUME destroyer' = "none"
                 PROVE  UNCHANGED group /\ RunningInv(c)' /\ early' # {}
      BY <1>1
    <3>1. RunningInv(c)
      BY <1>1 DEF IInv, Running
    <3>2. c \in early
      BY <1>4, <1>10, <3>1 DEF RunningInv
    <3>3. QED BY <1>1, <1>4, <1>8, <2>1, <3>1, <3>2 DEF RunningInv, network, history
  <2>5. withdrawn' => ~Pending(c)'
    BY <1>1, <2>2 DEF IInv, Withdrawn, history
  <2>6. QED BY <1>0, <1>6, <1>7, <1>8, <2>3, <2>4, <2>5, FocusStep
<1>11. QED BY <1>9, <1>10
-------------------------------------------------------------------------------
(* A connection that is closed, by its event loop or by the network. *)

\* The event loop of c is idle, and channelInactive is put at the end of its tasks,
\* of which it has taken none but a "close".
LEMMA LostStep ==
  ASSUME IInv, TypeOK', NEW c \in Channels, Open(c), loop[c] = "idle",
         status' = [status EXCEPT ![c] = "closed"],
         \A d \in Channels \ {c} : tasks'[d] = tasks[d],
         Waits(c, "inactive")', Waits(c, "listener")' <=> Waits(c, "listener"),
         Once(tasks[c], "listener")', Once(tasks[c], "inactive")',
         early' = early \cup ({c} \cap Unheard),
         destroyer' = "none" => group' = group,
         UNCHANGED <<loop, dials, fields, maps, destroyer, said, withdrawn>>
  PROVE  IInv'
<1>0. TypeOK /\ LoopInv(c) /\ MapInv(c)
  BY DEF IInv, Core
<1>1. Held(c)
  BY DEF Held
<1>2. Dials = 0 /\ Dials' = 0 /\ \A d \in Channels \ {c} : ~Held(d)
  BY <1>0, <1>1, Alone DEF IInv, Dials, dials
<1>3. \A d \in Channels \ {c} : Same(d)
  BY <1>0, Untouched DEF TypeOK, dials, maps
<1>4. status'[c] = "closed" /\ ~Open(c)' /\ loop'[c] = "idle"
  BY <1>0 DEF TypeOK, Open
<1>5. (Fresh(c)' <=> Fresh(c)) /\ (Pending(c)' <=> Pending(c)) /\ (c \in byChannel' <=> c \in byChannel)
      /\ ~Adding(c)'
  BY DEF Fresh, Pending, Adding, dials, maps
<1>6. Fresh(c) => c \in early'
  BY DEF Fresh, Adding, Unheard, Waits
<1>7. LoopInv(c)' /\ MapInv(c)'
  BY <1>0, <1>4, <1>5, <1>6 DEF LoopInv, MapInv, dials, fields
<1>8. destroyer' = "none" => RunningInv(c)' /\ destroyer = "none" /\ group' = group
  <2> SUFFICES ASSUME destroyer' = "none" PROVE RunningInv(c)'
    OBVIOUS
  <2>1. RunningInv(c)
    BY DEF IInv, Running
  <2>2. QED BY <1>4, <1>5, <1>6, <2>1 DEF RunningInv
<1>9. withdrawn' => c \notin byChannel' /\ ~Pending(c)'
  BY <1>5 DEF IInv, Withdrawn
<1>10. Alive(c)'
  BY DEF Alive
<1>11. QED BY <1>2, <1>3, <1>7, <1>8, <1>9, <1>10, FocusStep

LEMMA LoseStep ==
  ASSUME IInv, NEW c \in Channels, Break(c) \/ BreakDown(c) \/ CloseAll(c) PROVE IInv'
<1>0. TypeOK' /\ TypeOK /\ "inactive" \in Tasks
  BY Typed DEF Next, BreakStep, IInv, Tasks
<1>1. Lose(c) /\ group' = group
  BY DEF Break, BreakDown, CloseAll, network
<1>2. Open(c) /\ tasks' = [tasks EXCEPT ![c] = Append(tasks[c], "inactive")]
  BY <1>1 DEF Lose, Queue
<1>3. tasks'[c] = Append(tasks[c], "inactive") /\ \A d \in Channels \ {c} : tasks'[d] = tasks[d]
  BY <1>0, <1>2 DEF TypeOK
<1>4. LoopInv(c)
  BY DEF IInv, Core
<1>5. ~Waits(c, "inactive")
  BY <1>2, <1>4 DEF LoopInv, Open
<1>6. /\ Waits(c, "inactive")' /\ (Waits(c, "listener")' <=> Waits(c, "listener"))
      /\ Once(tasks[c], "listener")' /\ Once(tasks[c], "inactive")'
  BY <1>0, <1>3, <1>4, <1>5, Queued DEF LoopInv
<1>7. QED BY <1>0, <1>1, <1>2, <1>3, <1>6, LostStep DEF Lose

LEMMA CloseTaskStep == ASSUME IInv, NEW c \in Channels, CloseTask(c) PROVE IInv'
<1>0. TypeOK' /\ TypeOK /\ "close" \in Tasks /\ "inactive" \in Tasks
  BY LoopTyped DEF LoopStep, Tasks
<1>1. /\ status' = [status EXCEPT ![c] = "closed"] /\ Runs(c, "close")
      /\ tasks' = [tasks EXCEPT ![c] = IF Open(c) THEN Append(Tail(tasks[c]), "inactive")
                                                  ELSE Tail(tasks[c])]
      /\ early' = early \cup ({c} \cap Unheard)
      /\ UNCHANGED <<network, loop, dials, fields, maps, destroyer, said, withdrawn>>
  BY DEF CloseTask
<1>2. LoopInv(c) /\ MapInv(c)
  BY DEF IInv, Core
<1>3. \A d \in Channels \ {c} : tasks'[d] = tasks[d]
  BY <1>0, <1>1 DEF TypeOK
<1>4. /\ tasks[c] \in Seq(Tasks) /\ tasks[c] # <<>> /\ Head(tasks[c]) = "close"
      /\ loop[c] = "idle" /\ Tail(tasks[c]) \in Seq(Tasks)
  BY <1>0, <1>1, ContainsTail DEF TypeOK, Runs
<1>5. /\ Contains(Tail(tasks[c]), "listener") <=> Waits(c, "listener")
      /\ Contains(Tail(tasks[c]), "inactive") <=> Waits(c, "inactive")
      /\ Once(Tail(tasks[c]), "listener") /\ Once(Tail(tasks[c]), "inactive")
  BY <1>2, <1>4, ContainsTail DEF Waits, LoopInv
<1>6. CASE Open(c)
  <2>1. tasks'[c] = Append(Tail(tasks[c]), "inactive")
    BY <1>0, <1>1, <1>6 DEF TypeOK
  <2>2. ~Waits(c, "inactive")
    BY <1>2, <1>6 DEF LoopInv, Open
  <2>3. /\ Waits(c, "inactive")' /\ (Waits(c, "listener")' <=> Waits(c, "listener"))
        /\ Once(tasks[c], "listener")' /\ Once(tasks[c], "inactive")'
    <3> DEFINE rest == Tail(tasks[c])
    <3>1. rest \in Seq(Tasks) /\ tasks'[c] = Append(rest, "inactive")
      BY <1>4, <2>1
    <3>2. /\ Contains(rest, "listener") <=> Waits(c, "listener")
          /\ ~Contains(rest, "inactive") /\ Once(rest, "listener") /\ Once(rest, "inactive")
      BY <1>5, <2>2
    <3> HIDE DEF rest
    <3>3. /\ \A t : Contains(tasks'[c], t) <=> Contains(rest, t) \/ t = "inactive"
          /\ \A t : Once(rest, t) /\ (t = "inactive" => ~Contains(rest, t)) => Once(tasks'[c], t)
      BY <1>0, <3>1, ContainsAppend
    <3>4. QED BY <3>2, <3>3 DEF Waits
  <2>4. QED BY <1>0, <1>1, <1>3, <1>4, <1>6, <2>3, LostStep DEF network
<1>7. CASE ~Open(c)
  <2>1. tasks'[c] = Tail(tasks[c]) /\ status'[c] = "closed"
    BY <1>0, <1>1, <1>7 DEF TypeOK
  <2>2. ~Open(c)'
    BY <2>1 DEF Open
  <2>3. Same(c)
    BY <1>1, <1>5, <1>7, <2>1, <2>2 DEF Same, Waits, dials, maps
  <2>4. \A d \in Channels : Same(d)
    BY <1>0, <1>1, <1>3, <2>3, Untouched DEF TypeOK, dials, maps
  <2>5. early' = early
    BY <1>1, <1>2, <1>7 DEF Unheard, MapInv, Fresh, Waits
  <2>6. Dials' = Dials
    BY <1>1 DEF Dials, dials
  <2>7. UNCHANGED <<group, channel, byType, said, destroyer, withdrawn>>
    BY <1>1 DEF network, fields, maps
  <2>8. QED BY <1>0, <2>4, <2>5, <2>6, <2>7, OutsideStep
<1>8. QED BY <1>6, <1>7

LEMMA LoopSteps == ASSUME IInv, NEW c \in Channels, LoopStep(c) PROVE IInv'
  BY ListenerStep, AddTypeStep, AddChannelStep, CloseTaskStep, InactiveStep, RemoveTypeStep
     DEF LoopStep
-------------------------------------------------------------------------------
(* destroy, discover, and the end of the group. *)

LEMMA DestroySteps == IInv /\ (Destroy \/ DestroyStep) => IInv'
<1> SUFFICES ASSUME IInv, Destroy \/ DestroyStep PROVE IInv'
  OBVIOUS
<1>0. TypeOK' /\ TypeOK
  BY Typed DEF Next, IInv
<1>1. CASE Destroy \/ ShutdownGracefully \/ DestroyRemoveType
  <2>1. UNCHANGED <<loops, dials, fields, byChannel, early, withdrawn>> /\ destroyer' # "none"
    BY <1>1 DEF Destroy, ShutdownGracefully, DestroyRemoveType, maps, history
  <2>2. \A d \in Channels : Same(d)
    BY <2>1, Untouched DEF loops, dials
  <2>3. QED BY <1>0, <2>1, <2>2, OutsideStep DEF dials, fields, Dials
<1>2. CASE Close
  <2>1. /\ UNCHANGED <<network, status, loop, dials, fields, maps, history>>
        /\ destroyer' # "none"
        /\ tasks' = tasks \/ (/\ future \in Channels
                              /\ tasks' = [tasks EXCEPT ![future] = Append(tasks[future], "close")])
    BY <1>0, <1>2 DEF Close, Queue, TypeOK
  <2>2. ASSUME NEW d \in Channels, tasks'[d] # tasks[d] PROVE Same(d)
    <3>1. tasks'[d] = Append(tasks[d], "close") /\ "close" \in Tasks
      BY <1>0, <2>1, <2>2 DEF TypeOK, Tasks
    <3>2. QED BY <1>0, <2>1, <3>1, Queued DEF Same, dials, maps, Open
  <2>3. \A d \in Channels : Same(d)
    BY <2>1, <2>2, Untouched DEF dials, maps
  <2>4. QED BY <1>0, <2>1, <2>3, OutsideStep DEF dials, fields, history, Dials
<1>3. CASE DestroyRemoveChannel
  <2>1. /\ byChannel' = byChannel \ {channel} /\ withdrawn' = (channel \in byChannel)
        /\ UNCHANGED <<network, loops, dials, fields, byType, early, said>>
        /\ destroyer' # "none"
    BY <1>3 DEF DestroyRemoveChannel
  <2>2. Dials' = Dials
    BY <2>1 DEF Dials, dials
  <2>3. CASE channel \notin byChannel
    <3>1. \A d \in Channels : Same(d)
      BY <2>1, <2>3, Untouched DEF loops, dials
    <3>2. QED BY <1>0, <2>1, <2>2, <2>3, <3>1, OutsideStep DEF fields
  <2>4. CASE channel \in byChannel
    <3>1. PICK c \in Channels : c = channel
      BY <1>0, <2>4 DEF TypeOK
    <3>2. Held(c) /\ LoopInv(c) /\ MapInv(c) /\ ~Pending(c)
      BY <2>4, <3>1 DEF Held, IInv, Core, MapInv
    <3>3. Dials = 0 /\ \A d \in Channels \ {c} : ~Held(d)
      BY <1>0, <3>2, Alone DEF IInv
    <3>4. \A d \in Channels \ {c} : Same(d)
      BY <2>1, <3>1, Untouched DEF loops, dials
    <3>5. ~Pending(c)' /\ c \notin byChannel'
      BY <2>1, <3>1, <3>2 DEF Pending, Fresh, Waits, Adding, loops, dials
    <3>6. LoopInv(c)' /\ MapInv(c)'
      <4>1. status'[c] # "unused"
        BY <2>1, <3>2 DEF LoopInv, loops
      <4>2. QED BY <2>1, <3>2, <3>5, <4>1
                DEF LoopInv, MapInv, Pending, Fresh, Waits, Adding, loops, dials
    <3>7. QED BY <1>0, <2>1, <2>2, <3>3, <3>4, <3>5, <3>6, FocusStep
  <2>5. QED BY <2>3, <2>4
<1>4. QED BY <1>1, <1>2, <1>3 DEF DestroyStep

LEMMA OtherSteps ==
  IInv /\ (DiscoverStops \/ DiscoverStarts \/ Terminate \/ UNCHANGED vars) => IInv'
<1> SUFFICES ASSUME IInv, DiscoverStops \/ DiscoverStarts \/ Terminate \/ UNCHANGED vars
             PROVE  IInv'
  OBVIOUS
<1>0. TypeOK' /\ TypeOK
  BY Typed DEF Next, IInv
<1>1. /\ UNCHANGED <<loops, dials, fields, maps, destroyer, history>>
      /\ group' = group \/ group = "quiet"
  BY DEF DiscoverStops, DiscoverStarts, Terminate, vars, network
<1>2. destroyer' = "none" => group' = group
  BY <1>1 DEF IInv, Running
<1>3. \A d \in Channels : Same(d)
  BY <1>1, Untouched DEF loops, dials, maps
<1>4. QED BY <1>0, <1>1, <1>2, <1>3, OutsideStep DEF dials, fields, maps, history, Dials
-------------------------------------------------------------------------------
LEMMA InvInit == Init => IInv
<1> SUFFICES ASSUME Init PROVE IInv
  OBVIOUS
<1>1. TypeOK
  BY TypeInit
<1>2. \A c \in Channels : /\ ~Fresh(c) /\ ~Pending(c) /\ ~Open(c) /\ ~Held(c) /\ ~Adding(c)
                          /\ \A t : ~Waits(c, t) /\ Once(tasks[c], t)
  BY NothingQueued DEF Init, Fresh, Pending, Open, Held, Adding, Waits
<1>3. Dials = 1 /\ loop \in [Channels -> {"idle"}] /\ resuming = {}
  BY DEF Init, Dials
<1>4. Core
  BY <1>2, <1>3 DEF Core, Single, LoopInv, MapInv, Init
<1>5. Running
  BY <1>2, <1>3 DEF Running, RunningInv, Init, Adding
<1>6. QED BY <1>1, <1>4, <1>5 DEF IInv, Init

LEMMA InvStep == IInv /\ [Next]_vars => IInv'
  BY DialStep, DialSucceedsStep, ResumeStep, LoopSteps, LoseStep, DestroySteps, OtherSteps
     DEF Next, DoConnectStep, BreakStep

\* The invariant from which what follows is read off.
THEOREM Invariant == Spec => []IInv
  BY InvInit, InvStep, PTL DEF Spec
-------------------------------------------------------------------------------
(* The properties. *)

\* Every state of doConnect, the event loops and destroy is well-typed: addClient
\* enters the channel of the field, which is never null by then.
THEOREM Types == Spec => []TypeOK
<1>1. IInv => TypeOK
  BY DEF IInv
<1>2. QED BY <1>1, Invariant, PTL

LEMMA AtMostOne ==
  ASSUME NEW c, NEW S, S \subseteq {c}
  PROVE  \/ S = {} /\ Cardinality(S) = 0
         \/ S = {c} /\ Cardinality(S) = 1
<1>1. S = {} \/ S = {c}
  OBVIOUS
<1>2. Cardinality({}) = 0 /\ Cardinality({c}) = 1
  BY FS_EmptySet, FS_Singleton
<1>3. CASE S = {}
  BY <1>2, <1>3
<1>4. CASE S = {c}
  BY <1>2, <1>4
<1>5. QED BY <1>1, <1>3, <1>4

\* The sets are finite, so that counting them makes sense.
LEMMA Counted ==
  ASSUME TypeOK
  PROVE  Cardinality(resuming) \in Nat /\ (resuming # {} => Cardinality(resuming) > 0)
<1>1. IsFiniteSet(Channels)
  BY LifecycleAssumption, FS_Interval DEF Channels
<1>2. IsFiniteSet(resuming)
  BY <1>1, FS_Subset DEF TypeOK
<1>3. QED BY <1>2, FS_EmptySet, FS_CardinalityType

\* Whatever the starter, the retries, the event loops and destroy do beside each other,
\* there is one attempt at most, and none while a connection is open.
THEOREM OneAttemptAtMost == Spec => []OneAttempt
<1>1. ASSUME IInv PROVE OneAttempt
  <2>1. Dials \in Nat /\ resuming \subseteq Channels
    BY <1>1 DEF IInv, TypeOK, Dials
  <2>2. \A c \in Channels : c \in resuming \cup Returning \cup Linked => Held(c)
    BY DEF Held, Pending, Fresh, Returning, Linked
  <2>3. \A c \in Channels : /\ ~(c \in resuming /\ c \in Returning)
                            /\ ~(c \in Returning /\ c \in Linked)
                            /\ ~(c \in resuming /\ c \in Linked)
    BY <1>1 DEF IInv, Core, LoopInv, Returning, Linked, Open
  <2>4. CASE \A c \in Channels : ~Held(c)
    <3>1. resuming = {} /\ Returning = {} /\ Linked = {}
      BY <2>1, <2>2, <2>4 DEF Returning, Linked
    <3>2. Dials <= 1
      BY <1>1 DEF IInv, Core, Single
    <3>3. QED BY <2>1, <3>1, <3>2, FS_EmptySet DEF OneAttempt, Attempts, Dials, IInv, TypeOK
  <2>5. ASSUME NEW c \in Channels, Held(c) PROVE OneAttempt
    <3>1. Dials = 0 /\ \A d \in Channels \ {c} : ~Held(d)
      BY <1>1, <2>5, Alone DEF IInv
    <3>2. resuming \subseteq {c} /\ Returning \subseteq {c} /\ Linked \subseteq {c}
      BY <2>1, <2>2, <3>1 DEF Returning, Linked
    <3>3. /\ \/ resuming = {} /\ Cardinality(resuming) = 0
             \/ resuming = {c} /\ Cardinality(resuming) = 1
          /\ \/ Returning = {} /\ Cardinality(Returning) = 0
             \/ Returning = {c} /\ Cardinality(Returning) = 1
          /\ \/ Linked = {} /\ Cardinality(Linked) = 0
             \/ Linked = {c} /\ Cardinality(Linked) = 1
      BY <3>2, AtMostOne
    <3>4. Cardinality(resuming) + Cardinality(Returning) + Cardinality(Linked) <= 1
      BY <2>3, <3>3
    <3>5. checking \in Nat /\ dialing \in Nat /\ retries \in Nat
      BY <1>1 DEF IInv, TypeOK
    <3>6. checking = 0 /\ dialing = 0 /\ retries = 0
      BY <3>1, <3>5 DEF Dials
    <3>7. QED BY <3>3, <3>4, <3>6 DEF OneAttempt, Attempts
  <2>6. QED BY <2>4, <2>5
<1>2. QED BY <1>1, Invariant, PTL

\* Only a connection lost before its listener has run can leave a client that is not
\* being destroyed without a connection, an attempt at one or the task that starts one.
THEOREM NeverForgotten == Spec => []NotForgotten
<1>1. ASSUME IInv PROVE NotForgotten
  <2> SUFFICES ASSUME destroyer = "none", early = {}
               PROVE  \/ Attempts > 0 \/ Returning # {} \/ Linked # {}
                      \/ \E c \in Channels : Contains(tasks[c], "inactive")
    BY DEF NotForgotten
  <2>1. Dials = 1 \/ \E c \in Channels : Alive(c)
    BY <1>1 DEF IInv, Running
  <2>2. /\ checking \in Nat /\ dialing \in Nat /\ retries \in Nat
        /\ Cardinality(resuming) \in Nat /\ (resuming # {} => Cardinality(resuming) > 0)
    BY <1>1, Counted DEF IInv, TypeOK
  <2>3. Dials = 1 \/ resuming # {} => Attempts > 0
    BY <2>2 DEF Dials, Attempts
  <2>4. ASSUME NEW c \in Channels, Alive(c)
        PROVE  resuming # {} \/ Returning # {} \/ Linked # {} \/ Contains(tasks[c], "inactive")
    BY <2>4 DEF Alive, Returning, Linked, Waits
  <2>5. QED BY <2>1, <2>3, <2>4
<1>2. QED BY <1>1, Invariant, PTL

\* Until destroy, a connection whose event loop is at rest is registered and is what
\* both maps of the manager have.
THEOREM LinkedKnown == Spec => []LinkedIsKnown
<1>1. ASSUME IInv PROVE LinkedIsKnown
  <2> SUFFICES ASSUME NEW c \in Linked, destroyer = "none", tasks[c] = <<>>, loop[c] = "idle"
               PROVE  channel = c /\ byType /\ byChannel = {c} /\ said[c] = "register"
    BY DEF LinkedIsKnown
  <2>1. c \in Channels /\ Open(c) /\ Held(c) /\ ~Fresh(c)
    BY NothingQueued DEF Linked, Held, Fresh, Waits, Adding
  <2>2. RunningInv(c) /\ MapInv(c)
    BY <1>1, <2>1 DEF IInv, Running, Core
  <2>3. c \in byChannel /\ byType /\ said[c] = "register" /\ channel = c
    BY <2>1, <2>2 DEF RunningInv, MapInv
  <2>4. \A d \in byChannel : d \in Channels /\ Held(d)
    BY <1>1 DEF IInv, TypeOK, Held
  <2>5. \A d \in byChannel : d = c
    BY <1>1, <2>1, <2>4 DEF IInv, Core, Single
  <2>6. QED BY <2>3, <2>5
<1>2. QED BY <1>1, Invariant, PTL

\* A closed channel stays in rpcChannelClientMap only if it was lost before its
\* listener had run.
THEOREM OnlyEarlyResidue == Spec => []ResidueOnlyEarly
<1>1. ASSUME IInv PROVE ResidueOnlyEarly
  BY <1>1 DEF IInv, Core, MapInv, TypeOK, ResidueOnlyEarly, Waits
<1>2. QED BY <1>1, Invariant, PTL

\* A client that destroy took out of rpcChannelClientMap never connects again.
THEOREM DestroyedStaysDown == Spec => []StaysDown
<1>1. ASSUME IInv PROVE StaysDown
  <2> SUFFICES ASSUME withdrawn PROVE Attempts = 0 /\ Returning = {}
    BY DEF StaysDown
  <2>1. Dials = 0 /\ \A c \in Channels : ~Pending(c)
    BY <1>1 DEF IInv, Withdrawn
  <2>2. resuming = {} /\ Returning = {}
    BY <1>1, <2>1 DEF IInv, TypeOK, Pending, Fresh, Returning
  <2>3. checking \in Nat /\ dialing \in Nat /\ retries \in Nat
    BY <1>1 DEF IInv, TypeOK
  <2>4. QED BY <2>1, <2>2, <2>3, FS_EmptySet DEF Attempts, Dials
<1>2. QED BY <1>1, Invariant, PTL
-------------------------------------------------------------------------------
(* What the client says, and in which order it opens its channels. *)

\* The listener of c is still to come, or c itself.
Ahead(c)    == c \in resuming \/ Waits(c, "listener") \/ status[c] = "unused"
Unspoken(c) == said[c] = "nothing" /\ channel # c
\* c may be a number that is used again.
Recycled(c) == destroyer # "none" /\ c = MaxChannels

Opening ==
  \A c \in Channels :
    /\ Ahead(c) => Unspoken(c) \/ Recycled(c)
    /\ status[c] = "unused" => future # c /\ ~Waits(c, "close")
    /\ status[c] # "unused" => \A b \in 1 .. c - 1 : status[b] # "unused"
    /\ destroyer = "none" => ~Waits(c, "close") /\ said[c] # "unregister"

\* Without a fault the first connection lasts until destroy closes it.
Undisturbed ==
  faults = 0 =>
    \A c \in Channels :
      /\ status[c] # "unused" => discoverUp
      /\ destroyer = "none" => status[c] # "closed"
      /\ said[c] = "unregister" => c = 1

\* A step that says nothing, opens nothing and hands out no listener or close.
Silent ==
  /\ \A c \in Channels : /\ Ahead(c)' => Ahead(c)
                         /\ status'[c] = "unused" <=> status[c] = "unused"
                         /\ status[c] = "unused" =>
                              /\ future' = c => future = c
                              /\ Waits(c, "close")' => Waits(c, "close") \/ future = c
  /\ UNCHANGED <<channel, said>>
  /\ destroyer' = "none" =>
       destroyer = "none" /\ \A c \in Channels : Waits(c, "close")' => Waits(c, "close")

LEMMA SilentStep ==
  ASSUME Opening, Silent
  PROVE  Opening'
<1>1. \A c \in Channels : \A b \in 1 .. c - 1 : b \in Channels
  BY LifecycleAssumption DEF Channels
<1>2. ASSUME NEW c \in Channels
      PROVE  /\ Ahead(c)' => Unspoken(c)' \/ Recycled(c)'
             /\ status'[c] = "unused" => future' # c /\ ~Waits(c, "close")'
             /\ destroyer' = "none" => ~Waits(c, "close")' /\ said'[c] # "unregister"
  <2>1. Ahead(c)' => Unspoken(c)' \/ Recycled(c)'
    BY DEF Opening, Silent, Unspoken, Recycled
  <2>2. status'[c] = "unused" => future' # c /\ ~Waits(c, "close")'
    BY DEF Opening, Silent
  <2>3. destroyer' = "none" => ~Waits(c, "close")' /\ said'[c] # "unregister"
    BY DEF Opening, Silent
  <2>4. QED BY <2>1, <2>2, <2>3
<1>3. ASSUME NEW c \in Channels, status'[c] # "unused", NEW b \in 1 .. c - 1
      PROVE  status'[b] # "unused"
  BY <1>1, <1>3 DEF Opening, Silent
<1>4. QED BY <1>2, <1>3 DEF Opening

LEMMA UndisturbedStep ==
  ASSUME Undisturbed, Silent, faults' = 0 => /\ faults = 0 /\ (discoverUp => discoverUp')
                                             /\ destroyer' = "none" =>
                                                  \A c \in Channels : status'[c] = status[c]
  PROVE  Undisturbed'
  BY DEF Undisturbed, Silent

LEMMA WordsInit == Init => Opening /\ Undisturbed
<1> SUFFICES ASSUME Init PROVE Opening /\ Undisturbed
  OBVIOUS
<1>1. \A c \in Channels : c # None /\ ~Waits(c, "close")
  BY NothingQueued, LifecycleAssumption DEF Init, Waits
<1>2. Opening
  BY <1>1 DEF Init, Opening, Unspoken
<1>3. Undisturbed
  BY DEF Init, Undisturbed
<1>4. QED BY <1>2, <1>3

LEMMA SilentSteps ==
  ASSUME IInv, \/ Check \/ DialFails \/ Retry \/ DestroyStep \/ Terminate
               \/ DiscoverStops \/ DiscoverStarts \/ UNCHANGED vars
  PROVE  /\ Silent /\ UNCHANGED status
         /\ faults' = 0 => faults = 0 /\ (discoverUp => discoverUp')
<1>1. TypeOK
  BY DEF IInv
<1>2. CASE Close
  <2>1. \A c \in Channels : /\ Waits(c, "listener")' => Waits(c, "listener")
                            /\ Waits(c, "close")' => Waits(c, "close") \/ future = c
    <3>1. CASE tasks' = tasks
      BY <3>1 DEF Waits
    <3>2. CASE future \in Channels /\ tasks' = [tasks EXCEPT ![future] = Append(tasks[future], "close")]
      <4>1. "close" \in Tasks /\ "listener" # "close" /\ tasks'[future] = Append(tasks[future], "close")
            /\ \A c \in Channels \ {future} : tasks'[c] = tasks[c]
        BY <1>1, <3>2 DEF Tasks, TypeOK
      <4>2. QED BY <1>1, <3>2, <4>1, Queued DEF Waits
    <3>3. QED BY <1>1, <1>2, <3>1, <3>2 DEF Close, Queue, TypeOK
  <2>2. /\ destroyer' # "none" /\ UNCHANGED <<network, status, dials, fields, history>>
    BY <1>2 DEF Close
  <2>3. /\ status' = status /\ resuming' = resuming /\ channel' = channel /\ future' = future
        /\ said' = said /\ discoverUp' = discoverUp /\ faults' = faults
    BY <2>2 DEF network, dials, fields, history
  <2>4. Silent
    BY <2>1, <2>2, <2>3 DEF Silent, Ahead
  <2>5. QED BY <2>3, <2>4
<1>3. CASE DiscoverStops
  <2>1. faults' # 0
    BY <1>1, <1>3 DEF DiscoverStops, Fault, TypeOK
  <2>2. QED BY <1>3, <2>1 DEF DiscoverStops, Silent, Ahead, Waits, loops, dials, fields, history
<1>4. CASE Check \/ DialFails \/ Retry \/ UNCHANGED vars
  BY <1>4 DEF Check, DialFails, Retry, vars, Silent, Ahead, Waits, network, loops, dials, fields, history
<1>5. CASE ShutdownGracefully \/ DestroyRemoveType \/ DestroyRemoveChannel \/ Terminate \/ DiscoverStarts
  BY <1>5 DEF ShutdownGracefully, DestroyRemoveType, DestroyRemoveChannel, Terminate, DiscoverStarts,
     Silent, Ahead, Waits, network, loops, dials, fields, history
<1>6. QED BY <1>2, <1>3, <1>4, <1>5 DEF DestroyStep

LEMMA LoopSilent ==
  ASSUME IInv, Opening, NEW c \in Channels,
         \/ AddType(c) \/ AddChannel(c) \/ RemoveType(c) \/ Inactive(c)
         \/ CloseTask(c) \/ Break(c) \/ BreakDown(c) \/ CloseAll(c) \/ Resume(c)
  PROVE  Silent
<1>1. TypeOK /\ LoopInv(c) /\ {"listener", "close", "inactive"} = Tasks
  BY DEF IInv, Core, Tasks
<1>2. CASE AddType(c) \/ AddChannel(c) \/ RemoveType(c)
  BY <1>2 DEF AddType, AddChannel, RemoveType, Silent, Ahead, Waits, network, dials, fields, history
<1>3. CASE Inactive(c)
  <2>1. /\ tasks' = [tasks EXCEPT ![c] = Tail(tasks[c])] /\ Runs(c, "inactive")
        /\ UNCHANGED <<status, resuming, fields, said, destroyer>>
    BY <1>3 DEF Inactive, Done, dials, fields, history
  <2>2. /\ \A t : t # "inactive" => (Waits(c, t)' <=> Waits(c, t))
        /\ \A d \in Channels \ {c} : tasks'[d] = tasks[d]
    BY <1>1, <2>1, Taken DEF TypeOK
  <2>3. QED BY <2>1, <2>2 DEF Silent, Ahead, Waits, fields
<1>4. CASE CloseTask(c)
  <2>1. /\ status' = [status EXCEPT ![c] = "closed"] /\ Runs(c, "close")
        /\ tasks' = [tasks EXCEPT ![c] = Append(Tail(tasks[c]), "inactive")]
             \/ tasks' = [tasks EXCEPT ![c] = Tail(tasks[c])]
        /\ UNCHANGED <<resuming, fields, said, destroyer>>
    BY <1>4 DEF CloseTask, dials, fields
  <2>2. Contains(tasks[c], "close") /\ tasks[c] \in Seq(Tasks) /\ Tail(tasks[c]) \in Seq(Tasks)
        /\ \A t : t # "close" => (Contains(Tail(tasks[c]), t) <=> Contains(tasks[c], t))
    BY <1>1, <2>1, ContainsTail DEF TypeOK, Runs
  <2>3. \A t : Contains(Append(Tail(tasks[c]), "inactive"), t) <=> Contains(Tail(tasks[c]), t) \/ t = "inactive"
    BY <1>1, <2>2, ContainsAppend
  <2>4. tasks'[c] = Append(Tail(tasks[c]), "inactive") \/ tasks'[c] = Tail(tasks[c])
    BY <1>1, <2>1 DEF TypeOK
  <2>5. /\ \A t : t \in {"listener", "close"} => (Waits(c, t)' => Waits(c, t))
        /\ \A d \in Channels \ {c} : tasks'[d] = tasks[d] /\ status'[d] = status[d]
        /\ status'[c] = "closed"
    BY <1>1, <2>1, <2>2, <2>3, <2>4 DEF TypeOK, Waits
  <2>6. status[c] # "unused"
    BY <2>2 DEF Opening, Waits
  <2>7. QED BY <2>1, <2>5, <2>6 DEF Silent, Ahead, Waits, fields
<1>5. CASE Break(c) \/ BreakDown(c) \/ CloseAll(c)
  <2>1. /\ status[c] = "open" /\ status' = [status EXCEPT ![c] = "closed"]
        /\ tasks' = [tasks EXCEPT ![c] = Append(tasks[c], "inactive")]
        /\ UNCHANGED <<resuming, fields, said, destroyer>>
    BY <1>5 DEF Break, BreakDown, CloseAll, Lose, Queue, Open, dials, fields
  <2>2. tasks'[c] = Append(tasks[c], "inactive") /\ status'[c] = "closed"
        /\ \A d \in Channels \ {c} : tasks'[d] = tasks[d] /\ status'[d] = status[d]
    BY <1>1, <2>1 DEF TypeOK
  <2>3. \A t : t # "inactive" => (Waits(c, t)' <=> Waits(c, t))
    BY <1>1, <2>2, Queued
  <2>4. QED BY <2>1, <2>2, <2>3 DEF Silent, Ahead, Waits, fields
<1>6. CASE Resume(c)
  <2>1. /\ c \in resuming /\ resuming' = resuming \ {c}
        /\ tasks' = tasks \/ tasks' = [tasks EXCEPT ![c] = Append(tasks[c], "listener")]
        /\ future' = c /\ UNCHANGED <<status, channel, said, destroyer>>
    BY <1>6 DEF Resume, Queue, history
  <2>2. \A d \in Channels \ {c} : tasks'[d] = tasks[d]
    BY <1>1, <2>1 DEF TypeOK
  <2>3. Waits(c, "close")' => Waits(c, "close")
    <3>1. CASE tasks'[c] = Append(tasks[c], "listener")
      BY <1>1, <3>1, Queued
    <3>2. CASE tasks' = tasks
      BY <3>2 DEF Waits
    <3>3. QED BY <1>1, <2>1, <3>1, <3>2 DEF TypeOK
  <2>4. status[c] # "unused"
    BY <1>1, <2>1 DEF LoopInv, Held, Pending, Fresh
  <2>5. QED BY <2>1, <2>2, <2>3, <2>4 DEF Silent, Ahead, Waits, fields
<1>7. QED BY <1>2, <1>3, <1>4, <1>5, <1>6

LEMMA LoopUndisturbed ==
  ASSUME IInv, Opening, Undisturbed, NEW c \in Channels,
         \/ AddType(c) \/ AddChannel(c) \/ RemoveType(c) \/ Inactive(c)
         \/ CloseTask(c) \/ Break(c) \/ BreakDown(c) \/ CloseAll(c) \/ Resume(c)
  PROVE  faults' = 0 => /\ faults = 0 /\ (discoverUp => discoverUp')
                        /\ destroyer' = "none" => \A d \in Channels : status'[d] = status[d]
<1>1. CASE AddType(c) \/ AddChannel(c) \/ RemoveType(c) \/ Inactive(c) \/ Resume(c)
  BY <1>1 DEF AddType, AddChannel, RemoveType, Inactive, Resume, network
<1>2. CASE CloseTask(c)
  <2>1. Waits(c, "close")
    BY <1>2, Taken DEF CloseTask, Runs, Waits, IInv, TypeOK, Contains
  <2>2. destroyer' # "none" /\ UNCHANGED network
    BY <1>2, <2>1 DEF CloseTask, Opening
  <2>3. QED BY <2>2 DEF network
<1>3. CASE Break(c)
  BY <1>3 DEF Break, Fault, IInv, TypeOK
<1>4. CASE BreakDown(c)
  BY <1>4 DEF BreakDown, Lose, Open, Undisturbed, network
<1>5. CASE CloseAll(c)
  <2>1. destroyer' # "none"
    BY <1>5 DEF CloseAll, Lose, IInv, Running
  <2>2. QED BY <1>5, <2>1 DEF CloseAll, network
<1>6. QED BY <1>1, <1>2, <1>3, <1>4, <1>5

LEMMA DialSucceedsWords == IInv /\ Opening /\ Undisturbed /\ DialSucceeds => Opening' /\ Undisturbed'
<1> SUFFICES ASSUME IInv, Opening, Undisturbed, DialSucceeds PROVE Opening' /\ Undisturbed'
  OBVIOUS
<1>1. PICK c \in Channels :
        /\ New(c)
        /\ status' = [status EXCEPT ![c] = "open"]
        /\ resuming' = resuming \cup {c}
  BY DEF DialSucceeds
<1>2. /\ discoverUp
      /\ UNCHANGED <<discoverUp, faults, tasks, channel, future, said, destroyer>>
  BY DEF DialSucceeds, network, fields, history
<1>3. status'[c] = "open" /\ \A d \in Channels \ {c} : status'[d] = status[d]
  BY <1>1 DEF IInv, TypeOK
<1>4. \A d \in Channels : \A b \in 1 .. d - 1 : b \in Channels
  BY LifecycleAssumption DEF Channels
<1>5. Opening'
  <2>1. ASSUME NEW d \in Channels
        PROVE  /\ Ahead(d)' => Unspoken(d)' \/ Recycled(d)'
               /\ status'[d] = "unused" => future' # d /\ ~Waits(d, "close")'
               /\ destroyer' = "none" => ~Waits(d, "close")' /\ said'[d] # "unregister"
    <3>1. status[c] = "unused" \/ Recycled(c)
      BY <1>1 DEF New, IInv, Running, Recycled
    <3>2. Ahead(d)' => Ahead(d) \/ Recycled(d)
      BY <1>1, <1>2, <1>3, <3>1 DEF Ahead, Recycled, Waits
    <3>3. Ahead(d)' => Unspoken(d)' \/ Recycled(d)'
      BY <1>2, <3>2 DEF Opening, Unspoken, Recycled
    <3>4. status'[d] = "unused" => status[d] = "unused"
      BY <1>3
    <3>5. QED BY <1>2, <3>3, <3>4 DEF Opening, Waits
  <2>2. ASSUME NEW d \in Channels, status'[d] # "unused", NEW b \in 1 .. d - 1
        PROVE  status'[b] # "unused"
    <3>1. \A a \in 1 .. c - 1 : status[a] # "unused"
      BY <1>1 DEF New, Opening
    <3>2. QED BY <1>3, <1>4, <2>2, <3>1 DEF Opening
  <2>3. QED BY <2>1, <2>2 DEF Opening
<1>6. Undisturbed'
  BY <1>2, <1>3 DEF Undisturbed
<1>7. QED BY <1>5, <1>6

LEMMA ListenerWords ==
  ASSUME IInv, Opening, Undisturbed, NEW c \in Channels, Listener(c)
  PROVE  /\ Opening' /\ Undisturbed'
         /\ Waits(c, "listener") /\ ~Ahead(c)' /\ \A d \in Channels \ {c} : Ahead(d)' => Ahead(d)
         /\ said[c] = "nothing" \/ Recycled(c)
<1>1. /\ tasks' = [tasks EXCEPT ![c] = Tail(tasks[c])] /\ Runs(c, "listener") /\ channel' = c
      /\ UNCHANGED <<status, resuming, future, destroyer, faults, discoverUp>>
      /\ said' = said \/ said' = [said EXCEPT ![c] = "register"]
  BY DEF Listener, Done, Write, network, dials
<1>2. TypeOK /\ LoopInv(c) /\ "listener" \in Tasks
  BY DEF IInv, Core, Tasks
<1>3. /\ Waits(c, "listener") /\ ~Waits(c, "listener")'
      /\ Waits(c, "close")' <=> Waits(c, "close")
      /\ \A d \in Channels \ {c} : tasks'[d] = tasks[d]
  <2>1. tasks'[c] = Tail(tasks[c]) /\ \A d \in Channels \ {c} : tasks'[d] = tasks[d]
    BY <1>1, <1>2 DEF TypeOK
  <2>2. QED BY <1>1, <1>2, <2>1, Taken DEF LoopInv
<1>4. (said[c] = "nothing" \/ Recycled(c)) /\ c \notin resuming /\ status[c] # "unused"
  BY <1>2, <1>3 DEF Opening, Ahead, Unspoken, LoopInv, Held, Pending, Fresh
<1>5. ~Ahead(c)'
  BY <1>1, <1>3, <1>4 DEF Ahead
<1>6. \A d \in Channels \ {c} : said'[d] = said[d] /\ (Ahead(d)' <=> Ahead(d)) /\ (Waits(d, "close")' <=> Waits(d, "close"))
  BY <1>1, <1>2, <1>3 DEF TypeOK, Ahead, Waits
<1>7. /\ destroyer' = "none" => said'[c] # "unregister"
      /\ said'[c] = "unregister" => said[c] = "unregister"
  BY <1>1, <1>2, <1>4 DEF TypeOK, Recycled
<1>8. Opening'
  <2>1. ASSUME NEW d \in Channels
        PROVE  /\ Ahead(d)' => Unspoken(d)' \/ Recycled(d)'
               /\ status'[d] = "unused" => future' # d /\ ~Waits(d, "close")'
               /\ destroyer' = "none" => ~Waits(d, "close")' /\ said'[d] # "unregister"
    BY <1>1, <1>3, <1>5, <1>6, <1>7 DEF Opening, Unspoken, Recycled
  <2>2. QED BY <1>1, <2>1 DEF Opening
<1>9. Undisturbed'
  BY <1>1, <1>6, <1>7 DEF Undisturbed
<1>10. QED BY <1>3, <1>4, <1>5, <1>6, <1>8, <1>9

\* destroy says unregister on a channel that has said register.
LEMMA DestroyWords ==
  ASSUME IInv, Opening, Undisturbed, Destroy
  PROVE  /\ Opening' /\ Undisturbed'
         /\ \A c \in Channels : Ahead(c)' <=> Ahead(c)
         /\ faults = 0 /\ Open(channel) =>
              channel \in Channels /\ said[channel] = "register" /\ ~Ahead(channel)
<1>1. /\ destroyer = "none" /\ destroyer' = "close"
      /\ said' = IF Open(channel) THEN [said EXCEPT ![channel] = "unregister"] ELSE said
      /\ UNCHANGED <<status, tasks, resuming, channel, future, faults, discoverUp>>
  BY DEF Destroy, Write, network, loops, dials, fields
<1>2. TypeOK /\ Running
  BY <1>1 DEF IInv
<1>3. \A d \in Channels : /\ Ahead(d)' <=> Ahead(d)
                          /\ Waits(d, "close")' <=> Waits(d, "close")
                          /\ Ahead(d) => said'[d] = said[d]
  BY <1>1, <1>2 DEF Ahead, Waits, TypeOK, Opening, Unspoken, Recycled
<1>4. Opening'
  <2>1. ASSUME NEW d \in Channels
        PROVE  /\ Ahead(d)' => Unspoken(d)' \/ Recycled(d)'
               /\ status'[d] = "unused" => future' # d /\ ~Waits(d, "close")'
    BY <1>1, <1>3 DEF Opening, Unspoken, Recycled
  <2>2. QED BY <1>1, <2>1 DEF Opening
<1>5. Open(channel) => /\ channel \in Channels /\ status[channel] = "open"
                       /\ ~Ahead(channel) /\ channel \notin resuming /\ ~Waits(channel, "listener")
  BY <1>1, <1>2 DEF TypeOK, Open, Opening, Ahead, Unspoken, Recycled
<1>6. Open(channel) => said[channel] = "register"
  <2>1. Open(channel) => RunningInv(channel)
    BY <1>2, <1>5 DEF Running
  <2>2. QED BY <1>5, <2>1 DEF RunningInv, Fresh
<1>7. faults = 0 /\ Open(channel) => channel = 1
  <2> SUFFICES ASSUME faults = 0, Open(channel), channel # 1 PROVE FALSE
    OBVIOUS
  <2>1. channel \in Channels /\ 1 \in 1 .. channel - 1 /\ 1 \in Channels
    BY <1>5, LifecycleAssumption DEF Channels
  <2>2. status[1] # "unused" /\ status[1] # "closed"
    BY <1>1, <1>5, <2>1 DEF Opening, Undisturbed
  <2>3. Open(1) /\ 1 # None
    BY <1>2, <2>1, <2>2, LifecycleAssumption DEF TypeOK, Open
  <2>4. QED BY <2>1, <2>3 DEF IInv, Core, Single, Held
<1>8. Undisturbed'
  BY <1>1, <1>2, <1>5, <1>7 DEF Undisturbed, TypeOK
<1>9. QED BY <1>3, <1>4, <1>5, <1>6, <1>8

LEMMA WordsStep == IInv /\ Opening /\ Undisturbed /\ [Next]_vars => Opening' /\ Undisturbed'
<1> SUFFICES ASSUME IInv, Opening, Undisturbed, [Next]_vars PROVE Opening' /\ Undisturbed'
  OBVIOUS
<1>1. ASSUME \/ Check \/ DialFails \/ Retry \/ DestroyStep \/ Terminate
             \/ DiscoverStops \/ DiscoverStarts \/ UNCHANGED vars
      PROVE  Opening' /\ Undisturbed'
  BY <1>1, SilentSteps, SilentStep, UndisturbedStep
<1>2. ASSUME NEW c \in Channels,
             \/ AddType(c) \/ AddChannel(c) \/ RemoveType(c) \/ Inactive(c)
             \/ CloseTask(c) \/ Break(c) \/ BreakDown(c) \/ CloseAll(c) \/ Resume(c)
      PROVE  Opening' /\ Undisturbed'
  BY <1>2, LoopSilent, LoopUndisturbed, SilentStep, UndisturbedStep
<1>3. QED BY <1>1, <1>2, DialSucceedsWords, ListenerWords, DestroyWords
          DEF Next, DoConnectStep, LoopStep, BreakStep

LEMMA Words == Spec => [](Opening /\ Undisturbed)
  BY WordsInit, WordsStep, Invariant, PTL DEF Spec

-------------------------------------------------------------------------------
(* Server and discover together. *)

\* Each step of the two together is a step of the client or leaves it alone.
LEMMA ClientTakes == RNext => [Next]_vars
  BY DEF RNext, ClientStep, BreakInTransit, DiscoverEnds, DiscoverStep, BreakStep, Next

\* What is proved of the client alone holds of the client beside discover, however
\* discover stops, starts and falls behind.
THEOREM ImplementsClient == RSpec => Spec
<1>1. [RNext]_rvars => [Next]_vars
  BY ClientTakes DEF rvars
<1>2. RInit => Init
  BY DEF RInit
<1>3. QED BY <1>1, <1>2, PTL DEF RSpec, Spec
-------------------------------------------------------------------------------
Register == D!Request("register", Server)
Free     == D!Idle
Putting  == D!At("put", Server)

\* Before destroy discover has nothing to remove.
Registers(c) == /\ said[c] # "unregister"
                /\ inbox[Conn(c)] \in Seq({Register})
                /\ handler[Conn(c)] \in {Free, Putting}

\* A register that was written on an open channel is not lost.
Underway(c) == inbox[Conn(c)] # <<>> \/ handler[Conn(c)] = Putting \/ serverMap[Server] # 0
OnItsWay(c) == discoverUp /\ Open(c) /\ said[c] = "register" => Underway(c)

Tables == /\ DOMAIN inbox = D!Conns /\ DOMAIN handler = D!Conns /\ DOMAIN serverMap = {Server}
          /\ \A c \in Channels : status[c] = "unused" => said[c] = "nothing"

RInv == /\ Tables
        /\ destroyer = "none" => \A c \in Channels : Registers(c) /\ OnItsWay(c)

LEMMA Connections == D!Conns = {Server} \X Channels
  BY DEF D!Conns, Channels

LEMMA ConnOf ==
  /\ \A c \in Channels : Conn(c) \in D!Conns /\ Conn(c)[2] = c
  /\ \A c, d \in Channels : Conn(c) = Conn(d) => c = d
  /\ \A k \in D!Conns : \E c \in Channels : k = Conn(c)
  BY Connections DEF Conn

LEMMA Apart == /\ Free # Putting /\ Free.pc = "idle" /\ Putting.pc = "put"
               /\ Register.method = "register" /\ Register.target = Server
  BY DEF Free, Putting, D!Idle, D!At, Register, D!Request

LEMMA TogetherInit == RInit => RInv
<1> SUFFICES ASSUME RInit PROVE RInv
  OBVIOUS
<1>1. Tables
  BY DEF Tables, RInit, Init, DInit, NoSession
<1>2. \A c \in Channels : Registers(c) /\ OnItsWay(c)
  BY ConnOf DEF Registers, OnItsWay, RInit, Init, DInit, NoSession, Free, Open
<1>3. QED BY <1>1, <1>2 DEF RInv
-------------------------------------------------------------------------------
(* What the client does to what discover reads. *)

\* Before destroy a client writes nothing but register, on a channel that is open, and
\* a channel that it opens has nothing on it.
LEMMA ClientEffect ==
  ASSUME IInv, DoConnectStep \/ Destroy \/ DestroyStep \/ Terminate
                 \/ (\E c \in Channels : LoopStep(c) \/ CloseAll(c) \/ BreakDown(c) \/ Break(c))
  PROVE  /\ discoverUp' = discoverUp
         /\ destroyer' = "none" =>
              /\ destroyer = "none"
              /\ \A c \in Channels : said'[c] = said[c] \/ (said'[c] = "register" /\ Open(c))
         /\ \A c \in Channels : said'[c] = said[c] \/ Open(c)
         /\ \A c \in Channels :
              /\ status'[c] = "unused" => status[c] = "unused"
              /\ destroyer' = "none" /\ Open(c)' => Open(c) \/ status[c] = "unused"
              /\ Again(c) => Open(c)
<1>0. TypeOK
  BY DEF IInv
<1>1. CASE DoConnectStep
  <2>1. CASE DialSucceeds
    <3>1. PICK c \in Channels : New(c) /\ status' = [status EXCEPT ![c] = "open"]
      BY <2>1 DEF DialSucceeds
    <3>2. destroyer = "none" => status[c] = "unused"
      BY <3>1 DEF New, IInv, Running
    <3>3. UNCHANGED <<discoverUp, destroyer, said>>
      BY <2>1 DEF DialSucceeds, network, history
    <3>4. QED BY <1>0, <3>1, <3>2, <3>3 DEF TypeOK, Open, Again
  <2>2. CASE Check \/ DialFails \/ Retry \/ \E c \in Channels : Resume(c)
    BY <2>2 DEF Check, DialFails, Retry, Resume, Open, Again, network, loops, history
  <2>3. QED BY <1>1, <2>1, <2>2 DEF DoConnectStep
<1>2. CASE Destroy
  BY <1>0, <1>2 DEF Destroy, Write, TypeOK, Open, Again, network, loops
<1>3. CASE DestroyStep \/ Terminate
  BY <1>3 DEF Again, DestroyStep, Close, ShutdownGracefully, DestroyRemoveType, DestroyRemoveChannel,
     Terminate, TypeOK, Open, network, loops, history
<1>4. ASSUME NEW c \in Channels, LoopStep(c) \/ CloseAll(c) \/ BreakDown(c) \/ Break(c)
      PROVE  /\ discoverUp' = discoverUp /\ destroyer' = destroyer
             /\ said' = said \/ (said' = [said EXCEPT ![c] = "register"] /\ Open(c))
             /\ status' = status \/ status' = [status EXCEPT ![c] = "closed"]
  <2>1. CASE Listener(c)
    BY <2>1 DEF Listener, Write, network
  <2>2. CASE AddType(c) \/ AddChannel(c) \/ Inactive(c) \/ RemoveType(c) \/ CloseTask(c)
    BY <2>2 DEF AddType, AddChannel, Inactive, RemoveType, CloseTask, network, history
  <2>3. CASE CloseAll(c) \/ BreakDown(c) \/ Break(c)
    BY <2>3 DEF CloseAll, BreakDown, Break, Lose, network
  <2>4. QED BY <1>4, <2>1, <2>2, <2>3 DEF LoopStep
<1>5. ASSUME NEW c \in Channels, LoopStep(c) \/ CloseAll(c) \/ BreakDown(c) \/ Break(c)
      PROVE  /\ \A d \in Channels : said'[d] = said[d] \/ (said'[d] = "register" /\ Open(d))
             /\ \A d \in Channels : /\ status'[d] = "unused" => status[d] = "unused"
                                    /\ Open(d)' => Open(d)
  BY <1>0, <1>4, <1>5 DEF TypeOK, Open
<1>6. QED BY <1>1, <1>2, <1>3, <1>4, <1>5 DEF Again

LEMMA ClientStepKeeps == IInv /\ RInv /\ ClientStep => RInv'
<1> SUFFICES ASSUME IInv, RInv, ClientStep PROVE RInv'
  OBVIOUS
<1>1. /\ inbox' = [k \in D!Conns |-> inbox[k] \o Written(k[2])]
      /\ UNCHANGED <<created, serverMap, handler, outcome, steady>>
  BY DEF ClientStep, Writes, Rest
<1>2. /\ discoverUp' = discoverUp
      /\ destroyer' = "none" =>
           /\ destroyer = "none"
           /\ \A c \in Channels : said'[c] = said[c] \/ (said'[c] = "register" /\ Open(c))
      /\ \A c \in Channels : said'[c] = said[c] \/ Open(c)
      /\ \A c \in Channels :
           /\ status'[c] = "unused" => status[c] = "unused"
           /\ destroyer' = "none" /\ Open(c)' => Open(c) \/ status[c] = "unused"
  BY ClientEffect DEF ClientStep
<1>3. Tables'
  BY <1>1, <1>2 DEF RInv, Tables, Open
<1>4. ASSUME destroyer' = "none", NEW c \in Channels PROVE Registers(c)' /\ OnItsWay(c)'
  <2>1. Registers(c) /\ OnItsWay(c) /\ (said'[c] = said[c] \/ (said'[c] = "register" /\ Open(c)))
    BY <1>2, <1>4 DEF RInv
  <2>2. inbox'[Conn(c)] = inbox[Conn(c)] \o Written(c)
    BY <1>1, ConnOf
  <2>3. Written(c) = IF discoverUp /\ (said'[c] # said[c] \/ Again(c)) THEN <<Register>> ELSE <<>>
    BY <2>1 DEF Written, Again, Register
  <2>4. inbox'[Conn(c)] \in Seq({Register})
        /\ (inbox[Conn(c)] # <<>> \/ Written(c) # <<>> => inbox'[Conn(c)] # <<>>)
    <3> DEFINE read == inbox[Conn(c)]
    <3>1. read \in Seq({Register}) /\ Written(c) \in Seq({Register})
      <4>1. <<Register>> \in Seq({Register}) /\ <<>> \in Seq({Register})
        OBVIOUS
      <4>2. QED BY <2>1, <2>3, <4>1 DEF Registers
    <3> HIDE DEF read
    <3>2. read \o Written(c) \in Seq({Register})
          /\ (read # <<>> \/ Written(c) # <<>> => read \o Written(c) # <<>>)
      BY <3>1
    <3>3. QED BY <2>2, <3>2 DEF read
  <2>5. Registers(c)'
    BY <1>1, <2>1, <2>4 DEF Registers, Conn
  <2>6. ASSUME discoverUp', Open(c)', said'[c] = "register" PROVE Underway(c)'
    <3>1. Open(c)
      BY <1>2, <1>4, <2>1, <2>6 DEF RInv, Tables
    <3>2. CASE said'[c] = said[c]
      BY <1>1, <1>2, <2>1, <2>4, <2>6, <3>1, <3>2 DEF OnItsWay, Underway, Conn
    <3>3. CASE said'[c] # said[c]
      BY <1>2, <2>3, <2>4, <2>6, <3>3 DEF Underway, Conn
    <3>4. QED BY <3>2, <3>3
  <2>7. QED BY <2>5, <2>6 DEF OnItsWay
<1>5. QED BY <1>3, <1>4 DEF RInv

LEMMA BreakKeeps == ASSUME TypeOK, RInv, NEW c \in Channels, BreakInTransit(c) PROVE RInv'
<1>1. PICK n \in 0 .. Len(inbox[Conn(c)]) :
        inbox' = [inbox EXCEPT ![Conn(c)] = SubSeq(inbox[Conn(c)], 1, n)]
  BY DEF BreakInTransit
<1>2. Break(c) /\ UNCHANGED <<created, serverMap, handler, outcome, steady>>
  BY DEF BreakInTransit, Rest
<1>3. /\ discoverUp' = discoverUp /\ UNCHANGED <<said, destroyer>>
      /\ status' = [status EXCEPT ![c] = "closed"]
  BY <1>2 DEF Break, Lose
<1>4. ~Open(c)' /\ \A d \in Channels : /\ status'[d] = "unused" => status[d] = "unused"
                                       /\ Open(d)' => Open(d)
  BY <1>3 DEF TypeOK, Open
<1>5. /\ DOMAIN inbox' = D!Conns
      /\ inbox'[Conn(c)] = SubSeq(inbox[Conn(c)], 1, n)
      /\ \A d \in Channels \ {c} : inbox'[Conn(d)] = inbox[Conn(d)]
  BY <1>1, ConnOf DEF RInv, Tables
<1>6. Tables'
  BY <1>2, <1>3, <1>4, <1>5 DEF RInv, Tables
<1>7. ASSUME destroyer' = "none", NEW d \in Channels PROVE Registers(d)' /\ OnItsWay(d)'
  <2>1. Registers(d) /\ OnItsWay(d) /\ Registers(c)
    BY <1>3, <1>7 DEF RInv
  <2>2. inbox'[Conn(c)] \in Seq({Register})
    <3> DEFINE read == inbox[Conn(c)]
    <3>1. read \in Seq({Register})
      BY <2>1 DEF Registers
    <3> HIDE DEF read
    <3>2. n \in 0 .. Len(read)
      BY DEF read
    <3>3. SubSeq(read, 1, n) \in Seq({Register})
      BY <3>1, <3>2
    <3>4. QED BY <1>5, <3>3 DEF read
  <2>3. Registers(d)'
    BY <1>2, <1>3, <1>5, <2>1, <2>2 DEF Registers, Conn
  <2>4. OnItsWay(d)'
    BY <1>2, <1>3, <1>4, <1>5, <2>1 DEF OnItsWay, Underway, Conn
  <2>5. QED BY <2>3, <2>4
<1>8. QED BY <1>6, <1>7 DEF RInv
-------------------------------------------------------------------------------
(* What discover does. *)

LEMMA DiscoverEndsKeeps == TypeOK /\ RInv /\ DiscoverEnds => RInv'
<1> SUFFICES ASSUME TypeOK, RInv, DiscoverEnds PROVE RInv'
  OBVIOUS
<1>1. /\ discoverUp' = FALSE /\ UNCHANGED <<status, said, destroyer>>
      /\ inbox' = NoSession(<<>>) /\ handler' = NoSession(Free)
      /\ serverMap' = [s \in {Server} |-> 0]
  BY DEF DiscoverEnds, DiscoverStops, loops, history, Free
<1>2. Tables'
  BY <1>1 DEF RInv, Tables, NoSession
<1>3. \A c \in Channels : inbox'[Conn(c)] = <<>> /\ handler'[Conn(c)] = Free
  BY <1>1, ConnOf DEF NoSession
<1>4. ASSUME destroyer' = "none", NEW c \in Channels PROVE Registers(c)' /\ OnItsWay(c)'
  <2>1. said[c] # "unregister"
    BY <1>1, <1>4 DEF RInv, Registers
  <2>2. <<>> \in Seq({Register})
    OBVIOUS
  <2>3. Registers(c)'
    BY <1>1, <1>3, <2>1, <2>2 DEF Registers, Conn
  <2>4. OnItsWay(c)'
    BY <1>1 DEF OnItsWay
  <2>5. QED BY <2>3, <2>4
<1>5. QED BY <1>2, <1>4 DEF RInv

LEMMA DiscoverStartsKeeps == RInv /\ DiscoverStarts /\ UNCHANGED discover => RInv'
<1> SUFFICES ASSUME RInv, DiscoverStarts, UNCHANGED discover PROVE RInv'
  OBVIOUS
<1>1. /\ UNCHANGED <<status, said, destroyer, inbox, handler, serverMap>>
      /\ \A c \in Channels : ~Open(c)'
  BY DEF DiscoverStarts, loops, history, discover, Open
<1>2. QED BY <1>1 DEF RInv, Tables, Registers, OnItsWay, Conn

LEMMA HandleKeeps == RInv /\ DiscoverStep => RInv'
<1> SUFFICES ASSUME RInv, DiscoverStep PROVE RInv'
  OBVIOUS
<1>1. UNCHANGED <<discoverUp, status, said, destroyer>>
  BY DEF DiscoverStep, vars, network, loops, history
<1>2. PICK c \in Channels : D!Handle(Conn(c))
  BY ConnOf DEF DiscoverStep
<1>3. /\ DOMAIN inbox' = D!Conns /\ DOMAIN handler' = D!Conns /\ DOMAIN serverMap' = {Server}
      /\ \A d \in Channels \ {c} : /\ inbox'[Conn(d)] = inbox[Conn(d)]
                                   /\ handler'[Conn(d)] = handler[Conn(d)]
  BY <1>2, ConnOf
     DEF RInv, Tables, D!Handle, D!Register, D!PutServer, D!Unregister, D!RemoveServer,
         D!GetServiceInfo, D!GetServer, D!FirstServer, D!Reads, D!Goto, D!Ends, D!registry
<1>4. Tables'
  BY <1>1, <1>3 DEF RInv, Tables
<1>5. ASSUME destroyer' = "none"
      PROVE  /\ Registers(c)' /\ Underway(c)'
             /\ \A d \in Channels : Underway(d) => Underway(d)'
  <2>1. Registers(c) /\ (inbox[Conn(c)] # <<>> => Head(inbox[Conn(c)]) = Register)
    <3>1. Registers(c)
      BY <1>1, <1>5 DEF RInv
    <3>2. QED BY <3>1 DEF Registers
  <2>2. D!Register(Conn(c)) \/ D!PutServer(Conn(c))
    BY <1>2, <2>1, Apart
       DEF Registers, D!Handle, D!Unregister, D!RemoveServer, D!GetServiceInfo, D!GetServer,
           D!FirstServer, D!Reads
  <2>3. CASE D!Register(Conn(c))
    <3>1. /\ inbox' = [inbox EXCEPT ![Conn(c)] = Tail(inbox[Conn(c)])] /\ inbox[Conn(c)] # <<>>
          /\ handler' = [handler EXCEPT ![Conn(c)] = Putting]
          /\ serverMap' = serverMap
      BY <2>1, <2>3, Apart DEF D!Register, D!Reads, D!Goto, Putting
    <3>2. inbox'[Conn(c)] = Tail(inbox[Conn(c)]) /\ handler'[Conn(c)] = Putting
      BY <3>1, ConnOf DEF RInv, Tables
    <3>3. Tail(inbox[Conn(c)]) \in Seq({Register})
      BY <2>1, <3>1 DEF Registers
    <3>4. Registers(c)' /\ Underway(c)'
      BY <1>1, <2>1, <3>2, <3>3 DEF Registers, Underway, Conn
    <3>5. QED BY <1>3, <3>1, <3>4 DEF Underway, Conn
  <2>4. CASE D!PutServer(Conn(c))
    <3>1. /\ handler[Conn(c)] = Putting /\ inbox' = inbox
          /\ handler' = [handler EXCEPT ![Conn(c)] = Free]
      BY <2>1, <2>4, Apart DEF D!PutServer, D!Goto, Free, Registers
    <3>2. serverMap' = [serverMap EXCEPT ![Server] = c]
      <4>1. Putting.target = Server /\ Conn(c)[2] = c
        BY ConnOf DEF Putting, D!At
      <4>2. serverMap' = [serverMap EXCEPT ![handler[Conn(c)].target] = Conn(c)[2]]
        BY <2>4 DEF D!PutServer
      <4>3. QED BY <3>1, <4>1, <4>2
    <3>3. serverMap'[Server] # 0 /\ handler'[Conn(c)] = Free
      BY <3>1, <3>2, ConnOf DEF RInv, Tables, Channels
    <3>4. QED BY <1>1, <2>1, <3>1, <3>3 DEF Registers, Underway, Conn
  <2>5. QED BY <2>2, <2>3, <2>4
<1>6. ASSUME destroyer' = "none", NEW d \in Channels PROVE Registers(d)' /\ OnItsWay(d)'
  <2>1. Registers(d) /\ OnItsWay(d) /\ (Open(d)' <=> Open(d))
    BY <1>1, <1>6 DEF RInv, Open
  <2>2. Registers(d)'
    BY <1>1, <1>3, <1>5, <1>6, <2>1 DEF Registers, Conn
  <2>3. OnItsWay(d)'
    BY <1>1, <1>5, <1>6, <2>1 DEF OnItsWay
  <2>4. QED BY <2>2, <2>3
<1>7. QED BY <1>4, <1>6 DEF RInv

LEMMA Together == IInv /\ RInv /\ [RNext]_rvars => RInv'
<1>0. IInv => TypeOK
  BY DEF IInv
<1>1. RInv /\ UNCHANGED rvars => RInv'
  BY DEF rvars, vars, discover, network, loops, history, RInv, Tables, Registers, OnItsWay,
     Underway, Open, Conn
<1>2. QED BY <1>0, <1>1, ClientStepKeeps, BreakKeeps, DiscoverEndsKeeps, DiscoverStartsKeeps,
            HandleKeeps DEF RNext
-------------------------------------------------------------------------------
\* When both ends have handled all there was, a server that is connected and not
\* being destroyed is in the registry, after any reconnections and restarts.
THEOREM LinkedRegistered == RSpec => []LinkedIsRegistered
<1>1. IInv /\ RInv => LinkedIsRegistered
  <2> SUFFICES ASSUME IInv, RInv, Settled, discoverUp, destroyer = "none", NEW c \in Linked
               PROVE  serverMap[Server] # 0
    BY DEF LinkedIsRegistered
  <2>1. c \in Channels /\ Open(c) /\ c \notin resuming /\ tasks[c] = <<>> /\ loop[c] = "idle"
    BY DEF Linked, Settled
  <2>2. ~Fresh(c)
    BY <2>1, NothingQueued DEF Fresh, Waits, Adding
  <2>3. said[c] = "register"
    BY <2>1, <2>2 DEF IInv, Running, RunningInv
  <2>4. inbox[Conn(c)] = <<>> /\ handler[Conn(c)] = Free
    BY <2>1, ConnOf DEF Settled, D!AllHandled, Conn, Free
  <2>5. QED BY <2>1, <2>3, <2>4, Apart DEF RInv, OnItsWay, Underway
<1>2. RSpec => []IInv
  BY ImplementsClient, Invariant, PTL
<1>3. RSpec => []RInv
  BY <1>2, TogetherInit, Together, PTL DEF RSpec
<1>4. QED BY <1>1, <1>2, <1>3, PTL
-------------------------------------------------------------------------------
(* The last word, when no connection is lost. *)

Unregister == D!Request("unregister", Server)
Removing   == D!At("remove", Server)

\* Discover has the type of every server that it has or is about to put.
Mapped == /\ serverMap[Server] # 0 => Server[1] \in created
          /\ \A c \in Channels : handler[Conn(c)] = Putting => Server[1] \in created

Others(c) == \E d \in Channels \ {c} : said[d] # "nothing"
At(c, read, place) == inbox[Conn(c)] = read /\ handler[Conn(c)] = place

\* Where discover is with what was said on channel c.
FollowsRegister(c) ==
  At(c, <<Register>>, Free) \/ At(c, <<>>, Putting) \/ At(c, <<>>, Free)
FollowsUnregister(c) ==
  \/ At(c, <<Register, Unregister>>, Free)
  \/ At(c, <<Unregister>>, Putting) \/ At(c, <<Unregister>>, Free)
  \/ At(c, <<>>, Removing)
  \/ At(c, <<>>, Free) /\ (serverMap[Server] = 0 \/ Others(c))
Follows(c) == \/ said[c] = "nothing" /\ At(c, <<>>, Free)
              \/ said[c] = "register" /\ FollowsRegister(c)
              \/ said[c] = "unregister" /\ FollowsUnregister(c)

\* Before its listener has run a connection has nothing for discover.
Untold(c) == Ahead(c) => At(c, <<>>, Free)

FInv == faults = 0 => Mapped /\ \A c \in Channels : Follows(c) /\ Untold(c)

LEMMA AllApart == /\ Unregister.method = "unregister" /\ Unregister.target = Server
                  /\ Removing.pc = "remove" /\ Removing.target = Server /\ Putting.target = Server
  BY DEF Unregister, Removing, Putting, D!At, D!Request

LEMMA Joined == ASSUME NEW a, NEW b PROVE <<a>> \o <<b>> = <<a, b>>
<1> DEFINE s == <<a>> \o <<b>>
<1>1. s \in Seq({a, b}) /\ Len(s) = 2 /\ s[1] = a /\ s[2] = b
  OBVIOUS
<1> HIDE DEF s
<1>2. s = <<a, b>>
  BY <1>1
<1>3. QED BY <1>2 DEF s

LEMMA FollowInit == RInit => FInv
<1> SUFFICES ASSUME RInit PROVE FInv
  OBVIOUS
<1>1. Mapped
  BY ConnOf, Apart DEF Mapped, RInit, Init, DInit, NoSession, Free
<1>2. \A c \in Channels : Follows(c) /\ Untold(c)
  BY ConnOf DEF Follows, Untold, At, RInit, Init, DInit, NoSession, Free
<1>3. QED BY <1>1, <1>2 DEF FInv

\* A number is used again.
Reopens(c) == status[c] = "closed" /\ status'[c] = "open"

\* Without a fault the client says register once on each connection that it opens, and
\* unregister on one of them.
Mute(c)   == said'[c] = said[c] /\ ~Again(c) /\ (Ahead(c)' => Ahead(c) \/ Reopens(c))
Speaks(c) == /\ Open(c) /\ discoverUp /\ ~Ahead(c)'
             /\ \/ Ahead(c) /\ said'[c] = "register" /\ (said[c] = "nothing" \/ Again(c))
                \/ said[c] = "register" /\ said'[c] = "unregister"

LEMMA MuteOrSpeaks ==
  ASSUME IInv, Opening, Undisturbed, ClientStep, faults' = 0
  PROVE  faults = 0 /\ \A c \in Channels : Mute(c) \/ Speaks(c)
<1>0. TypeOK
  BY DEF IInv
<1>1. faults = 0
  BY <1>0, LoopUndisturbed, SilentSteps, DestroyWords
     DEF ClientStep, DoConnectStep, LoopStep, Listener, DialSucceeds, Destroy, network
<1>2. \A c \in Channels : Open(c) => discoverUp
  BY <1>1 DEF Undisturbed, Open
<1>3. ASSUME NEW c \in Channels, Listener(c), NEW d \in Channels
      PROVE  Mute(d) \/ Speaks(d)
  <2>1. /\ loop' = loop \/ (loop' = [loop EXCEPT ![c] = "addType"] /\ loop[c] = "idle")
        /\ said' = said \/ (said' = [said EXCEPT ![c] = "register"] /\ Open(c))
        /\ loop' # loop /\ Open(c) => said' = [said EXCEPT ![c] = "register"]
    BY <1>3 DEF Listener, Goto, Write, Runs
  <2>2. /\ Waits(c, "listener") /\ ~Ahead(c)' /\ \A e \in Channels \ {c} : Ahead(e)' => Ahead(e)
        /\ said[c] = "nothing" \/ Recycled(c)
    BY <1>3, ListenerWords
  <2>3. CASE d # c
    BY <1>0, <2>1, <2>2, <2>3 DEF TypeOK, Mute, Again
  <2>4. CASE d = c
    <3>1. said[c] # "unregister"
      BY <1>1, <2>2, LifecycleAssumption DEF Undisturbed, Recycled
    <3>2. said[c] = "nothing" \/ said[c] = "register"
      BY <1>0, <3>1 DEF TypeOK
    <3>3. QED BY <1>0, <1>2, <2>1, <2>2, <2>4, <3>2 DEF TypeOK, Mute, Speaks, Again, Ahead
  <2>5. QED BY <2>3, <2>4
<1>4. ASSUME Destroy, NEW d \in Channels
      PROVE  Mute(d) \/ Speaks(d)
  <2>1. /\ said' = IF Open(channel) THEN [said EXCEPT ![channel] = "unregister"] ELSE said
        /\ loop' = loop
    BY <1>4 DEF Destroy, Write, loops
  <2>2. /\ \A c \in Channels : Ahead(c)' <=> Ahead(c)
        /\ Open(channel) => channel \in Channels /\ said[channel] = "register" /\ ~Ahead(channel)
    BY <1>1, <1>4, DestroyWords
  <2>3. ~Again(d)
    BY <2>1 DEF Again
  <2>4. QED BY <1>0, <1>2, <2>1, <2>2, <2>3 DEF TypeOK, Mute, Speaks
<1>5. ASSUME \/ Check \/ DialFails \/ Retry \/ DestroyStep \/ Terminate
             \/ \E c \in Channels : \/ AddType(c) \/ AddChannel(c) \/ RemoveType(c) \/ Inactive(c)
                                    \/ CloseTask(c) \/ BreakDown(c) \/ CloseAll(c) \/ Resume(c),
             NEW d \in Channels
      PROVE  Mute(d)
  <2>1. Silent
    BY <1>5, SilentSteps, LoopSilent
  <2>2. said' = said /\ (Ahead(d)' => Ahead(d))
    BY <2>1 DEF Silent
  <2>3. ~Again(d)
    BY <1>0, <1>5 DEF Again, TypeOK, Check, DialFails, Retry, DestroyStep, Close, ShutdownGracefully,
       DestroyRemoveType, DestroyRemoveChannel, Terminate, AddType, AddChannel, RemoveType, Inactive,
       CloseTask, BreakDown, CloseAll, Lose, Resume, Goto, loops
  <2>4. QED BY <2>2, <2>3 DEF Mute
<1>6. ASSUME DialSucceeds, NEW d \in Channels PROVE Mute(d)
  <2>1. PICK c \in Channels : /\ New(c) /\ status' = [status EXCEPT ![c] = "open"]
                              /\ resuming' = resuming \cup {c}
    BY <1>6 DEF DialSucceeds
  <2>2. UNCHANGED <<tasks, loop, said>>
    BY <1>6 DEF DialSucceeds, history
  <2>3. status[c] = "unused" \/ Reopens(c)
    BY <1>0, <2>1 DEF New, Reopens, TypeOK
  <2>4. Ahead(d)' => Ahead(d) \/ Reopens(d)
    BY <1>0, <2>1, <2>2, <2>3 DEF TypeOK, Ahead, Waits
  <2>5. QED BY <2>2, <2>4 DEF Mute, Again
<1>7. QED BY <1>1, <1>3, <1>4, <1>5, <1>6 DEF ClientStep, DoConnectStep, LoopStep

LEMMA ClientFollows ==
  ASSUME IInv, Opening, Undisturbed, FInv, ClientStep
  PROVE  FInv'
<1> SUFFICES ASSUME faults' = 0 PROVE Mapped' /\ \A c \in Channels : Follows(c)' /\ Untold(c)'
  BY DEF FInv
<1>1. /\ inbox' = [k \in D!Conns |-> inbox[k] \o Written(k[2])]
      /\ UNCHANGED <<created, serverMap, handler, outcome, steady>>
      /\ \A c \in Channels : Reopens(c) => inbox[Conn(c)] = <<>> /\ handler[Conn(c)] = Free
  BY DEF ClientStep, Writes, Rest, Reusable, Reopens, Free
<1>2. /\ Mapped /\ \A c \in Channels : Follows(c) /\ Untold(c)
      /\ \A c \in Channels : Mute(c) \/ Speaks(c)
  BY MuteOrSpeaks DEF FInv
<1>3. Mapped'
  BY <1>1, <1>2 DEF Mapped, Conn
<1>4. \A c \in Channels : Others(c) => Others(c)'
  BY <1>2 DEF Others, Mute, Speaks
<1>5. ASSUME NEW c \in Channels PROVE Follows(c)' /\ Untold(c)'
  <2>1. inbox'[Conn(c)] = inbox[Conn(c)] \o Written(c) /\ handler'[Conn(c)] = handler[Conn(c)]
    BY <1>1, ConnOf
  <2>2. /\ \A a, b : <<a>> \o <<b>> = <<a, b>> /\ <<a, b>> \o <<>> = <<a, b>>
        /\ \A a : <<>> \o <<a>> = <<a>> /\ <<a>> \o <<>> = <<a>>
        /\ <<>> \o <<>> = <<>>
    <3>1. \A a, b : <<a>> \o <<b>> = <<a, b>>
      BY Joined
    <3>2. \A a, b : <<a, b>> \o <<>> = <<a, b>>
      OBVIOUS
    <3>3. \A a : <<>> \o <<a>> = <<a>> /\ <<a>> \o <<>> = <<a>>
      OBVIOUS
    <3>4. <<>> \o <<>> = <<>>
      OBVIOUS
    <3>5. QED BY ONLY <3>1, <3>2, <3>3, <3>4, Zenon
  <2>3. CASE Mute(c)
    <3>1. Written(c) = <<>>
      BY <2>3 DEF Written, Mute
    <3>2. inbox'[Conn(c)] = inbox[Conn(c)]
      BY <1>2, <2>1, <2>2, <3>1 DEF Follows, FollowsRegister, FollowsUnregister, At
    <3>3. Follows(c)'
      BY <1>1, <1>2, <1>4, <2>1, <2>3, <3>2
         DEF Follows, FollowsRegister, FollowsUnregister, At, Conn, Mute
    <3>4. Untold(c)'
      BY <1>1, <1>2, <2>1, <2>3, <3>2 DEF Untold, At, Conn, Mute
    <3>5. QED BY <3>3, <3>4
  <2>4. CASE Speaks(c) /\ Ahead(c) /\ said'[c] = "register"
    <3>1. Written(c) = <<Register>>
      BY <2>4 DEF Written, Register, Speaks
    <3>2. inbox[Conn(c)] = <<>> /\ handler[Conn(c)] = Free
      BY <1>2, <2>4 DEF Untold, At
    <3>3. QED BY <2>1, <2>2, <2>4, <3>1, <3>2 DEF Follows, FollowsRegister, At, Conn, Speaks, Untold
  <2>5. CASE Speaks(c) /\ said[c] = "register" /\ said'[c] = "unregister"
    <3>1. Written(c) = <<Unregister>>
      BY <2>5 DEF Written, Unregister, Speaks
    <3>2. FollowsRegister(c)
      BY <1>2, <2>5 DEF Follows
    <3>3. FollowsUnregister(c)'
      BY <2>1, <2>2, <3>1, <3>2 DEF FollowsRegister, FollowsUnregister, At, Conn
    <3>4. QED BY <2>5, <3>3 DEF Follows, Speaks, Untold
  <2>6. QED BY <1>2, <2>3, <2>4, <2>5 DEF Speaks
<1>6. QED BY <1>3, <1>5

LEMMA FaultFollows ==
  ASSUME TypeOK, DiscoverEnds \/ \E c \in Channels : BreakInTransit(c)
  PROVE  FInv'
<1>1. faults' # 0
  BY DEF DiscoverEnds, DiscoverStops, BreakInTransit, Break, Fault, TypeOK
<1>2. QED BY <1>1 DEF FInv

LEMMA HandleFollows ==
  ASSUME Tables, FInv, DiscoverStep
  PROVE  FInv'
<1> SUFFICES ASSUME faults' = 0 PROVE Mapped' /\ \A c \in Channels : Follows(c)' /\ Untold(c)'
  BY DEF FInv
<1>1. UNCHANGED <<faults, said>> /\ Mapped /\ \A c \in Channels : Follows(c) /\ Untold(c)
  BY DEF DiscoverStep, vars, network, history, FInv
<1>2. PICK c \in Channels : D!Handle(Conn(c))
  BY ConnOf DEF DiscoverStep
<1>3. \A d \in Channels \ {c} : /\ inbox'[Conn(d)] = inbox[Conn(d)]
                                /\ handler'[Conn(d)] = handler[Conn(d)]
  BY <1>2, ConnOf
     DEF Tables, D!Handle, D!Register, D!PutServer, D!Unregister, D!RemoveServer,
         D!GetServiceInfo, D!GetServer, D!FirstServer, D!Reads, D!Goto, D!Ends, D!registry
<1> DEFINE read  == inbox[Conn(c)]
           place == handler[Conn(c)]
<1>4. /\ read # <<>> => Head(read) \in {Register, Unregister}
      /\ place \in {Free, Putting, Removing}
  <2>1. \A a, b : Head(<<a>>) = a /\ Head(<<a, b>>) = a
    OBVIOUS
  <2>2. QED BY <1>1, <2>1 DEF Follows, FollowsRegister, FollowsUnregister, At
<1>5. \/ D!Register(Conn(c)) /\ place = Free /\ read # <<>> /\ Head(read) = Register
      \/ D!PutServer(Conn(c)) /\ place = Putting
      \/ D!Unregister(Conn(c)) /\ place = Free /\ read # <<>> /\ Head(read) = Unregister
      \/ D!RemoveServer(Conn(c)) /\ place = Removing
  BY <1>2, <1>4, Apart, AllApart
     DEF D!Handle, D!Register, D!PutServer, D!Unregister, D!RemoveServer, D!GetServiceInfo,
         D!GetServer, D!FirstServer, D!Reads, Free
<1>6. \A d \in Channels : Untold(d)'
  <2>1. \A d \in Channels : Ahead(d)' <=> Ahead(d)
    BY DEF DiscoverStep, vars, loops, dials, Ahead, Waits
  <2>2. ~Ahead(c)
    BY <1>1, <1>5, Apart, AllApart DEF Untold, At
  <2>3. QED BY <1>1, <1>3, <2>1, <2>2 DEF Untold, At, Conn
<1>7. CASE D!Register(Conn(c)) /\ read # <<>> /\ Head(read) = Register /\ place = Free
  <2>1. /\ inbox'[Conn(c)] = Tail(read) /\ handler'[Conn(c)] = Putting
        /\ serverMap' = serverMap /\ created' = created \cup {Server[1]}
    BY <1>7, Apart, ConnOf DEF D!Register, D!Reads, D!Goto, Putting, Tables
  <2>2. /\ \A a, b : Tail(<<a, b>>) = <<b>> /\ Head(<<a, b>>) = a
        /\ \A a : Tail(<<a>>) = <<>> /\ Head(<<a>>) = a
    OBVIOUS
  <2>3. Register # Unregister
    BY Apart, AllApart
  <2>4. Follows(c)'
    <3>1. \/ said[c] = "register" /\ read = <<Register>>
          \/ said[c] = "unregister" /\ read = <<Register, Unregister>>
      <4>1. read # <<Unregister>>
        BY <1>7, <2>2, <2>3
      <4>2. place # Putting /\ place # Removing
        BY <1>7, Apart, AllApart DEF Free
      <4>3. QED
        BY <1>1, <1>7, <4>1, <4>2 DEF Follows, FollowsRegister, FollowsUnregister, At
    <3>2. CASE said[c] = "register" /\ read = <<Register>>
      <4>1. inbox'[Conn(c)] = <<>>
        BY <2>1, <2>2, <3>2
      <4>2. FollowsRegister(c)'
        BY <2>1, <4>1 DEF FollowsRegister, At, Conn
      <4>3. QED BY <1>1, <3>2, <4>2 DEF Follows
    <3>3. CASE said[c] = "unregister" /\ read = <<Register, Unregister>>
      <4>1. inbox'[Conn(c)] = <<Unregister>>
        BY <2>1, <2>2, <3>3
      <4>2. FollowsUnregister(c)'
        BY <2>1, <4>1 DEF FollowsUnregister, At, Conn
      <4>3. QED BY <1>1, <3>3, <4>2 DEF Follows
    <3>4. QED BY <3>1, <3>2, <3>3
  <2>5. Mapped'
    BY <2>1 DEF Mapped
  <2>6. \A d \in Channels \ {c} : Follows(d)'
    BY <1>1, <1>3, <2>1 DEF Follows, FollowsRegister, FollowsUnregister, At, Conn, Others
  <2>7. QED BY <1>6, <2>4, <2>5, <2>6
<1>8. CASE D!PutServer(Conn(c)) /\ place = Putting
  <2>1. /\ inbox'[Conn(c)] = read /\ handler'[Conn(c)] = Free /\ created' = created
        /\ serverMap' = [serverMap EXCEPT ![Server] = c]
    BY <1>8, AllApart, ConnOf DEF D!PutServer, D!Goto, Free, Tables
  <2>2. said[c] # "nothing"
    BY <1>1, <1>8, Apart DEF Follows, At
  <2>3. Follows(c)'
    BY <1>1, <1>8, <2>1, Apart, AllApart DEF Follows, FollowsRegister, FollowsUnregister, At, Conn
  <2>4. Mapped'
    <3>1. Server[1] \in created'
      BY <1>1, <1>8, <2>1 DEF Mapped
    <3>2. QED BY <3>1 DEF Mapped
  <2>5. \A d \in Channels \ {c} : Follows(d)'
    <3>1. \A d \in Channels \ {c} : Others(d)'
      BY <1>1, <2>2 DEF Others
    <3>2. QED BY <1>1, <1>3, <3>1 DEF Follows, FollowsRegister, FollowsUnregister, At, Conn
  <2>6. QED BY <1>6, <2>3, <2>4, <2>5
<1>9. CASE D!Unregister(Conn(c)) /\ read # <<>> /\ Head(read) = Unregister /\ place = Free
  <2>1. /\ inbox'[Conn(c)] = Tail(read) /\ UNCHANGED <<serverMap, created>>
        /\ handler'[Conn(c)] = IF Server[1] \in created THEN Removing ELSE Free
    BY <1>9, AllApart, ConnOf DEF D!Unregister, D!Reads, D!Goto, Removing, Free, Tables, D!registry
  <2>2. said[c] = "unregister" /\ read = <<Unregister>>
    <3>1. \A a, b : Head(<<a, b>>) = a /\ Head(<<a>>) = a
      OBVIOUS
    <3>2. QED BY <1>1, <1>9, <3>1, Apart, AllApart DEF Follows, FollowsRegister, FollowsUnregister, At
  <2>3. Tail(read) = <<>>
    BY <2>2
  <2>4. Server[1] \notin created => serverMap[Server] = 0
    BY <1>1 DEF Mapped
  <2>5. Follows(c)'
    BY <1>1, <2>1, <2>2, <2>3, <2>4 DEF Follows, FollowsUnregister, At, Conn
  <2>6. Mapped'
    BY <1>1, <1>3, <2>1, Apart, AllApart DEF Mapped, Conn
  <2>7. \A d \in Channels \ {c} : Follows(d)'
    BY <1>1, <1>3, <2>1 DEF Follows, FollowsRegister, FollowsUnregister, At, Conn, Others
  <2>8. QED BY <1>6, <2>5, <2>6, <2>7
<1>10. CASE D!RemoveServer(Conn(c)) /\ place = Removing
  <2>1. /\ inbox'[Conn(c)] = read /\ handler'[Conn(c)] = Free /\ created' = created
        /\ serverMap' = [serverMap EXCEPT ![Server] = 0]
    BY <1>10, AllApart, ConnOf DEF D!RemoveServer, D!Goto, Free, Tables
  <2>2. serverMap'[Server] = 0
    BY <2>1 DEF Tables
  <2>3. said[c] = "unregister" /\ read = <<>>
    BY <1>1, <1>10, Apart, AllApart DEF Follows, FollowsRegister, FollowsUnregister, At
  <2>4. Follows(c)'
    BY <1>1, <2>1, <2>2, <2>3 DEF Follows, FollowsUnregister, At, Conn
  <2>5. Mapped'
    BY <1>1, <1>3, <2>1, <2>2, Apart, AllApart DEF Mapped, Conn
  <2>6. \A d \in Channels \ {c} : Follows(d)'
    BY <1>1, <1>3, <2>2 DEF Follows, FollowsRegister, FollowsUnregister, At, Conn
  <2>7. QED BY <1>6, <2>4, <2>5, <2>6
<1>11. QED BY <1>5, <1>7, <1>8, <1>9, <1>10

LEMMA Following ==
  ASSUME IInv, Opening, Undisturbed, Tables, FInv, [RNext]_rvars
  PROVE  FInv'
<1>1. TypeOK
  BY DEF IInv
<1>2. CASE DiscoverStarts /\ UNCHANGED discover
  BY <1>2 DEF DiscoverStarts, loops, dials, discover, history, FInv, Mapped, Follows, Untold, Ahead,
     Waits, FollowsRegister, FollowsUnregister, At, Others, Conn
<1>3. CASE UNCHANGED rvars
  BY <1>3 DEF rvars, vars, network, loops, dials, discover, history, FInv, Mapped, Follows, Untold,
     Ahead, Waits, FollowsRegister, FollowsUnregister, At, Others, Conn
<1>4. QED BY <1>1, <1>2, <1>3, ClientFollows, FaultFollows, HandleFollows DEF RNext

\* When both ends have handled all there was and the last thing the client said was
\* unregister, discover does not know the server, unless a connection was lost.
THEOREM LastWord == RSpec => []LastWordCounts
<1>1. Opening /\ Undisturbed /\ TypeOK /\ FInv => LastWordCounts
  <2> SUFFICES ASSUME Undisturbed, TypeOK, FInv, Settled, faults = 0, NEW c \in Channels,
                      said[c] = "unregister",
                      \A d \in c + 1 .. MaxChannels : said[d] = "nothing"
               PROVE  serverMap[Server] = 0
    BY DEF LastWordCounts, TypeOK
  <2>1. c = 1
    BY DEF Undisturbed
  <2>2. ~Others(c)
    BY <2>1, LifecycleAssumption DEF Others, Channels
  <2>3. Follows(c) /\ At(c, <<>>, Free)
    BY ConnOf DEF FInv, Settled, D!AllHandled, Conn, Free, At
  <2>4. QED BY <2>2, <2>3, Apart, AllApart DEF Follows, FollowsUnregister, At
<1>2. RSpec => [](IInv /\ Opening /\ Undisturbed)
  BY ImplementsClient, Invariant, Words, PTL
<1>3. RSpec => []RInv
  BY <1>2, TogetherInit, Together, PTL DEF RSpec
<1>4. RInv => Tables
  BY DEF RInv
<1>5. IInv => TypeOK
  BY DEF IInv
<1>6. IInv /\ Opening /\ Undisturbed /\ Tables /\ FInv /\ [RNext]_rvars => FInv'
  BY Following
<1>7. QED BY <1>1, <1>2, <1>3, <1>4, <1>5, <1>6, FollowInit, PTL DEF RSpec
===============================================================================
