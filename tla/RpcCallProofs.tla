---------------------------- MODULE RpcCallProofs ----------------------------
(***************************************************************************)
(* Theorems about RpcCall for any calls, channels and size of the pool.    *)
(***************************************************************************)
EXTENDS RpcCall, TLAPS

\* Abbreviations of one map access, expanded everywhere.
USE DEF Without, Found, AfterTake

\* The number of every call is a key of the two maps.
LEMMA SeqIsKey == \A c \in Calls : SeqOf[c] \in Seqs
  BY DEF Seqs

\* No step of any thread or event loop gives a variable a value of another type.
LEMMA TypeStep == TypeOK /\ [Next]_vars => TypeOK'
<1> USE CallAssumption, SeqIsKey DEF Running, Over, Done
<1> SUFFICES ASSUME TypeOK, [Next]_vars PROVE TypeOK'
  OBVIOUS
<1> USE DEF TypeOK
<1>1. ASSUME NEW c \in Calls, Push(c) PROVE TypeOK'
  BY <1>1 DEF Push, Step, Write, maps
<1>2. ASSUME NEW c \in Calls, Submit(c) PROVE TypeOK'
  BY <1>2 DEF Submit, Step, maps, wire
<1>3. ASSUME NEW c \in Calls, CallerStep(c) PROVE TypeOK'
  <2>1. CASE Return(c)
    BY <2>1 DEF Return, Step, maps, wire
  <2>5. CASE Expire(c)
    BY <2>5 DEF Expire, Step, maps, wire
  <2>2. CASE NotifyExpired(c)
    BY <2>2 DEF NotifyExpired, Step, Notify, maps, wire
  <2>3. CASE RemoveThreadObject(c)
    BY <2>3 DEF RemoveThreadObject, Step, wire
  <2>6. QED BY <1>3, <2>1, <2>2, <2>3, <2>5 DEF CallerStep
<1>4. ASSUME NEW c \in Calls, TaskStep(c) PROVE TypeOK'
  <2>1. CASE StartTask(c)
    BY <2>1 DEF StartTask, Step, maps, wire
  <2>2. CASE SendRequest(c)
    BY <2>2 DEF SendRequest, Step, Write, maps
  <2>3. CASE CheckThreadObject(c) \/ Wait(c)
    BY <2>3 DEF CheckThreadObject, Wait, Step, maps, wire
  <2>4. CASE PutThreadObject(c)
    BY <2>4 DEF PutThreadObject, Step, wire
  <2>5. CASE GetResponse(c)
    BY <2>5 DEF GetResponse, Step, wire
  <2>6. QED BY <1>4, <2>1, <2>2, <2>3, <2>4, <2>5 DEF TaskStep
<1>5. ASSUME NEW c \in Calls, WakeSpuriously(c) PROVE TypeOK'
  BY <1>5 DEF WakeSpuriously, Step, maps, wire
<1>6. ASSUME NEW ch \in Channels, IoStep(ch) PROVE TypeOK'
  <2>1. CASE ReadResponse(ch)
    <3>1. Head(responses[ch]) \in Calls /\ Tail(responses[ch]) \in Seq(Calls)
      BY <2>1 DEF ReadResponse
    <3>2. Reading("matched", Head(responses[ch]), NoCall) \in Reads
      BY <3>1 DEF Reading, Reads
    <3>3. QED BY <2>1, <3>1, <3>2 DEF ReadResponse, threads, maps
  <2>2. CASE StoreResponse(ch)
    <3>0. io[ch].rsp \in Calls
      BY <2>2 DEF StoreResponse, Reads, NoRead, Reading
    <3>1. Reading("stored", io[ch].rsp, NoCall) \in Reads
      BY <3>0 DEF Reading, Reads
    <3>2. responseMap' \in [Seqs -> Calls \cup {NoCall}]
      BY <2>2, <3>0 DEF StoreResponse
    <3>3. QED BY <2>2, <3>1, <3>2 DEF StoreResponse, threads, wire
  <2>3. CASE TakeThreadObject(ch)
    <3> DEFINE s == SeqOf[io[ch].rsp]
    <3>0. io[ch].rsp \in Calls /\ s \in Seqs
      BY <2>3 DEF TakeThreadObject, Reads, NoRead, Reading
    <3>1. /\ threadObjectMap' \in [Seqs -> Calls \cup {NoCall}]
          /\ UNCHANGED <<threads, responseMap, wire>>
      BY <2>3 DEF TakeThreadObject
    <3>2. NoRead \in Reads
      BY DEF NoRead, Reading, Reads
    <3>3. threadObjectMap[s] # NoCall =>
            Reading("taken", io[ch].rsp, threadObjectMap[s]) \in Reads
      BY <3>0 DEF Reading, Reads
    <3>4. io' \in [Channels -> Reads]
      BY <2>3, <3>2, <3>3 DEF TakeThreadObject
    <3>5. QED BY <3>1, <3>4 DEF threads, wire
  <2>4. CASE NotifyWaiter(ch)
    BY <2>4 DEF NotifyWaiter, Notify, NoRead, Reading, Reads, maps, wire
  <2>5. QED BY <1>6, <2>1, <2>2, <2>3, <2>4 DEF IoStep
<1>7. ASSUME NEW ch \in Channels, ServeRequest(ch) PROVE TypeOK'
  <2>1. Head(requests[ch]) \in Calls /\ Tail(requests[ch]) \in Seq(Calls)
    BY <1>7 DEF ServeRequest
  <2>2. /\ requests' \in [Channels -> Seq(Calls)]
        /\ UNCHANGED <<threads, maps, io, up>>
    BY <1>7, <2>1 DEF ServeRequest
  <2>3. Append(responses[ch], Head(requests[ch])) \in Seq(Calls)
    BY <2>1
  <2>4. responses' \in [Channels -> Seq(Calls)] /\ answered' \in SUBSET Calls
    <3>1. CASE UNCHANGED <<responses, answered>>
      BY <3>1
    <3>2. CASE responses' = [responses EXCEPT ![ch] = Append(@, Head(requests[ch]))]
               /\ answered' = answered \cup {Head(requests[ch])}
      BY <2>1, <2>3, <3>2
    <3>3. QED BY <1>7, <3>1, <3>2 DEF ServeRequest
  <2>5. QED BY <2>2, <2>4 DEF threads, maps
<1>8. ASSUME NEW ch \in Channels, CloseChannel(ch) PROVE TypeOK'
  BY <1>8 DEF CloseChannel, threads, maps
<1>9. CASE UNCHANGED vars
  BY <1>9 DEF vars, threads, maps, wire
<1>10. QED
  BY <1>1, <1>2, <1>3, <1>4, <1>5, <1>6, <1>7, <1>8, <1>9 DEF Next

\* Every shared variable keeps its type: type correctness of the whole RPC
\* client, whatever interleaving of callers, pool threads and event loops.
THEOREM TypeCorrect == Spec => []TypeOK
<1>1. Init => TypeOK
  BY CallAssumption, SeqIsKey DEF Init, TypeOK, NoRead, Reading, Reads
<1>2. QED BY <1>1, TypeStep, PTL DEF Spec
-------------------------------------------------------------------------------
(* The parts of the inductive invariant. *)

\* The caller and the pool thread of a call stay in step.
LEMMA ThreadsStep == TypeOK /\ ThreadsAgree /\ [Next]_vars => ThreadsAgree'
<1> SUFFICES ASSUME TypeOK, ThreadsAgree, [Next]_vars PROVE ThreadsAgree'
  OBVIOUS
<1> USE CallAssumption DEF TypeOK, ThreadsAgree, Step
<1>1. ASSUME NEW c \in Calls, Push(c) \/ Submit(c) PROVE ThreadsAgree'
  <2>1. /\ caller[c] = "idle" /\ task[c] = "none" /\ UNCHANGED future
        /\ future[c] = NoCall
        /\ \A d \in Calls \ {c} : caller'[d] = caller[d] /\ task'[d] = task[d]
    BY <1>1 DEF Push, Submit
  <2>2. CASE c \in Pushes /\ caller'[c] = "returned" /\ task'[c] = "none"
    <3> HIDE DEF TypeOK
    <3> QED BY <2>1, <2>2
  <2>3. CASE c \notin Pushes /\ caller'[c] = "waiting" /\ task'[c] = "queued"
    <3> HIDE DEF TypeOK
    <3> QED BY <2>1, <2>3
  <2>4. QED BY <1>1, <2>2, <2>3 DEF Push, Submit
<1>2. ASSUME NEW c \in Calls, CallerStep(c) PROVE ThreadsAgree'
  <2>1. CASE Return(c)
    BY <2>1 DEF Return, Over
  <2>2. CASE Expire(c)
    BY <2>2 DEF Expire
  <2>3. CASE NotifyExpired(c)
    BY <2>3 DEF NotifyExpired, Notify
  <2>4. CASE RemoveThreadObject(c)
    BY <2>4 DEF RemoveThreadObject
  <2>5. QED BY <1>2, <2>1, <2>2, <2>3, <2>4 DEF CallerStep
<1>3. ASSUME NEW c \in Calls, TaskStep(c) \/ WakeSpuriously(c) PROVE ThreadsAgree'
  <2>1. CASE StartTask(c) \/ SendRequest(c) \/ WakeSpuriously(c)
    BY <2>1 DEF StartTask, SendRequest, WakeSpuriously
  <2>2. CASE CheckThreadObject(c) \/ PutThreadObject(c) \/ Wait(c)
    BY <2>2 DEF CheckThreadObject, PutThreadObject, Wait
  <2>3. CASE GetResponse(c)
    BY <2>3 DEF GetResponse
  <2>4. QED BY <1>3, <2>1, <2>2, <2>3 DEF TaskStep
<1>4. ASSUME NEW ch \in Channels, IoStep(ch) PROVE ThreadsAgree'
  <2>1. CASE ReadResponse(ch) \/ StoreResponse(ch) \/ TakeThreadObject(ch)
    BY <2>1 DEF ReadResponse, StoreResponse, TakeThreadObject, threads
  <2>2. CASE NotifyWaiter(ch)
    BY <2>2 DEF NotifyWaiter, Notify
  <2>3. QED BY <1>4, <2>1, <2>2 DEF IoStep
<1>5. ASSUME NEW ch \in Channels, ServeRequest(ch) \/ CloseChannel(ch) PROVE ThreadsAgree'
  BY <1>5 DEF ServeRequest, CloseChannel, threads
<1>6. CASE UNCHANGED vars
  BY <1>6 DEF vars, threads
<1>7. QED BY <1>1, <1>2, <1>3, <1>4, <1>5, <1>6 DEF Next

\* A request that was written stays written, whatever steps its call takes.
LEMMA WrittenStays ==
  ASSUME TypeOK, ThreadsAgree, [Next]_vars, NEW c \in Written PROVE c \in Written'
<1> USE CallAssumption DEF TypeOK, ThreadsAgree, Step, Written
<1>1. ASSUME NEW d \in Calls, Push(d) \/ Submit(d) PROVE c \in Written'
  BY <1>1 DEF Push, Submit
<1>2. ASSUME NEW d \in Calls, CallerStep(d) PROVE c \in Written'
  BY <1>2 DEF CallerStep, Return, Expire, NotifyExpired, RemoveThreadObject, Notify
<1>3. ASSUME NEW d \in Calls, TaskStep(d) \/ WakeSpuriously(d) PROVE c \in Written'
  BY <1>3 DEF TaskStep, StartTask, SendRequest, WakeSpuriously, CheckThreadObject,
              PutThreadObject, Wait, GetResponse
<1>4. ASSUME NEW ch \in Channels, IoStep(ch) PROVE c \in Written'
  <2>1. CASE ReadResponse(ch) \/ StoreResponse(ch) \/ TakeThreadObject(ch)
    BY <2>1 DEF ReadResponse, StoreResponse, TakeThreadObject, threads
  <2>2. CASE NotifyWaiter(ch)
    BY <2>2 DEF NotifyWaiter, Notify
  <2>3. QED BY <1>4, <2>1, <2>2 DEF IoStep
<1>5. ASSUME NEW ch \in Channels, ServeRequest(ch) \/ CloseChannel(ch) PROVE c \in Written'
  BY <1>5 DEF ServeRequest, CloseChannel, threads
<1>6. CASE UNCHANGED vars
  BY <1>6 DEF vars, threads
<1>7. QED BY <1>1, <1>2, <1>3, <1>4, <1>5, <1>6 DEF Next

\* Only these actions put a request on the wire or take one off.
LEMMA WireFrame ==
  ASSUME TypeOK, [Next]_vars
  PROVE \/ \E c \in Calls : Push(c) \/ SendRequest(c)
        \/ \E ch \in Channels : ServeRequest(ch) \/ CloseChannel(ch)
        \/ UNCHANGED <<requests, answered>>
  BY DEF Next, vars, wire, Submit, CallerStep, Return, Expire, NotifyExpired,
         RemoveThreadObject, TaskStep, StartTask, CheckThreadObject, PutThreadObject, Wait,
         WakeSpuriously, GetResponse, IoStep, ReadResponse, StoreResponse,
         TakeThreadObject, NotifyWaiter

\* A request that is written for the first time is on no wire yet and becomes
\* the last of its channel's.
LEMMA WriteKeepsOnce ==
  ASSUME TypeOK, ThreadsAgree, RequestsOnce, [Next]_vars,
         NEW c \in Calls, c \notin Written, c \in Written', Write(c), UNCHANGED answered
  PROVE RequestsOnce'
<1> USE CallAssumption DEF TypeOK
<1>1. Written \subseteq Written'
  BY WrittenStays
<1>2. answered' \subseteq Written' \ {c}
  BY <1>1 DEF RequestsOnce
<1>3. ASSUME NEW ch \in Channels, NEW i \in 1 .. Len(requests'[ch])
      PROVE /\ ChannelOf[requests'[ch][i]] = ch
            /\ requests'[ch][i] \in Written' \ answered'
            /\ \A j \in 1 .. Len(requests'[ch]) : requests'[ch][i] = requests'[ch][j] => i = j
  <2>1. \A k \in 1 .. Len(requests[ch]) : requests[ch][k] \in Calls /\ requests[ch][k] # c
    BY DEF RequestsOnce
  <2>2. CASE requests'[ch] = requests[ch]
    BY <1>1, <1>3, <2>1, <2>2 DEF RequestsOnce
  <2>3. CASE ch = ChannelOf[c] /\ requests'[ch] = Append(requests[ch], c)
    <3> DEFINE n == Len(requests[ch])
    <3>1. /\ Len(requests'[ch]) = n + 1 /\ requests'[ch][n + 1] = c
          /\ \A k \in 1 .. n : requests'[ch][k] = requests[ch][k]
      BY <2>3
    <3>2. CASE i = n + 1
      BY <1>2, <2>1, <2>3, <3>1, <3>2
    <3>3. CASE i \in 1 .. n
      <4>1. /\ ChannelOf[requests[ch][i]] = ch /\ requests[ch][i] \in Written \ answered
            /\ \A j \in 1 .. n : requests[ch][i] = requests[ch][j] => i = j
        BY <3>3 DEF RequestsOnce
      <4>2. \A j \in 1 .. n + 1 : requests'[ch][i] = requests'[ch][j] => i = j
        <5>1. ASSUME NEW j \in 1 .. n + 1, requests'[ch][i] = requests'[ch][j] PROVE i = j
          <6>1. n \in Nat /\ (j = n + 1 \/ j \in 1 .. n)
            BY <5>1
          <6>2. QED BY <2>1, <3>1, <3>3, <4>1, <5>1, <6>1
        <5>2. QED BY <5>1
      <4>3. QED BY <1>1, <3>1, <3>3, <4>1, <4>2
    <3>4. QED BY <1>3, <3>1, <3>2, <3>3
  <2>4. QED BY <2>2, <2>3 DEF Write
<1>4. QED BY <1>2, <1>3 DEF RequestsOnce

\* Requests are written once and answered once.
LEMMA RequestsStep ==
  TypeOK /\ ThreadsAgree /\ RequestsOnce /\ [Next]_vars => RequestsOnce'
<1> SUFFICES ASSUME TypeOK, ThreadsAgree, RequestsOnce, [Next]_vars PROVE RequestsOnce'
  OBVIOUS
<1> USE CallAssumption
<1>1. Written \subseteq Written'
  BY WrittenStays
<1>2. ASSUME NEW c \in Calls, Push(c) PROVE RequestsOnce'
  <2>1. c \notin Written /\ c \in Written' /\ Write(c) /\ UNCHANGED answered
    BY <1>2 DEF Push, Step, Written, TypeOK
  <2>2. QED BY <2>1, WriteKeepsOnce
<1>3. ASSUME NEW c \in Calls, SendRequest(c) PROVE RequestsOnce'
  <2>1. c \notin Written /\ c \in Written' /\ Write(c) /\ UNCHANGED answered
    BY <1>3 DEF SendRequest, Step, Written, TypeOK, ThreadsAgree
  <2>2. QED BY <2>1, WriteKeepsOnce
<1>4. ASSUME NEW ch \in Channels, ServeRequest(ch) PROVE RequestsOnce'
  <2> DEFINE rs == requests[ch]
             n  == Len(rs)
  <2>1. /\ rs \in Seq(Calls) /\ rs # <<>> /\ n \in Nat \ {0} /\ Head(rs) = rs[1]
        /\ Len(Tail(rs)) = n - 1 /\ \A k \in 1 .. n - 1 : Tail(rs)[k] = rs[k + 1]
    BY <1>4 DEF ServeRequest, TypeOK
  <2>2. /\ requests'[ch] = Tail(rs)
        /\ \A d \in Channels \ {ch} : requests'[d] = requests[d]
        /\ answered' \subseteq answered \cup {rs[1]}
    BY <1>4, <2>1 DEF ServeRequest, TypeOK
  <2>3. answered' \subseteq Written'
    BY <1>1, <2>1, <2>2 DEF RequestsOnce, TypeOK
  <2>4. ASSUME NEW d \in Channels, NEW i \in 1 .. Len(requests'[d])
        PROVE /\ ChannelOf[requests'[d][i]] = d
              /\ requests'[d][i] \in Written' \ answered'
              /\ \A j \in 1 .. Len(requests'[d]) : requests'[d][i] = requests'[d][j] => i = j
    <3>1. CASE d = ch
      <4>1. i \in 1 .. n - 1 /\ i + 1 \in 1 .. n /\ requests'[ch][i] = rs[i + 1]
        <5>1. Len(requests'[d]) = n - 1 /\ requests'[ch] = Tail(rs)
          BY <2>1, <2>2, <3>1
        <5>2. i \in 1 .. n - 1 /\ i + 1 \in 1 .. n
          BY <2>1, <2>4, <5>1
        <5>3. QED BY <2>1, <5>1, <5>2
      <4>2. /\ ChannelOf[rs[i + 1]] = ch /\ rs[i + 1] \in Written \ answered
            /\ rs[i + 1] # rs[1]
        BY <2>1, <4>1 DEF RequestsOnce
      <4>3. \A j \in 1 .. n - 1 : rs[i + 1] = rs[j + 1] => i = j
        BY <2>1, <4>1 DEF RequestsOnce
      <4>4. QED BY <1>1, <2>1, <2>2, <3>1, <4>1, <4>2, <4>3
    <3>2. CASE d # ch
      <4>1. requests'[d] = requests[d] /\ requests[d][i] \in Calls
        BY <2>2, <2>4, <3>2 DEF TypeOK
      <4>2. requests[d][i] # rs[1]
        BY <2>1, <2>4, <3>2, <4>1 DEF RequestsOnce
      <4>3. QED BY <1>1, <2>2, <2>4, <4>1, <4>2 DEF RequestsOnce
    <3>3. QED BY <3>1, <3>2
  <2>5. QED BY <2>3, <2>4 DEF RequestsOnce
<1>5. ASSUME NEW ch \in Channels, CloseChannel(ch) PROVE RequestsOnce'
  <2>1. \A d \in Channels : requests'[d] = requests[d] \/ requests'[d] = <<>>
    BY <1>5 DEF CloseChannel, TypeOK
  <2>2. answered' = answered /\ \A d \in Channels : requests[d] \in Seq(Calls)
    BY <1>5 DEF CloseChannel, TypeOK
  <2>3. \A d \in Channels : \A i \in 1 .. Len(requests'[d]) : requests'[d] = requests[d]
    BY <2>1
  <2>4. QED BY <1>1, <2>2, <2>3 DEF RequestsOnce
<1>6. CASE UNCHANGED <<requests, answered>>
  <2>1. \A d \in Channels : requests[d] \in Seq(Calls)
    BY DEF TypeOK
  <2>2. QED BY <1>1, <1>6, <2>1 DEF RequestsOnce, TypeOK
<1>7. QED BY <1>2, <1>3, <1>4, <1>5, <1>6, WireFrame

\* What was answered stays answered.
LEMMA AnsweredStays == TypeOK /\ [Next]_vars => answered \subseteq answered'
<1> SUFFICES ASSUME TypeOK, [Next]_vars PROVE answered \subseteq answered'
  OBVIOUS
<1>1. ASSUME NEW c \in Calls, Push(c) \/ SendRequest(c) PROVE answered' = answered
  BY <1>1 DEF Push, SendRequest
<1>2. ASSUME NEW ch \in Channels, ServeRequest(ch) \/ CloseChannel(ch)
      PROVE answered \subseteq answered'
  BY <1>2 DEF ServeRequest, CloseChannel
<1>3. QED BY <1>1, <1>2, WireFrame

\* The response a pool thread takes has the number of its request.
LEMMA ResponsesStep ==
  TypeOK /\ ThreadsAgree /\ ResponsesKeyed /\ [Next]_vars => ResponsesKeyed'
<1> SUFFICES ASSUME TypeOK, ThreadsAgree, ResponsesKeyed, [Next]_vars PROVE ResponsesKeyed'
  OBVIOUS
<1> USE CallAssumption, SeqIsKey, AnsweredStays
<1>1. ASSUME NEW c \in Calls, Push(c) \/ Submit(c) \/ CallerStep(c) PROVE ResponsesKeyed'
  <2>1. UNCHANGED <<responses, answered, io, responseMap, future>>
    BY <1>1 DEF Push, Submit, CallerStep, Return, Expire, NotifyExpired,
                RemoveThreadObject, maps, wire
  <2>2. QED BY <2>1 DEF ResponsesKeyed
<1>2. ASSUME NEW c \in Calls, TaskStep(c) \/ WakeSpuriously(c) PROVE ResponsesKeyed'
  <2>1. CASE GetResponse(c)
    <3>1. responseMap[SeqOf[c]] # NoCall =>
            /\ responseMap[SeqOf[c]] \in answered
            /\ SeqOf[responseMap[SeqOf[c]]] = SeqOf[c]
      BY DEF ResponsesKeyed
    <3>2. QED BY <2>1, <3>1 DEF GetResponse, ResponsesKeyed, TypeOK, wire
  <2>2. CASE ~GetResponse(c)
    <3>1. UNCHANGED <<responses, answered, io, responseMap, future>>
      BY <1>2, <2>2 DEF TaskStep, StartTask, SendRequest, CheckThreadObject,
                  PutThreadObject, Wait, WakeSpuriously, maps, wire
    <3>2. QED BY <3>1 DEF ResponsesKeyed
  <2>3. QED BY <2>1, <2>2
<1>3. ASSUME NEW ch \in Channels, ReadResponse(ch) PROVE ResponsesKeyed'
  <2> DEFINE rs == responses[ch]
  <2>1. /\ rs \in Seq(Calls) /\ rs # <<>> /\ Head(rs) = rs[1] /\ Len(rs) \in Nat \ {0}
        /\ Len(Tail(rs)) = Len(rs) - 1
        /\ \A k \in 1 .. Len(rs) - 1 : Tail(rs)[k] = rs[k + 1]
    BY <1>3 DEF ReadResponse, TypeOK
  <2>2. rs[1] \in answered
    BY <2>1 DEF ResponsesKeyed
  <2>3. \A d \in Channels : io'[d] # NoRead => io'[d].rsp \in answered
    BY <1>3, <2>1, <2>2 DEF ReadResponse, ResponsesKeyed, TypeOK, Reading
  <2>4. \A k \in 1 .. Len(rs) - 1 : Tail(rs)[k] \in answered
    BY <2>1 DEF ResponsesKeyed
  <2>5. responses' = [responses EXCEPT ![ch] = Tail(rs)] /\ responses \in [Channels -> Seq(Calls)]
    BY <1>3 DEF ReadResponse, TypeOK
  <2>6. \A d \in Channels : \A i \in 1 .. Len(responses'[d]) : responses'[d][i] \in answered
    BY <2>1, <2>4, <2>5 DEF ResponsesKeyed
  <2>7. UNCHANGED <<answered, responseMap, future>>
    BY <1>3 DEF ReadResponse, threads, maps
  <2>8. QED BY <2>3, <2>6, <2>7 DEF ResponsesKeyed
<1>4. ASSUME NEW ch \in Channels, StoreResponse(ch) PROVE ResponsesKeyed'
  <2>1. io[ch].rsp \in answered /\ io[ch].rsp \in Calls
    BY <1>4 DEF StoreResponse, ResponsesKeyed, TypeOK, Reads, NoRead, Reading
  <2>2. /\ \A s \in Seqs : responseMap'[s] # NoCall =>
             responseMap'[s] \in answered /\ SeqOf[responseMap'[s]] = s
        /\ \A d \in Channels : io'[d] # NoRead => io'[d].rsp \in answered
    BY <1>4, <2>1 DEF StoreResponse, ResponsesKeyed, TypeOK, Reading
  <2>3. QED BY <1>4, <2>2 DEF StoreResponse, ResponsesKeyed, threads, wire
<1>5. ASSUME NEW ch \in Channels, TakeThreadObject(ch) \/ NotifyWaiter(ch)
      PROVE ResponsesKeyed'
  <2>1. /\ \A d \in Channels : io'[d] = io[d] \/ io'[d] = NoRead \/
             (d = ch /\ io[d] # NoRead /\ io'[d].rsp = io[d].rsp)
        /\ UNCHANGED <<responses, answered, responseMap, future>>
    BY <1>5 DEF TakeThreadObject, NotifyWaiter, NoRead, Reading, TypeOK, threads, maps, wire
  <2>2. QED BY <2>1 DEF ResponsesKeyed
<1>6. ASSUME NEW ch \in Channels, ServeRequest(ch) PROVE ResponsesKeyed'
  <2>1. Head(requests[ch]) \in Calls
    BY <1>6 DEF ServeRequest, TypeOK
  <2>2. \A d \in Channels : \A i \in 1 .. Len(responses'[d]) : responses'[d][i] \in answered'
    <3>1. CASE UNCHANGED <<responses, answered>>
      BY <3>1 DEF ResponsesKeyed
    <3>2. CASE /\ responses' = [responses EXCEPT ![ch] = Append(@, Head(requests[ch]))]
               /\ answered' = answered \cup {Head(requests[ch])}
      <4>1. \A d \in Channels : /\ responses[d] \in Seq(Calls)
                                /\ d # ch => responses'[d] = responses[d]
        BY <3>2 DEF TypeOK
      <4>2. /\ responses'[ch] = Append(responses[ch], Head(requests[ch]))
            /\ Len(responses'[ch]) = Len(responses[ch]) + 1
            /\ responses'[ch][Len(responses[ch]) + 1] = Head(requests[ch])
            /\ \A k \in 1 .. Len(responses[ch]) : responses'[ch][k] = responses[ch][k]
        BY <2>1, <3>2, <4>1 DEF TypeOK
      <4>3. \A i \in 1 .. Len(responses'[ch]) : responses'[ch][i] \in answered'
        BY <3>2, <4>1, <4>2 DEF ResponsesKeyed
      <4>4. QED BY <3>2, <4>1, <4>3 DEF ResponsesKeyed
    <3>3. QED BY <1>6, <3>1, <3>2 DEF ServeRequest
  <2>3. UNCHANGED <<io, responseMap, future>>
    BY <1>6 DEF ServeRequest, threads, maps
  <2>4. QED BY <2>2, <2>3 DEF ResponsesKeyed
<1>7. ASSUME NEW ch \in Channels, CloseChannel(ch) PROVE ResponsesKeyed'
  <2>1. /\ \A d \in Channels : responses'[d] = responses[d] \/ responses'[d] = <<>>
        /\ UNCHANGED <<answered, io, responseMap, future>>
    BY <1>7 DEF CloseChannel, TypeOK, threads, maps
  <2>2. QED BY <2>1 DEF ResponsesKeyed
<1>8. CASE UNCHANGED vars
  BY <1>8 DEF vars, threads, maps, wire, ResponsesKeyed
<1>9. QED
  BY <1>1, <1>2, <1>3, <1>4, <1>5, <1>6, <1>7, <1>8 DEF Next, IoStep

LEMMA InvStep == Inv /\ [Next]_vars => Inv'
  BY TypeStep, ThreadsStep, RequestsStep, ResponsesStep DEF Inv

LEMMA InvInit == Init => Inv
<1> SUFFICES ASSUME Init PROVE Inv
  OBVIOUS
<1>1. TypeOK
  BY CallAssumption, SeqIsKey DEF Init, TypeOK, NoRead, Reading, Reads
<1>2. ThreadsAgree /\ RequestsOnce /\ ResponsesKeyed
  BY CallAssumption DEF Init, ThreadsAgree, RequestsOnce, ResponsesKeyed
<1>3. QED BY <1>1, <1>2 DEF Inv

\* Whatever numbers the requests have, each is on the wire once, and a response is
\* kept, and returned, under the number of the request that it answers.
THEOREM Invariance == Spec => []Inv
  BY InvInit, InvStep, PTL DEF Spec

LEMMA Distinct ==
  ASSUME UniqueSeqs PROVE \A c, d \in Calls : SeqOf[c] = SeqOf[d] => c = d
  BY DEF UniqueSeqs, Unshared

\* If GenerateMsgSeq never repeats itself, every response that write returns is
\* the answer to the request it was given.
THEOREM OwnAnswers == ASSUME UniqueSeqs PROVE Spec => []AnswersOwnRequest
<1>1. Inv => AnswersOwnRequest
  BY Distinct DEF Inv, TypeOK, ResponsesKeyed, AnswersOwnRequest
<1>2. QED BY <1>1, Invariance, PTL
-------------------------------------------------------------------------------
(* Residue: which responses and entries stay behind, and why. *)

LEMMA ObjectsStep == TypeOK /\ ObjectsKeyed /\ [Next]_vars => ObjectsKeyed'
<1> SUFFICES ASSUME TypeOK, ObjectsKeyed, [Next]_vars PROVE ObjectsKeyed'
  OBVIOUS
<1> USE CallAssumption, SeqIsKey
<1>1. ASSUME NEW c \in Calls, PutThreadObject(c) \/ RemoveThreadObject(c) PROVE ObjectsKeyed'
  <2>1. /\ threadObjectMap'[SeqOf[c]] \in {c, NoCall}
        /\ \A s \in Seqs \ {SeqOf[c]} : threadObjectMap'[s] = threadObjectMap[s]
    BY <1>1 DEF PutThreadObject, RemoveThreadObject, TypeOK
  <2>2. UNCHANGED io
    BY <1>1 DEF PutThreadObject, RemoveThreadObject
  <2>3. QED BY <2>1, <2>2 DEF ObjectsKeyed
<1>2. ASSUME NEW ch \in Channels, ReadResponse(ch) \/ StoreResponse(ch) \/ NotifyWaiter(ch)
      PROVE ObjectsKeyed'
  <2>1. /\ UNCHANGED threadObjectMap
        /\ \A d \in Channels : io'[d] = io[d] \/ io'[d].pc # "taken"
    BY <1>2 DEF ReadResponse, StoreResponse, NotifyWaiter, NoRead, Reading, TypeOK, maps
  <2>2. QED BY <2>1 DEF ObjectsKeyed
<1>3. ASSUME NEW ch \in Channels, TakeThreadObject(ch) PROVE ObjectsKeyed'
  <2> DEFINE s == SeqOf[io[ch].rsp]
  <2>1. s \in Seqs /\ threadObjectMap[s] \in Calls \cup {NoCall}
    BY <1>3 DEF TakeThreadObject, TypeOK, Reads, NoRead, Reading
  <2>2. threadObjectMap' = [threadObjectMap EXCEPT ![s] = NoCall]
    BY <1>3 DEF TakeThreadObject
  <2>3. \A d \in Channels \ {ch} : io'[d] = io[d]
    BY <1>3 DEF TakeThreadObject, TypeOK
  <2>4. io'[ch] = IF threadObjectMap[s] = NoCall THEN NoRead
                  ELSE Reading("taken", io[ch].rsp, threadObjectMap[s])
    BY <1>3 DEF TakeThreadObject, TypeOK
  <2>5. io'[ch].pc = "taken" =>
          io'[ch].obj \in Calls /\ SeqOf[io'[ch].obj] = SeqOf[io'[ch].rsp]
    BY <2>1, <2>4 DEF ObjectsKeyed, NoRead, Reading
  <2>6. QED BY <2>1, <2>2, <2>3, <2>5 DEF ObjectsKeyed, TypeOK
<1>4. CASE UNCHANGED <<threadObjectMap, io>>
  BY <1>4 DEF ObjectsKeyed
<1>5. QED
  BY <1>1, <1>2, <1>3, <1>4 DEF Next, vars, maps, threads, Push, Submit, CallerStep, Return,
     Expire, NotifyExpired, TaskStep, StartTask, SendRequest, CheckThreadObject, Wait,
     WakeSpuriously, GetResponse, IoStep, ServeRequest, CloseChannel

\* What a step does to the responses on their way back and to what is read.
LEMMA ReadFacts ==
  ASSUME TypeOK, NEW ch \in Channels, ReadResponse(ch)
  PROVE  LET rs == responses[ch]
         IN  /\ rs \in Seq(Calls) /\ Len(rs) \in Nat \ {0} /\ rs[1] \in Calls
             /\ Len(responses'[ch]) = Len(rs) - 1
             /\ \A k \in 1 .. Len(rs) - 1 : responses'[ch][k] = rs[k + 1]
             /\ io[ch] = NoRead
             /\ \/ io'[ch] = NoRead /\ threadObjectMap[SeqOf[rs[1]]] = NoCall
                \/ /\ io'[ch] = Reading("matched", rs[1], NoCall)
                   /\ threadObjectMap[SeqOf[rs[1]]] # NoCall
             /\ \A d \in Channels \ {ch} : responses'[d] = responses[d] /\ io'[d] = io[d]
             /\ UNCHANGED <<threads, maps, answered>>
<1>1. responses[ch] \in Seq(Calls) /\ responses[ch] # <<>>
  BY DEF ReadResponse, TypeOK
<1>2. /\ Len(responses[ch]) \in Nat \ {0} /\ Head(responses[ch]) = responses[ch][1]
      /\ responses[ch][1] \in Calls /\ Len(Tail(responses[ch])) = Len(responses[ch]) - 1
      /\ \A k \in 1 .. Len(responses[ch]) - 1 : Tail(responses[ch])[k] = responses[ch][k + 1]
  BY <1>1
<1>3. QED BY <1>1, <1>2 DEF ReadResponse, TypeOK

LEMMA ServeFacts ==
  ASSUME Inv, NEW ch \in Channels, ServeRequest(ch), ~UNCHANGED responses
  PROVE  LET q == Head(requests[ch])
             rs == responses[ch]
         IN  /\ q \in Calls \ answered /\ ChannelOf[q] = ch
             /\ rs \in Seq(Calls) /\ Len(rs) \in Nat
             /\ Len(responses'[ch]) = Len(rs) + 1
             /\ responses'[ch][Len(rs) + 1] = q
             /\ \A k \in 1 .. Len(rs) : responses'[ch][k] = rs[k]
             /\ \A d \in Channels \ {ch} : responses'[d] = responses[d]
             /\ answered' = answered \cup {q}
<1> USE DEF Inv
<1>1. requests[ch] \in Seq(Calls) /\ requests[ch] # <<>>
  BY DEF ServeRequest, TypeOK
<1>2. Head(requests[ch]) = requests[ch][1] /\ 1 \in 1 .. Len(requests[ch])
  BY <1>1
<1>3. Head(requests[ch]) \in Calls \ answered /\ ChannelOf[Head(requests[ch])] = ch
  BY <1>1, <1>2 DEF RequestsOnce, Written
<1>4. /\ responses' = [responses EXCEPT ![ch] = Append(@, Head(requests[ch]))]
      /\ answered' = answered \cup {Head(requests[ch])}
  BY DEF ServeRequest
<1>5. responses[ch] \in Seq(Calls) /\ responses'[ch] = Append(responses[ch], Head(requests[ch]))
  BY <1>4 DEF TypeOK
<1>6. QED BY <1>3, <1>4, <1>5 DEF TypeOK

\* Only these steps touch the responses under way, or a response being read.
LEMMA ResponsesFrame ==
  ASSUME TypeOK, [Next]_vars,
         \A ch \in Channels : ~(IoStep(ch) \/ ServeRequest(ch) \/ CloseChannel(ch))
  PROVE  UNCHANGED <<responses, io, answered>>
  BY DEF Next, vars, wire, Push, Submit, CallerStep, Return, Expire, NotifyExpired,
     RemoveThreadObject, TaskStep, StartTask, SendRequest, CheckThreadObject,
     PutThreadObject, Wait, GetResponse, WakeSpuriously

LEMMA IoFrame ==
  ASSUME TypeOK, NEW ch \in Channels,
         StoreResponse(ch) \/ TakeThreadObject(ch) \/ NotifyWaiter(ch)
  PROVE  /\ UNCHANGED <<caller, responses, answered>>
         /\ io[ch] # NoRead
         /\ \A d \in Channels \ {ch} : io'[d] = io[d]
         /\ io'[ch] = NoRead \/ io'[ch].rsp = io[ch].rsp
  BY DEF StoreResponse, TakeThreadObject, NotifyWaiter, NoRead, Reading, TypeOK, threads,
     wire

LEMMA CloseFacts ==
  ASSUME TypeOK, NEW ch \in Channels, CloseChannel(ch)
  PROVE  /\ \A d \in Channels : responses'[d] = responses[d] \/ responses'[d] = <<>>
         /\ UNCHANGED <<threads, maps, io, answered>>
  BY DEF CloseChannel, TypeOK

LEMMA OnceStep == Inv /\ ResponsesOnce /\ [Next]_vars => ResponsesOnce'
<1> SUFFICES ASSUME Inv, ResponsesOnce, [Next]_vars PROVE ResponsesOnce'
  OBVIOUS
<1> USE DEF Inv
<1>1. ASSUME NEW ch \in Channels, ReadResponse(ch) PROVE ResponsesOnce'
  <2> DEFINE rs == responses[ch]
  <2>1. /\ \A i, j \in 1 .. Len(rs) : rs[i] = rs[j] => i = j
        /\ \A i \in 1 .. Len(rs) : ChannelOf[rs[i]] = ch
    BY DEF ResponsesOnce
  <2>a. /\ Len(rs) \in Nat \ {0} /\ Len(responses'[ch]) = Len(rs) - 1
        /\ \A k \in 1 .. Len(rs) - 1 : responses'[ch][k] = rs[k + 1]
    BY <1>1, ReadFacts
  <2>b. \A k \in 1 .. Len(responses'[ch]) :
          k + 1 \in 1 .. Len(rs) /\ responses'[ch][k] = rs[k + 1]
    BY <2>a
  <2>2. \A i \in 1 .. Len(responses'[ch]) :
          /\ ChannelOf[responses'[ch][i]] = ch /\ responses'[ch][i] # rs[1]
          /\ \A j \in 1 .. Len(responses'[ch]) :
               responses'[ch][i] = responses'[ch][j] => i = j
    <3>1. 1 \in 1 .. Len(rs)
      BY <2>a
    <3>2. TAKE i \in 1 .. Len(responses'[ch])
    <3>3. ChannelOf[responses'[ch][i]] = ch
      BY <2>1, <2>b
    <3>4. responses'[ch][i] # rs[1]
      <4>1. i + 1 \in 1 .. Len(rs) /\ responses'[ch][i] = rs[i + 1] /\ i + 1 # 1
        BY <2>b
      <4>2. QED BY <2>1, <3>1, <4>1
    <3>5. ASSUME NEW j \in 1 .. Len(responses'[ch]), responses'[ch][i] = responses'[ch][j]
          PROVE i = j
      <4>1. rs[i + 1] = rs[j + 1] /\ i + 1 \in 1 .. Len(rs) /\ j + 1 \in 1 .. Len(rs)
        BY <2>b, <3>5
      <4>2. i + 1 = j + 1
        BY <2>1, <4>1
      <4>3. QED BY <4>2
    <3>6. QED BY <3>3, <3>4, <3>5
  <2>3. io'[ch] # NoRead => io'[ch].rsp = rs[1] /\ ChannelOf[io'[ch].rsp] = ch
    <3>1. io'[ch] = NoRead \/ io'[ch] = Reading("matched", rs[1], NoCall)
      BY <1>1, ReadFacts
    <3>2. ChannelOf[rs[1]] = ch
      BY <2>1, <2>a
    <3>3. QED BY <3>1, <3>2 DEF Reading
  <2>4. \A d \in Channels \ {ch} : responses'[d] = responses[d] /\ io'[d] = io[d]
    BY <1>1, ReadFacts
  <2>5. QED BY <2>2, <2>3, <2>4 DEF ResponsesOnce
<1>2. ASSUME NEW ch \in Channels, StoreResponse(ch) \/ TakeThreadObject(ch) \/ NotifyWaiter(ch)
      PROVE ResponsesOnce'
  BY <1>2, IoFrame DEF ResponsesOnce
<1>3. ASSUME NEW ch \in Channels, ServeRequest(ch), ~UNCHANGED responses PROVE ResponsesOnce'
  <2> DEFINE q  == Head(requests[ch])
             rs == responses[ch]
  <2>1. UNCHANGED io
    BY <1>3 DEF ServeRequest
  <2>2. \A i \in 1 .. Len(rs) : rs[i] # q
    BY <1>3, ServeFacts DEF ResponsesKeyed
  <2>3. io[ch] # NoRead => io[ch].rsp # q
    BY <1>3, ServeFacts DEF ResponsesKeyed
  <2>4. \A i \in 1 .. Len(responses'[ch]) :
          /\ ChannelOf[responses'[ch][i]] = ch
          /\ \A j \in 1 .. Len(responses'[ch]) :
               responses'[ch][i] = responses'[ch][j] => i = j
    <3>1. /\ Len(rs) \in Nat /\ Len(responses'[ch]) = Len(rs) + 1 /\ ChannelOf[q] = ch
          /\ responses'[ch][Len(rs) + 1] = q
          /\ \A k \in 1 .. Len(rs) : responses'[ch][k] = rs[k]
      BY <1>3, ServeFacts
    <3>2. /\ \A i, j \in 1 .. Len(rs) : rs[i] = rs[j] => i = j
          /\ \A i \in 1 .. Len(rs) : ChannelOf[rs[i]] = ch
      BY DEF ResponsesOnce
    <3>3. \A i \in 1 .. Len(responses'[ch]) :
            \/ i \in 1 .. Len(rs) /\ responses'[ch][i] = rs[i]
            \/ i = Len(rs) + 1 /\ responses'[ch][i] = q
      BY <3>1
    <3>4. QED BY <2>2, <3>1, <3>2, <3>3
  <2>5. io[ch] # NoRead => /\ ChannelOf[io[ch].rsp] = ch
                           /\ \A i \in 1 .. Len(responses'[ch]) :
                                responses'[ch][i] # io[ch].rsp
    BY <1>3, <2>3, ServeFacts DEF ResponsesOnce
  <2>6. \A d \in Channels \ {ch} : responses'[d] = responses[d]
    BY <1>3, ServeFacts
  <2>7. QED BY <2>1, <2>4, <2>5, <2>6 DEF ResponsesOnce
<1>4. ASSUME NEW ch \in Channels, CloseChannel(ch) PROVE ResponsesOnce'
  BY <1>4, CloseFacts DEF ResponsesOnce
<1>5. CASE UNCHANGED <<responses, io>>
  BY <1>5 DEF ResponsesOnce
<1>6. QED
  BY <1>1, <1>2, <1>3, <1>4, <1>5, ResponsesFrame DEF IoStep, ServeRequest

\* A response that has come off the wire does not come again.
LEMMA ArrivedStep ==
  ASSUME Inv, [Next]_vars, NEW c \in Calls, Arrived(c) PROVE Arrived(c)'
<1> USE CallAssumption DEF Inv
<1> DEFINE own == ChannelOf[c]
<1>0. c \in answered /\ own \in Channels
  BY DEF Arrived
<1>1. ASSUME NEW ch \in Channels, ReadResponse(ch) PROVE Arrived(c)'
  <2>1. CASE own = ch
    <3>1. /\ Len(responses[ch]) \in Nat \ {0} /\ UNCHANGED answered
          /\ Len(responses'[ch]) = Len(responses[ch]) - 1
          /\ \A k \in 1 .. Len(responses[ch]) - 1 : responses'[ch][k] = responses[ch][k + 1]
      BY <1>1, ReadFacts
    <3>2. \A k \in 1 .. Len(responses'[ch]) :
            /\ k + 1 \in 1 .. Len(responses[ch])
            /\ responses'[ch][k] = responses[ch][k + 1]
      BY <3>1
    <3>3. \A k \in 1 .. Len(responses[ch]) : responses[ch][k] # c
      BY <2>1 DEF Arrived
    <3>4. QED BY <1>0, <2>1, <3>1, <3>2, <3>3 DEF Arrived
  <2>2. CASE own # ch
    BY <1>0, <1>1, <2>2, ReadFacts DEF Arrived
  <2>3. QED BY <2>1, <2>2
<1>2. ASSUME NEW ch \in Channels, ServeRequest(ch), ~UNCHANGED responses PROVE Arrived(c)'
  <2>1. CASE own = ch
    BY <1>0, <1>2, <2>1, ServeFacts DEF Arrived
  <2>2. CASE own # ch
    BY <1>0, <1>2, <2>2, ServeFacts DEF Arrived
  <2>3. QED BY <2>1, <2>2
<1>3. ASSUME NEW ch \in Channels, CloseChannel(ch) PROVE Arrived(c)'
  BY <1>0, <1>3, CloseFacts DEF Arrived
<1>4. CASE UNCHANGED responses /\ answered \subseteq answered'
  BY <1>4 DEF Arrived
<1>5. QED
  BY <1>1, <1>2, <1>3, <1>4, ResponsesFrame, IoFrame, AnsweredStays DEF IoStep

\* What Object.notify does to the tasks.
LEMMA NotifyFacts ==
  ASSUME TypeOK, NEW c \in Calls, Notify(c)
  PROVE  /\ \A d \in Calls \ {c} : task'[d] = task[d]
         /\ task'[c] = task[c] \/ (task[c] = "parked" /\ task'[c] = "woken")
  BY DEF Notify, TypeOK

\* What the maps have under a number that one call has is that call's.
LEMMA OwnFacts ==
  ASSUME Inv, Residue, NEW c \in Unshared
  PROVE  /\ c \in Calls /\ ChannelOf[c] \in Channels /\ SeqOf[c] \in Seqs
         /\ \A d \in Calls : SeqOf[d] = SeqOf[c] => d = c
         /\ Entry(c) => threadObjectMap[SeqOf[c]] = c
         /\ Stored(c) => responseMap[SeqOf[c]] = c
<1>1. /\ c \in Calls /\ ChannelOf[c] \in Channels /\ SeqOf[c] \in Seqs
      /\ \A d \in Calls : SeqOf[d] = SeqOf[c] => d = c
  BY CallAssumption, SeqIsKey DEF Unshared
<1>2. /\ threadObjectMap[SeqOf[c]] \in Calls \cup {NoCall}
      /\ responseMap[SeqOf[c]] \in Calls \cup {NoCall}
  BY <1>1 DEF Inv, TypeOK
<1>3. QED BY <1>1, <1>2 DEF Inv, Residue, Entry, Stored, ObjectsKeyed, ResponsesKeyed

\* A response is read by the event loop of its channel, and has then arrived.
LEMMA ReadIsArrived ==
  ASSUME Inv, Residue, NEW ch \in Channels, io[ch] # NoRead
  PROVE  /\ io[ch].rsp \in Calls /\ ChannelOf[io[ch].rsp] = ch
         /\ Arrived(io[ch].rsp)
<1>1. io[ch].rsp \in answered /\ ChannelOf[io[ch].rsp] = ch
      /\ \A i \in 1 .. Len(responses[ch]) : responses[ch][i] # io[ch].rsp
  BY DEF Inv, ResponsesKeyed, Residue, ResponsesOnce
<1>2. QED BY <1>1 DEF Arrived, Inv, TypeOK

\* The first of the responses on their way has not arrived.
LEMMA HeadIsUnderway ==
  ASSUME Inv, Residue, NEW ch \in Channels, ReadResponse(ch)
  PROVE  /\ Head(responses[ch]) \in Calls /\ ChannelOf[Head(responses[ch])] = ch
         /\ ~Arrived(Head(responses[ch]))
<1>1. responses[ch] \in Seq(Calls) /\ responses[ch] # <<>>
  BY DEF ReadResponse, Inv, TypeOK
<1>2. Head(responses[ch]) = responses[ch][1] /\ 1 \in 1 .. Len(responses[ch])
  BY <1>1
<1>3. QED BY <1>1, <1>2 DEF Arrived, Residue, ResponsesOnce

\* What is not registered has left nothing anywhere.
LEMMA Unregistered ==
  ASSUME NEW c \in Calls, Settled(c), c \notin Registered
  PROVE  /\ ~Entry(c) /\ ~Stored(c) /\ future[c] = NoCall
         /\ \A pc \in {"matched", "stored", "taken"} : ~ReadsAt(c, pc)
  BY DEF Settled, Entered, Taken

\* A step that is not about call c.
LEMMA Aside ==
  ASSUME NEW c \in Calls, Settled(c), Arrived(c) => Arrived(c)',
         task'[c] = task[c], caller'[c] = caller[c], future'[c] = future[c],
         Entry(c)' <=> Entry(c), Stored(c)' <=> Stored(c),
         \A pc \in {"matched", "stored", "taken"} : ReadsAt(c, pc)' <=> ReadsAt(c, pc)
  PROVE  Settled(c)'
<1>1. c \in Registered' <=> c \in Registered
  BY DEF Registered
<1>2. QED BY <1>1 DEF Settled, Awaited, Entered, Taken

LEMMA CallAside ==
  ASSUME Inv, Residue, NEW c \in Unshared, Arrived(c) => Arrived(c)', NEW d \in Calls \ {c},
         Push(d) \/ Submit(d) \/ CallerStep(d) \/ TaskStep(d) \/ WakeSpuriously(d)
  PROVE  Settled(c)'
<1>1. /\ task'[c] = task[c] /\ caller'[c] = caller[c] /\ future'[c] = future[c]
      /\ threadObjectMap'[SeqOf[c]] = threadObjectMap[SeqOf[c]]
      /\ responseMap'[SeqOf[c]] = responseMap[SeqOf[c]]
      /\ io' = io
  <2>1. c \in Calls /\ d \in Calls /\ c # d /\ SeqOf[d] # SeqOf[c]
        /\ SeqOf[c] \in Seqs /\ TypeOK
    BY OwnFacts DEF Inv
  <2>2. CASE Push(d) \/ Submit(d) \/ Return(d) \/ Expire(d) \/ NotifyExpired(d)
    BY <2>1, <2>2 DEF TypeOK, Push, Submit, Return, Expire, NotifyExpired, Step, Notify, maps
  <2>3. CASE StartTask(d) \/ SendRequest(d) \/ CheckThreadObject(d) \/ Wait(d)
             \/ WakeSpuriously(d)
    BY <2>1, <2>3 DEF TypeOK, StartTask, SendRequest, CheckThreadObject, Wait, WakeSpuriously,
       Step, maps
  <2>4. CASE RemoveThreadObject(d)
    BY <2>1, <2>4 DEF TypeOK, RemoveThreadObject, Step
  <2>5. CASE PutThreadObject(d)
    BY <2>1, <2>5 DEF TypeOK, PutThreadObject, Step
  <2>6. CASE GetResponse(d)
    BY <2>1, <2>6 DEF TypeOK, GetResponse, Step
  <2>7. QED BY <2>2, <2>3, <2>4, <2>5, <2>6 DEF CallerStep, TaskStep
<1>2. QED BY <1>1, OwnFacts, Aside DEF Residue, Entry, Stored, ReadsAt

\* The event loop of a channel reads the response of another call.
LEMMA LoopAside ==
  ASSUME Inv, Residue, NEW c \in Unshared, Arrived(c) => Arrived(c)', NEW ch \in Channels,
         IoStep(ch), ReadResponse(ch) => Head(responses[ch]) # c,
         ~ReadResponse(ch) => io[ch].rsp # c
  PROVE  Settled(c)'
<1> DEFINE r == io[ch].rsp
<1>0. c \in Calls /\ SeqOf[c] \in Seqs /\ ChannelOf[c] \in Channels
      /\ \A d \in Calls : SeqOf[d] = SeqOf[c] => d = c
  BY OwnFacts
<1>1. CASE ReadResponse(ch)
  <2>1. /\ UNCHANGED <<threads, maps>> /\ io[ch] = NoRead
        /\ io'[ch] = NoRead \/ io'[ch] = Reading("matched", Head(responses[ch]), NoCall)
        /\ \A d \in Channels \ {ch} : io'[d] = io[d]
    BY <1>1 DEF ReadResponse, Inv, TypeOK
  <2>2. \A pc \in {"matched", "stored", "taken"} : ReadsAt(c, pc)' <=> ReadsAt(c, pc)
    BY <1>0, <1>1, <2>1 DEF ReadsAt, NoRead, Reading
  <2>3. QED BY <1>0, <2>1, <2>2, Aside DEF Residue, Entry, Stored, threads, maps
<1>2. CASE ~ReadResponse(ch)
  <2>1. io[ch] # NoRead /\ r \in Calls /\ SeqOf[r] # SeqOf[c]
    <3>1. io[ch] # NoRead
      BY <1>2 DEF IoStep, StoreResponse, TakeThreadObject, NotifyWaiter, NoRead, Reading
    <3>2. QED BY <1>0, <1>2, <3>1, ReadIsArrived
  <2>2. /\ \A d \in Channels \ {ch} : io'[d] = io[d]
        /\ io'[ch] = NoRead \/ io'[ch].rsp = r
    BY <1>2, IoFrame DEF IoStep, Inv
  <2>3. \A pc \in {"matched", "stored", "taken"} : ReadsAt(c, pc)' <=> ReadsAt(c, pc)
    BY <1>0, <1>2, <2>2 DEF ReadsAt, NoRead, Reading
  <2>4. NotifyWaiter(ch) => io[ch].obj \in Calls /\ io[ch].obj # c
    BY <2>1 DEF NotifyWaiter, Residue, ObjectsKeyed
  <2>5. /\ task'[c] = task[c] /\ caller'[c] = caller[c] /\ future'[c] = future[c]
        /\ threadObjectMap'[SeqOf[c]] = threadObjectMap[SeqOf[c]]
        /\ responseMap'[SeqOf[c]] = responseMap[SeqOf[c]]
    BY <1>0, <1>2, <2>1, <2>4 DEF IoStep, StoreResponse, TakeThreadObject, NotifyWaiter, Notify,
       Inv, TypeOK, threads, maps
  <2>6. QED BY <1>0, <2>3, <2>5, Aside DEF Residue, Entry, Stored
<1>3. QED BY <1>1, <1>2

\* The steps of the call itself.
LEMMA CallSettled ==
  ASSUME Inv, Residue, NEW c \in Unshared, Arrived(c) => Arrived(c)',
         Push(c) \/ Submit(c) \/ CallerStep(c) \/ TaskStep(c) \/ WakeSpuriously(c)
  PROVE  Settled(c)'
<1> DEFINE Same == /\ Stored(c)' <=> Stored(c)
                   /\ future'[c] = future[c]
                   /\ \A pc \in {"matched", "stored", "taken"} : ReadsAt(c, pc)' <=> ReadsAt(c, pc)
<1>0. c \in Calls /\ SeqOf[c] \in Seqs /\ Settled(c) /\ TypeOK
  BY OwnFacts DEF Residue, Inv
<1>1. CASE Push(c) \/ Submit(c) \/ StartTask(c) \/ SendRequest(c) \/ CheckThreadObject(c)
           \/ PutThreadObject(c)
  <2>1. c \notin Registered
    BY <1>0, <1>1 DEF Push, Submit, StartTask, SendRequest, CheckThreadObject, PutThreadObject,
       Step, Inv, ThreadsAgree, Registered
  <2>2. /\ ~Entry(c) /\ ~Stored(c) /\ future[c] = NoCall
        /\ \A pc \in {"matched", "stored", "taken"} : ~ReadsAt(c, pc)
    BY <1>0, <2>1, Unregistered
  <2>3. Same
    BY <1>1 DEF Push, Submit, StartTask, SendRequest, CheckThreadObject, PutThreadObject,
       Stored, ReadsAt, maps
  <2>4. \/ task'[c] \notin {"registered", "parked", "woken", "finished"} /\ ~Entry(c)'
        \/ task'[c] = "registered" /\ Entry(c)'
    <3>1. CASE PutThreadObject(c)
      BY <1>0, <3>1, CallAssumption DEF PutThreadObject, Step, TypeOK, Entry
    <3>2. CASE Push(c)
      BY <1>0, <2>1, <2>2, <3>2 DEF Push, Registered, Entry, maps
    <3>3. CASE Submit(c) \/ StartTask(c) \/ SendRequest(c) \/ CheckThreadObject(c)
      BY <1>0, <2>2, <3>3 DEF Submit, StartTask, SendRequest, CheckThreadObject, Step, TypeOK,
         Entry, maps
    <3>4. QED BY <1>1, <3>1, <3>2, <3>3
  <2>5. QED BY <1>0, <2>2, <2>3, <2>4 DEF Settled, Awaited, Entered, Taken, Registered
<1>2. CASE Wait(c) \/ WakeSpuriously(c)
  <2>1. /\ Same /\ (Entry(c)' <=> Entry(c)) /\ caller'[c] = caller[c]
        /\ \/ task[c] = "registered" /\ task'[c] = "parked"
           \/ task[c] = "parked" /\ task'[c] = "woken" /\ SpuriousWakeups
    BY <1>0, <1>2 DEF Wait, WakeSpuriously, Step, TypeOK, Entry, Stored, ReadsAt, maps
  <2>2. QED BY <1>0, <2>1 DEF Settled, Awaited, Entered, Taken, Registered
<1>3. CASE GetResponse(c)
  <2>1. /\ task[c] = "woken" /\ task'[c] = "finished" /\ caller'[c] = caller[c]
        /\ ~Stored(c)' /\ (future'[c] # NoCall => Stored(c)) /\ (Entry(c)' <=> Entry(c))
        /\ \A pc \in {"matched", "stored", "taken"} : ReadsAt(c, pc)' <=> ReadsAt(c, pc)
    BY <1>0, <1>3 DEF GetResponse, Step, TypeOK, Entry, Stored, ReadsAt
  <2>2. QED BY <1>0, <2>1 DEF Settled, Awaited, Entered, Taken, Registered
<1>4. CASE CallerStep(c)
  <2>1. /\ Same /\ caller'[c] # "waiting" /\ (Entry(c)' => Entry(c))
        /\ task'[c] = task[c] \/ (task[c] = "parked" /\ task'[c] = "woken" /\ caller'[c] = "notified")
        /\ caller[c] # "notified" \/ ~Entry(c)'
    BY <1>0, <1>4 DEF CallerStep, Return, Expire, NotifyExpired, RemoveThreadObject, Step, Notify,
       TypeOK, Entry, Stored, ReadsAt, maps
  <2>2. QED BY <1>0, <2>1 DEF Settled, Awaited, Entered, Taken, Registered
<1>5. QED BY <1>1, <1>2, <1>3, <1>4 DEF TaskStep

\* The event loop of the channel reads the response of the call.
LEMMA LoopSettled ==
  ASSUME Inv, Residue, NEW c \in Unshared, Arrived(c) => Arrived(c)', NEW ch \in Channels,
         IoStep(ch), ReadResponse(ch) => Head(responses[ch]) = c,
         ~ReadResponse(ch) => io[ch].rsp = c
  PROVE  Settled(c)'
<1>0. c \in Calls /\ SeqOf[c] \in Seqs /\ Settled(c) /\ TypeOK
  BY OwnFacts DEF Residue, Inv
<1>1. CASE ReadResponse(ch)
  <2>1. ~Arrived(c) /\ ChannelOf[c] = ch
    BY <1>1, HeadIsUnderway
  <2>2. ~Stored(c) /\ future[c] = NoCall
    BY <1>0, <2>1 DEF Settled, Taken
  <2>3. /\ UNCHANGED <<threads, maps>>
        /\ io'[ch] = NoRead \/ (io'[ch] = Reading("matched", c, NoCall) /\ Entry(c))
    BY <1>0, <1>1 DEF ReadResponse, TypeOK, Entry
  <2>4. /\ \A pc \in {"stored", "taken"} : ~ReadsAt(c, pc)'
        /\ ReadsAt(c, "matched")' => Entry(c)
    BY <2>1, <2>3 DEF ReadsAt, NoRead, Reading
  <2>5. QED BY <1>0, <2>2, <2>3, <2>4
            DEF Settled, Awaited, Entered, Taken, Registered, Entry, Stored, threads, maps
<1>2. CASE ~ReadResponse(ch)
  <2>1. Arrived(c) /\ ChannelOf[c] = ch
    <3>1. io[ch] # NoRead
      BY <1>2 DEF IoStep, StoreResponse, TakeThreadObject, NotifyWaiter, NoRead, Reading
    <3>2. QED BY <1>2, <3>1, ReadIsArrived
  <2>2. CASE StoreResponse(ch)
    <3>1. ReadsAt(c, "matched")
      BY <1>2, <2>1, <2>2 DEF StoreResponse, ReadsAt
    <3>2. /\ UNCHANGED <<threads, threadObjectMap>> /\ io'[ch] = Reading("stored", c, NoCall)
      BY <1>0, <1>2, <2>2 DEF StoreResponse, TypeOK
    <3>3. /\ \A pc \in {"matched", "taken"} : ~ReadsAt(c, pc)'
          /\ ReadsAt(c, "stored")'
      BY <2>1, <3>2 DEF ReadsAt, Reading
    <3>4. QED BY <1>0, <2>1, <3>1, <3>2, <3>3
              DEF Settled, Awaited, Entered, Taken, Registered, Entry, threads
  <2>3. CASE TakeThreadObject(ch)
    <3>1. ReadsAt(c, "stored")
      BY <1>2, <2>1, <2>3 DEF TakeThreadObject, ReadsAt
    <3>2. /\ UNCHANGED <<threads, responseMap>> /\ ~Entry(c)'
          /\ io'[ch] = NoRead \/ io'[ch].pc = "taken"
      BY <1>0, <1>2, <2>3 DEF TakeThreadObject, TypeOK, Entry, Reading
    <3>3. \A pc \in {"matched", "stored"} : ~ReadsAt(c, pc)'
      BY <2>1, <3>2 DEF ReadsAt, NoRead, Reading
    <3>4. QED BY <1>0, <2>1, <3>1, <3>2, <3>3
              DEF Settled, Awaited, Entered, Taken, Registered, Stored, threads
  <2>4. CASE NotifyWaiter(ch)
    <3>1. ReadsAt(c, "taken")
      BY <1>2, <2>1, <2>4 DEF NotifyWaiter, ReadsAt
    <3>2. io[ch].obj = c
      BY <1>2, <2>4, OwnFacts DEF NotifyWaiter, Residue, ObjectsKeyed
    <3>3. /\ UNCHANGED <<caller, future, maps>> /\ io'[ch] = NoRead
          /\ task'[c] = task[c] \/ (task[c] = "parked" /\ task'[c] = "woken")
      BY <1>0, <2>4, <3>2 DEF NotifyWaiter, Notify, TypeOK
    <3>4. \A pc \in {"matched", "stored", "taken"} : ~ReadsAt(c, pc)'
      BY <2>1, <3>3 DEF ReadsAt, NoRead, Reading
    <3>5. QED BY <1>0, <2>1, <3>1, <3>3, <3>4
              DEF Settled, Awaited, Entered, Taken, Registered, Entry, Stored, maps
  <2>5. QED BY <1>2, <2>2, <2>3, <2>4 DEF IoStep
<1>3. QED BY <1>1, <1>2

LEMMA SettledStep == ASSUME Inv, Residue, [Next]_vars, NEW c \in Unshared PROVE Settled(c)'
<1>0. c \in Calls /\ Settled(c) /\ (Arrived(c) => Arrived(c)')
  BY OwnFacts, ArrivedStep DEF Residue
<1>1. ASSUME NEW d \in Calls,
             Push(d) \/ Submit(d) \/ CallerStep(d) \/ TaskStep(d) \/ WakeSpuriously(d)
      PROVE  Settled(c)'
  BY <1>0, <1>1, CallAside, CallSettled
<1>2. ASSUME NEW ch \in Channels, IoStep(ch) PROVE Settled(c)'
  <2>1. CASE (ReadResponse(ch) => Head(responses[ch]) # c) /\ (~ReadResponse(ch) => io[ch].rsp # c)
    BY <1>0, <1>2, <2>1, LoopAside
  <2>2. CASE (ReadResponse(ch) => Head(responses[ch]) = c) /\ (~ReadResponse(ch) => io[ch].rsp = c)
    BY <1>0, <1>2, <2>2, LoopSettled
  <2>3. QED BY <2>1, <2>2
<1>3. ASSUME NEW ch \in Channels, ServeRequest(ch) \/ CloseChannel(ch) PROVE Settled(c)'
  BY <1>0, <1>3, Aside DEF ServeRequest, CloseChannel, Entry, Stored, ReadsAt, threads, maps
<1>4. CASE UNCHANGED vars
  BY <1>0, <1>4, Aside DEF Entry, Stored, ReadsAt, vars, threads, maps
<1>5. QED BY <1>1, <1>2, <1>3, <1>4 DEF Next

LEMMA ResidueStep == Inv /\ Residue /\ [Next]_vars => Residue'
  BY ObjectsStep, OnceStep, SettledStep DEF Inv, Residue

LEMMA ResidueInit == Init => Residue
<1> SUFFICES ASSUME Init PROVE Residue
  OBVIOUS
<1> USE CallAssumption, SeqIsKey
<1>1. ObjectsKeyed /\ ResponsesOnce
  BY DEF Init, ObjectsKeyed, ResponsesOnce, NoRead, Reading
<1>2. ASSUME NEW c \in Unshared PROVE Settled(c)
  <2>1. c \in Calls /\ ChannelOf[c] \in Channels
    BY DEF Unshared
  <2>2. QED BY <2>1 DEF Init, Settled, Awaited, Entered, Taken, Entry, Stored, ReadsAt, NoRead, Reading
<1>3. QED BY <1>1, <1>2 DEF Residue

LEMMA Residual == Spec => [](Inv /\ Residue)
<1>1. Init => Inv /\ Residue
  BY InvInit, ResidueInit
<1>2. Inv /\ Residue /\ [Next]_vars => (Inv /\ Residue)'
  BY InvStep, ResidueStep
<1>3. QED BY <1>1, <1>2, PTL DEF Spec

\* channelRead0 discards no response that somebody waits for, if the number of the
\* request is its own, whatever numbers others have and however threads wake up.
THEOREM KeepsAwaited == Spec => KeepsAwaitedResponse
<1> DEFINE Kept == \A ch \in Channels, c \in Unshared :
             Discards(ch, c) => ~(task[c] \in {"registered", "parked"} /\ caller[c] = "waiting")
<1>1. Inv /\ Residue /\ [Next]_vars => [Kept]_vars
  <2> SUFFICES ASSUME Inv, Residue, NEW ch \in Channels, NEW c \in Unshared, Discards(ch, c),
                      task[c] \in {"registered", "parked"}, caller[c] = "waiting"
               PROVE  FALSE
    OBVIOUS
  <2>1. ReadResponse(ch) /\ Head(responses[ch]) = c /\ io'[ch] = NoRead
    BY DEF Discards
  <2>2. ~Arrived(c)
    BY <2>1, HeadIsUnderway
  <2>3. ~Entry(c)
    BY <2>1 DEF ReadResponse, Inv, TypeOK, Entry, NoRead, Reading
  <2>4. QED BY <2>2, <2>3 DEF Residue, Settled, Awaited
<1>2. QED BY <1>1, Residual, PTL DEF Spec, KeepsAwaitedResponse

\* A call that gets an answer leaves neither a response nor an entry under its number,
\* if that is its own, whatever numbers others have and however threads wake up.
THEOREM Residues == Spec => []ResidueOnlyOfUnanswered
<1>1. Inv /\ Residue => ResidueOnlyOfUnanswered
  <2> SUFFICES ASSUME Inv, Residue, Quiet, NEW c \in Unshared
               PROVE  /\ Stored(c) => Unanswered(c)
                      /\ Entry(c) => Unanswered(c) /\ (task[c] = "parked" \/ SpuriousWakeups)
    BY DEF ResidueOnlyOfUnanswered, Stored, Entry
  <2>1. /\ Settled(c) /\ ~ReadsAt(c, "stored")
        /\ caller[c] \in {"idle"} \cup Done /\ task[c] \in {"none", "parked"} \cup Over
    BY OwnFacts DEF Residue, Quiet, ReadsAt, NoRead, Reading
  <2>2. c \in Registered =>
          /\ task[c] = "parked" \/ task[c] = "finished"
          /\ caller[c] = "timedOut" \/ (caller[c] = "returned" /\ task[c] = "finished")
    BY <2>1, OwnFacts DEF Inv, ThreadsAgree, Registered, Done, Over
  <2>3. Stored(c) => c \in Registered /\ future[c] = NoCall
    BY <2>1 DEF Settled, Taken
  <2>4. Entry(c) => /\ c \in Registered /\ future[c] = NoCall
                    /\ task[c] = "finished" => SpuriousWakeups
    BY <2>1, <2>2 DEF Settled, Entered, Taken
  <2>5. QED BY <2>2, <2>3, <2>4 DEF Unanswered
<1>2. QED BY <1>1, Residual, PTL
-------------------------------------------------------------------------------
(* Delivery: the response is there when the thread that waits for it wakes up. *)

\* Without spurious wakeups a pool thread that wakes up before its caller has
\* timed out finds its response.
LEMMA StoredStep ==
  ASSUME UniqueSeqs, ~SpuriousWakeups
  PROVE  Inv /\ Residue /\ StoredUntilTaken /\ [Next]_vars => StoredUntilTaken'
<1> SUFFICES ASSUME Inv, Residue, StoredUntilTaken, [Next]_vars PROVE StoredUntilTaken'
  OBVIOUS
<1> USE CallAssumption, SeqIsKey, Distinct DEF Inv, Residue
<1>0. \A ch \in Channels : io[ch] # NoRead =>
        io[ch].rsp \in Calls /\ caller[io[ch].rsp] # "idle"
  BY DEF ResponsesKeyed, RequestsOnce, Written
<1>1. ASSUME NEW c \in Calls, Push(c) \/ Submit(c) PROVE StoredUntilTaken'
  <2>1. /\ UNCHANGED <<io, responseMap, future>> /\ caller[c] = "idle"
        /\ caller'[c] = "waiting" => task'[c] = "queued"
        /\ \A d \in Calls \ {c} : caller'[d] = caller[d] /\ task'[d] = task[d]
    BY <1>1 DEF Push, Submit, Step, TypeOK, maps
  <2>2. QED BY <1>0, <2>1 DEF StoredUntilTaken, NoRead, Reading
<1>2. ASSUME NEW c \in Calls, CallerStep(c) PROVE StoredUntilTaken'
  <2>1. /\ UNCHANGED <<io, responseMap, future>>
        /\ \A d \in Calls : caller'[d] = "waiting" =>
             caller[d] = "waiting" /\ (task'[d] = task[d])
    BY <1>2 DEF CallerStep, Return, Expire, NotifyExpired, RemoveThreadObject, Step, Notify,
       TypeOK, maps
  <2>2. QED BY <1>0, <2>1 DEF StoredUntilTaken, NoRead, Reading
<1>3. ASSUME NEW c \in Calls, TaskStep(c), ~GetResponse(c) PROVE StoredUntilTaken'
  <2>1. UNCHANGED <<caller, io, responseMap, future>>
    BY <1>3 DEF TaskStep, StartTask, SendRequest, CheckThreadObject, PutThreadObject, Wait,
       maps
  <2>2. \A d \in Calls : \/ task'[d] = task[d]
                         \/ /\ task[d] \notin Over
                            /\ task'[d] \notin {"woken", "finished"}
    BY <1>3 DEF TaskStep, StartTask, SendRequest, CheckThreadObject, PutThreadObject, Wait,
       Step, TypeOK, Over
  <2>3. QED BY <1>0, <2>1, <2>2 DEF StoredUntilTaken, NoRead, Reading
<1>4. ASSUME NEW c \in Calls, GetResponse(c) PROVE StoredUntilTaken'
  <2>1. /\ UNCHANGED <<caller, io>> /\ task[c] = "woken" /\ task'[c] = "finished"
        /\ future'[c] = responseMap[SeqOf[c]]
        /\ \A d \in Calls \ {c} : /\ task'[d] = task[d] /\ future'[d] = future[d]
                                  /\ responseMap'[SeqOf[d]] = responseMap[SeqOf[d]]
    BY <1>4 DEF GetResponse, Step, TypeOK
  <2>2. QED BY <1>0, <2>1 DEF StoredUntilTaken, Over, NoRead, Reading
<1>5. ASSUME NEW ch \in Channels, ReadResponse(ch) PROVE StoredUntilTaken'
  <2>1. /\ UNCHANGED <<caller, task, future, responseMap>>
        /\ \A d \in Channels : io'[d] = io[d] \/ io'[d].pc = "matched"
    BY <1>5 DEF ReadResponse, Reading, TypeOK, threads, maps
  <2>2. QED BY <2>1 DEF StoredUntilTaken
<1>6. ASSUME NEW ch \in Channels, StoreResponse(ch) PROVE StoredUntilTaken'
  <2> DEFINE r == io[ch].rsp
  <2>1. r \in Calls /\ UNCHANGED <<caller, task, future>>
    BY <1>0, <1>6 DEF StoreResponse, NoRead, Reading, threads
  <2>2. /\ responseMap'[SeqOf[r]] = r
        /\ \A d \in Calls \ {r} : responseMap'[SeqOf[d]] = responseMap[SeqOf[d]]
    BY <1>6, <2>1 DEF StoreResponse, TypeOK
  <2>3. io'[ch].rsp = r /\ \A d \in Channels \ {ch} : io'[d] = io[d]
    BY <1>6 DEF StoreResponse, Reading, TypeOK
  <2>4. \A d \in Calls : responseMap[SeqOf[d]] = d => responseMap'[SeqOf[d]] = d
    BY <2>2
  <2>5. QED BY <1>0, <2>1, <2>2, <2>3, <2>4 DEF StoredUntilTaken, NoRead, Reading
<1>7. ASSUME NEW ch \in Channels, TakeThreadObject(ch) PROVE StoredUntilTaken'
  <2>1. /\ UNCHANGED <<caller, task, future, responseMap>> /\ io[ch].pc = "stored"
        /\ \A d \in Channels : io'[d] = io[d] \/ io'[d] = NoRead \/
                               (d = ch /\ io'[d].rsp = io[d].rsp)
    BY <1>7 DEF TakeThreadObject, Reading, TypeOK, threads
  <2>2. QED BY <2>1 DEF StoredUntilTaken, NoRead, Reading
<1>8. ASSUME NEW ch \in Channels, NotifyWaiter(ch) PROVE StoredUntilTaken'
  <2> DEFINE c == io[ch].rsp
  <2>1. c \in Calls /\ io[ch].obj = c
    BY <1>0, <1>8 DEF NotifyWaiter, ObjectsKeyed, NoRead, Reading
  <2>2. /\ UNCHANGED <<caller, future, responseMap>> /\ io[ch].pc = "taken"
        /\ \A d \in Channels : io'[d] = io[d] \/ io'[d] = NoRead
        /\ \A d \in Calls \ {c} : task'[d] = task[d]
        /\ task'[c] = task[c] \/ (task[c] = "parked" /\ task'[c] = "woken")
    BY <1>8, <2>1 DEF NotifyWaiter, Notify, TypeOK, maps
  <2>3. caller[c] = "waiting" /\ task[c] \notin Over => responseMap[SeqOf[c]] = c
    BY <2>2 DEF StoredUntilTaken
  <2>4. QED BY <1>0, <2>1, <2>2, <2>3 DEF StoredUntilTaken, NoRead, Reading, Over
<1>9. ASSUME NEW ch \in Channels, ServeRequest(ch) \/ CloseChannel(ch) PROVE StoredUntilTaken'
  BY <1>9 DEF ServeRequest, CloseChannel, StoredUntilTaken, threads, maps
<1>10. CASE UNCHANGED vars
  BY <1>10 DEF vars, threads, maps, StoredUntilTaken
<1>11. QED
  BY <1>1, <1>2, <1>3, <1>4, <1>5, <1>6, <1>7, <1>8, <1>9, <1>10
  DEF Next, IoStep, WakeSpuriously

LEMMA DeliveryStep ==
  ASSUME UniqueSeqs, ~SpuriousWakeups
  PROVE  Inv /\ Delivery /\ [Next]_vars => (Inv /\ Delivery)'
  BY InvStep, ResidueStep, StoredStep DEF Delivery

LEMMA DeliveryInit == Init => Delivery
<1>1. Init => StoredUntilTaken
  BY CallAssumption DEF Init, StoredUntilTaken, NoRead, Reading
<1>2. QED BY <1>1, ResidueInit DEF Delivery

\* The response of a call is where its pool thread will look for it, once, from the
\* server's answer until the thread takes it or the call times out, if numbers are
\* unique and no thread wakes up by itself.
THEOREM Delivered == ASSUME UniqueSeqs, ~SpuriousWakeups PROVE Spec => [](Inv /\ Delivery)
<1>1. Init => Inv /\ Delivery
  BY InvInit, DeliveryInit
<1>2. QED BY <1>1, DeliveryStep, PTL DEF Spec

\* With unique numbers and a JVM that does not wake threads spuriously, write
\* returns null for a timeout only, never for a response that came.
THEOREM NeverEmpty ==
  ASSUME UniqueSeqs, ~SpuriousWakeups PROVE Spec => []NoEmptyAnswer
<1>1. Init => Inv /\ Delivery /\ NoEmptyAnswer
  BY InvInit, DeliveryInit DEF Init, NoEmptyAnswer
<1>2. Inv /\ Delivery /\ NoEmptyAnswer /\ [Next]_vars => (Inv /\ Delivery /\ NoEmptyAnswer)'
  <2> SUFFICES ASSUME Inv, Delivery, NoEmptyAnswer, [Next]_vars
               PROVE  (Inv /\ Delivery /\ NoEmptyAnswer)'
    OBVIOUS
  <2>1. Inv' /\ Delivery'
    BY DeliveryStep
  <2>2. NoEmptyAnswer'
    <3> USE CallAssumption DEF Inv, TypeOK, ThreadsAgree, Step
    <3>1. ASSUME NEW c \in Calls, Return(c) PROVE NoEmptyAnswer'
      BY <3>1 DEF Return, Delivery, StoredUntilTaken, NoEmptyAnswer, Over
    <3>2. ASSUME NEW c \in Calls, GetResponse(c) PROVE NoEmptyAnswer'
      BY <3>2 DEF GetResponse, NoEmptyAnswer
    <3>3. ASSUME NEW c \in Calls, Push(c) PROVE NoEmptyAnswer'
      BY <3>3 DEF Push, NoEmptyAnswer
    <3>4. ASSUME NEW c \in Calls, Submit(c) \/ Expire(c) \/ NotifyExpired(c)
                                  \/ RemoveThreadObject(c)
          PROVE NoEmptyAnswer'
      BY <3>4 DEF Submit, Expire, NotifyExpired, RemoveThreadObject, NoEmptyAnswer
    <3>5. CASE UNCHANGED <<caller, future>>
      BY <3>5 DEF NoEmptyAnswer
    <3>6. QED
      BY <3>1, <3>2, <3>3, <3>4, <3>5 DEF Next, vars, threads, CallerStep, TaskStep,
         StartTask, SendRequest, CheckThreadObject, PutThreadObject, Wait, WakeSpuriously,
         IoStep, ReadResponse, StoreResponse, TakeThreadObject, NotifyWaiter,
         ServeRequest, CloseChannel
  <2>3. QED BY <2>1, <2>2
<1>3. QED BY <1>1, <1>2, PTL DEF Spec
-------------------------------------------------------------------------------
(* write implements RpcContract. *)

\* Whatever the threads and event loops do, a call made with a number of its own
\* comes back once, and with its own answer or none.
THEOREM Implements == ASSUME UniqueSeqs PROVE Spec => ContractSafety
<1> USE CallAssumption DEF Contract!cvars
<1>1. Init => Contract!Init
  BY DEF Init, Contract!Init
<1>2. Inv /\ Inv' /\ [Next]_vars => [Contract!Next]_(Contract!cvars)
  <2> SUFFICES ASSUME Inv, Inv', [Next]_vars PROVE [Contract!Next]_(Contract!cvars)
    OBVIOUS
  <2> USE DEF Inv, TypeOK, Step, Done
  <2>1. ASSUME NEW c \in Calls, Push(c) PROVE Contract!Tell(c)
    <3>1. c \in Pushes /\ future[c] = NoCall
      BY <2>1 DEF Push, ThreadsAgree
    <3>2. /\ caller[c] = "idle" /\ caller' = [caller EXCEPT ![c] = "returned"]
          /\ UNCHANGED <<future, answered>>
      BY <2>1 DEF Push
    <3>3. QED BY <3>1, <3>2 DEF Contract!Tell
  <2>2. ASSUME NEW c \in Calls, Submit(c) PROVE Contract!Invoke(c)
    BY <2>2 DEF Submit, Contract!Invoke, wire
  <2>3. ASSUME NEW c \in Calls, Return(c) PROVE Contract!Finish(c)
    <3>1. /\ caller[c] = "waiting" /\ UNCHANGED <<future, answered>>
          /\ \/ caller' = [caller EXCEPT ![c] = "returned"]
             \/ caller' = [caller EXCEPT ![c] = "threw"]
      BY <2>3 DEF Return, wire
    <3>2. future[c] = NoCall \/ (future[c] = c /\ c \in answered)
      BY Distinct DEF ResponsesKeyed
    <3> DEFINE answer     == [d \in Calls |-> IF caller[d] = "returned" THEN future[d]
                                               ELSE NoCall]
               nextAnswer == [d \in Calls |-> IF caller'[d] = "returned" THEN future'[d]
                                               ELSE NoCall]
    <3>3. [d \in Calls |-> IF caller'[d] = "idle" THEN "idle"
                           ELSE IF caller'[d] \in Done THEN "done" ELSE "pending"]
          = [[d \in Calls |-> IF caller[d] = "idle" THEN "idle"
                              ELSE IF caller[d] \in Done THEN "done" ELSE "pending"]
             EXCEPT ![c] = "done"]
      BY <3>1
    <3>4. CASE caller' = [caller EXCEPT ![c] = "threw"]
      <4>1. nextAnswer = answer
        BY <3>1, <3>4
      <4>2. QED BY <3>1, <3>3, <4>1 DEF Contract!Finish
    <3>5. CASE caller' = [caller EXCEPT ![c] = "returned"] /\ future[c] = NoCall
      <4>1. nextAnswer = answer
        BY <3>1, <3>5
      <4>2. QED BY <3>1, <3>3, <4>1 DEF Contract!Finish
    <3>6. CASE caller' = [caller EXCEPT ![c] = "returned"] /\ future[c] = c /\ c \in answered
      <4>1. nextAnswer = [answer EXCEPT ![c] = c]
        BY <3>1, <3>6
      <4>2. QED BY <3>1, <3>3, <3>6, <4>1 DEF Contract!Finish
    <3>7. QED BY <3>1, <3>2, <3>4, <3>5, <3>6
  <2>4. ASSUME NEW c \in Calls, RemoveThreadObject(c) PROVE Contract!Finish(c)
    BY <2>4 DEF RemoveThreadObject, Contract!Finish, wire
  <2>5. ASSUME NEW c \in Calls, Expire(c) \/ NotifyExpired(c)
        PROVE UNCHANGED Contract!cvars
    BY <2>5 DEF Expire, NotifyExpired, wire
  <2>6. ASSUME NEW c \in Calls, GetResponse(c) PROVE UNCHANGED Contract!cvars
    BY <2>6 DEF GetResponse, ThreadsAgree, wire
  <2>7. ASSUME NEW ch \in Channels, ServeRequest(ch), UNCHANGED answered
        PROVE UNCHANGED Contract!cvars
    BY <2>7 DEF ServeRequest, threads
  <2>8. ASSUME NEW ch \in Channels, ServeRequest(ch), ~UNCHANGED answered
        PROVE \E c \in Calls : Contract!Serve(c)
    <3> DEFINE c == Head(requests[ch])
    <3>1. c \in Calls /\ c = requests[ch][1] /\ 1 \in 1 .. Len(requests[ch])
      <4> HIDE DEF Inv, TypeOK
      <4>1. requests[ch] \in Seq(Calls) /\ requests[ch] # <<>>
        BY <2>8 DEF ServeRequest, Inv, TypeOK
      <4>2. QED BY <4>1
    <3>2. c \notin answered /\ caller[c] # "idle"
      BY <3>1 DEF RequestsOnce, Written
    <3>3. answered' = answered \cup {c} /\ UNCHANGED <<caller, future>>
      BY <2>8 DEF ServeRequest, threads
    <3>4. Contract!Serve(c)
      BY <3>1, <3>2, <3>3 DEF Contract!Serve
    <3>5. QED BY <3>1, <3>4
  <2>9. CASE UNCHANGED <<caller, future, answered>>
    BY <2>9
  <2>10. QED
    BY <2>1, <2>2, <2>3, <2>4, <2>5, <2>6, <2>7, <2>8, <2>9
    DEF Next, Contract!Next, vars, threads, wire, CallerStep, TaskStep, StartTask,
        SendRequest, CheckThreadObject, PutThreadObject, Wait, WakeSpuriously, IoStep,
        ReadResponse, StoreResponse, TakeThreadObject, NotifyWaiter, CloseChannel
<1>3. QED BY <1>1, <1>2, Invariance, PTL DEF Spec, ContractSafety, Contract!Safety
==============================================================================
