------------------------------ MODULE WsPipeline ------------------------------
(***************************************************************************)
(* One websocket connection of the access server: a game client writes     *)
(* messages as text (JSON) or binary frames, whole or in fragments, with   *)
(* pings in between; the server's event loop passes every frame it reads   *)
(* through WebSocketMessagePreProcess, WebsocketMsgDecoder and the handler *)
(* in one go.  WebSocketServerProtocolHandler answers pings itself.  A     *)
(* binary message is cut at the units of its wire format, two a field, so  *)
(* that an odd cut is inside a field; cut JSON is never JSON.  Charset is  *)
(* what a text of a JSON message has become when the platform's charset    *)
(* and the parser have decoded it: it is only itself if both ends agree.   *)
(***************************************************************************)
EXTENDS WsMsg

CONSTANTS
  Objects,     \* what clients send: arrays of wsMsg, or Null for what is no message,
               \* of which no part is one either, but nothing at all
  Charset,
  MaxMessages, \* bound on the messages sent
  MaxFrames    \* bound on the frames in flight

ASSUME PipelineAssumption == \A o \in Objects \ {Null} : o \in Msg /\ Writable(o)
ASSUME CharsetAssumption == Charset \in [Texts -> Texts] /\ Charset[""] = ""

VARIABLES
  open,      \* the connection; what was read before it closed is handled after
  frames,    \* frames in flight, as [type, n, from, to]: units from + 1 .. to of message n
  sent,      \* the messages begun, as [type, obj, cut, at]: units of the first frame, so far
  delivered, \* what handleProtobufMessage got, as [n, obj]
  recent     \* something was read since the timer of ReadTimeoutHandler last fired

vars == <<open, frames, sent, delivered, recent>>

\* The fields that a message has written in it.
Fields == [obj \in Objects |-> IF obj = Null THEN <<>> ELSE serializeBinary(obj)]

Size(type, obj) == IF type = "text" \/ obj = Null THEN 1 ELSE 2 * Len(Fields[obj])

SizeOf(n) == Size(sent[n].type, sent[n].obj)
Complete(n) == sent[n].at = SizeOf(n)

Init == /\ open = TRUE /\ recent = TRUE
        /\ frames = <<>> /\ sent = <<>> /\ delivered = <<>>

CanSend == open /\ Len(frames) < MaxFrames

\* The first frame of a message, up to unit to; the last one if that is all.
Begin(type, obj, to) ==
  LET n == Len(sent) + 1
  IN  /\ CanSend /\ n <= MaxMessages
      /\ n > 1 => Complete(n - 1)
      /\ sent' = Append(sent, [type |-> type, obj |-> obj,
                             cut |-> to, at |-> to])
      /\ frames' = Append(frames, [type |-> type, n |-> n, from |-> 0, to |-> to])
      /\ UNCHANGED <<open, delivered, recent>>

Continue(to) ==
  LET n == Len(sent)
  IN  /\ CanSend /\ n > 0 /\ ~Complete(n)
      /\ to \in sent[n].at + 1 .. SizeOf(n)
      /\ sent' = [sent EXCEPT ![n].at = to]
      /\ frames' = Append(frames, [type |-> "continuation", n |-> n,
                                   from |-> sent[n].at, to |-> to])
      /\ UNCHANGED <<open, delivered, recent>>

Ping == /\ CanSend
        /\ frames' = Append(frames, [type |-> "ping", n |-> 0, from |-> 0, to |-> 0])
        /\ UNCHANGED <<open, sent, delivered, recent>>

Close == /\ open' = FALSE /\ frames' = <<>>
         /\ UNCHANGED <<sent, delivered, recent>>

\* The client leaves, or its connection breaks.
Disconnect == open /\ Close
-------------------------------------------------------------------------------
\* Mutation: continuation frames are passed on as well.
TagAll(f) == IF f.type = "ping" THEN 0 ELSE IF f.type = "text" THEN 1 ELSE 2
\* Mutation: text frames are taken for control frames.
TagBinary(f) == IF f.type = "binary" THEN 2 ELSE 0
\* WebSocketMessagePreProcess.decode: the byte put before the content, 0 where the
\* frame is not passed on.
Tag(f) == CASE f.type = "text" -> 1 [] f.type = "binary" -> 2 [] OTHER -> 0

\* WebsocketMsgDecoder makes a String of a text, and JsonFormat.merge sets the fields it
\* names one by one; no text and a part of one throw.
Recoded(f) == CASE f[1] = 2 -> <<2, Charset[f[2]]>>
                [] f[1] = 3 -> <<3, <<f[2][1], Charset[f[2][2]]>> >>
                [] OTHER    -> f
FieldsOfJson ==
  [obj \in Objects |-> [i \in DOMAIN Fields[obj] |-> Recoded(Fields[obj][i])]]
FromJson(f) ==
  IF sent[f.n].obj = Null \/ f.to - f.from # SizeOf(f.n) THEN Null
  ELSE deserializeBinary(FieldsOfJson[sent[f.n].obj])

\* ProtobufDecoder: the fields of the frame, none of them if it is empty.
Payload(f) == SubSeq(Fields[sent[f.n].obj], f.from \div 2 + 1, f.to \div 2)
Cut(f) == IF sent[f.n].obj = Null THEN f.from < f.to ELSE f.from % 2 = 1 \/ f.to % 2 = 1
\* Mutation: the shared decoder reads into the message it read last.
FromBinaryInto(f) ==
  IF Cut(f) THEN Null
  ELSE deserializeBinaryFromReader(
         IF delivered = <<>> THEN EmptyMsg ELSE delivered[Len(delivered)].obj, Payload(f))
FromBinary(f) == IF Cut(f) THEN Null ELSE deserializeBinary(Payload(f))

Deliver(n, obj) == /\ delivered' = Append(delivered, [n |-> n, obj |-> toObject(obj)])
                   /\ frames' = Tail(frames) /\ recent' = TRUE
                   /\ UNCHANGED <<open, sent>>

Ignore == /\ frames' = Tail(frames) /\ recent' = TRUE
          /\ UNCHANGED <<open, sent, delivered>>

\* The exception of ProtobufDecoder reaches exceptionCaught, which closes: frames that
\* were read together with this one are still passed on, later ones are lost.
Reject == /\ open' = FALSE
          /\ \E k \in 0 .. Len(frames) - 1 : frames' = SubSeq(Tail(frames), 1, k)
          /\ UNCHANGED <<sent, delivered, recent>>

\* That of JsonFormat.merge is caught in handleJsonMessage.
Malformed(f) == IF Tag(f) = 2 THEN Reject ELSE Ignore

\* WebsocketMsgDecoder.decode and WebsocketHandler.channelRead0
ReadFrame ==
  /\ frames # <<>>
  /\ LET f   == Head(frames)
         obj == CASE Tag(f) = 1 -> FromJson(f) [] Tag(f) = 2 -> FromBinary(f) [] OTHER -> Null
     IN  \/ Tag(f) = 0 /\ Ignore
         \/ Tag(f) # 0 /\ obj = Null /\ Malformed(f)
         \/ Tag(f) # 0 /\ obj # Null /\ Deliver(f.n, obj)

\* Mutation: the timer is set anew without looking at what was read.
TimerAlways == open /\ recent' = FALSE /\ UNCHANGED <<open, frames, sent, delivered>>
\* ReadTimeoutHandler(60 * 3): three minutes are over.
Timer == /\ open
         /\ \/ recent /\ recent' = FALSE /\ UNCHANGED <<open, frames, sent, delivered>>
            \/ ~recent /\ Close

Next == \/ \E type \in {"text", "binary"}, obj \in Objects :
             \E to \in 0 .. Size(type, obj) : Begin(type, obj, to)
        \/ \E to \in 1 .. 6 : Continue(to)  \* three fields, two units each
        \/ Ping \/ Disconnect \/ ReadFrame \/ Timer

Spec == Init /\ [][Next]_vars

\* The event loop reads what has arrived, and time passes.
FairSpec == Spec /\ WF_vars(ReadFrame) /\ WF_vars(Timer)
-------------------------------------------------------------------------------
Fragmented(n) == sent[n].cut < SizeOf(n)

\* A message is handled at most once, and messages in the order of sending.
OnceInOrder ==
  \A i, j \in DOMAIN delivered : i < j => delivered[i].n < delivered[j].n

\* What message n says to the server.
Meant(n) ==
  LET o == IF sent[n].obj = Null THEN Default ELSE toObject(sent[n].obj)
  IN  IF sent[n].type = "binary" THEN o
      ELSE [msgseq  |-> o.msgseq, msgid |-> Charset[o.msgid],
            content |-> <<"b64", Charset[o.content[2]]>>]

\* What is handled is what was sent, its texts as the platform decodes them in JSON; of
\* a message that was cut into fragments it may be some of its fields, with defaults
\* for the others, and is nothing else.
OwnFields ==
  \A i \in DOMAIN delivered :
    LET d == delivered[i]
        o == Meant(d.n)
    IN  IF Fragmented(d.n) THEN \A f \in DOMAIN o : d.obj[f] \in {o[f], Default[f]}
                           ELSE d.obj = o

\* While the connection stays open no whole message is lost, whatever else was
\* sent before it, read or not to be read.
NoneLost ==
  open /\ frames = <<>> =>
    \A n \in DOMAIN sent :
      \/ Fragmented(n) \/ sent[n].obj = Null
      \/ \E i \in DOMAIN delivered : delivered[i].n = n

\* A connection on which nothing arrives any more is closed in the end.
SilentIsClosed == <>[](frames = <<>>) => <>~open
==============================================================================
