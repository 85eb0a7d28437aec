-------------------------------- MODULE WsMsg --------------------------------
(***************************************************************************)
(* The message of the game clients as the generated wsMsg_pb.js holds,     *)
(* writes and reads it.  An object is its jspb array, one entry per field, *)
(* Null where nothing is stored.  Content is stored as base64 text or as a *)
(* Uint8Array, written <<"b64", bytes>> and <<"u8", bytes>>.  A binary     *)
(* message is the sequence of its fields <<number, value>>; number 0       *)
(* stands for an end-group tag.  The accessors of jspb.Message and the     *)
(* reader and writer are google-protobuf's.                                *)
(***************************************************************************)
EXTENDS Integers, SequencesExt

CONSTANTS
  Null,   \* JavaScript's null in the array
  Texts,  \* what names and the bytes of contents can be, "" among them
  IntMax  \* 2^31: an int32 is less than this and at least its negative

\* Content in either form; the arrays of objects; the fields of this version, and
\* those of others or the end of a group.
Content == {"b64", "u8"} \X Texts
Msg == [msgseq : Int \cup {Null}, msgid : Texts \cup {Null}, content : Content \cup {Null}]
Field == ({1} \X Int) \cup ({2} \X Texts) \cup ({3} \X Content)
           \cup ((Int \ 1 .. 3) \X Texts)

ASSUME WsMsgAssumption ==
  /\ IntMax \in Nat \ {0} /\ "" \in Texts
  /\ Null \notin Int \cup Texts \cup Content \cup Msg

EmptyText == <<"b64", "">>
EmptyMsg == [msgseq |-> Null, msgid |-> Null, content |-> Null]

\* jspb.Message.setFieldIgnoringDefault_ and getFieldWithDefault
IgnoringDefault(v, default) == IF v = default THEN Null ELSE v
WithDefault(v, default) == IF v = Null THEN default ELSE v

setMsgseq(m, v)  == [m EXCEPT !.msgseq = IgnoringDefault(v, 0)]
setMsgid(m, v)   == [m EXCEPT !.msgid = IgnoringDefault(v, "")]
\* Mutation: the message keeps the content it has when given none.
setContentIfAny(m, v) == IF v[2] = "" THEN m ELSE [m EXCEPT !.content = v]
setContent(m, v) == [m EXCEPT !.content = IgnoringDefault(v, EmptyText)]

getMsgseq(m)  == WithDefault(m.msgseq, 0)
getMsgid(m)   == WithDefault(m.msgid, "")
getContent(m) == WithDefault(m.content, EmptyText)

\* jspb.Message.bytesAsB64 and bytesAsU8: the same bytes in the other form.
getContent_asB64(m) == <<"b64", getContent(m)[2]>>
getContent_asU8(m)  == <<"u8", getContent(m)[2]>>

toObject(m) == [msgseq  |-> getMsgseq(m), msgid |-> getMsgid(m),
                content |-> getContent_asB64(m)]

\* writeInt32 asserts the range of what it is given.
Writable(m) == getMsgseq(m) \in -IntMax .. IntMax - 1

\* Mutation: a field is left out because nothing was stored in it.
serializeStored(m) ==
  SelectSeq(<< <<1, m.msgseq>>, <<2, getMsgid(m)>>, <<3, getContent_asU8(m)>> >>,
            LAMBDA f : f[2] # Null)
serializeBinary(m) ==
  (IF getMsgseq(m) # 0 THEN << <<1, getMsgseq(m)>> >> ELSE <<>>) \o
  (IF getMsgid(m) # "" THEN << <<2, getMsgid(m)>> >> ELSE <<>>) \o
  (IF getContent_asU8(m)[2] # "" THEN << <<3, getContent_asU8(m)>> >> ELSE <<>>)

\* Mutation: the sign of the integer is lost.
readUnsigned(v) == v % (2 * IntMax)
\* readInt32 keeps the low 32 bits of the varint, as a signed number.
readInt32(v) == ((v + IntMax) % (2 * IntMax)) - IntMax

\* One iteration of the loop; skipField for the fields of later versions.
ReadField(m, f) == CASE f[1] = 1 -> setMsgseq(m, readInt32(f[2]))
                     [] f[1] = 2 -> setMsgid(m, f[2])
                     [] f[1] = 3 -> setContent(m, f[2])
                     [] OTHER    -> m

BeforeEndGroup(fields) ==
  SubSeq(fields, 1, SelectInSeq(fields \o << <<0>> >>, LAMBDA f : f[1] = 0) - 1)

\* What msg is after the fields have been read into it, one after the other.
ReadFields(msg, fields) ==
  LET read[n \in 0 .. Len(fields)] ==
        IF n = 0 THEN msg ELSE ReadField(read[n - 1], fields[n])
  IN  read[Len(fields)]

\* Mutation: the object is emptied before it is read into.
readAfresh(msg, fields) == ReadFields(EmptyMsg, BeforeEndGroup(fields))
deserializeBinaryFromReader(msg, fields) == ReadFields(msg, BeforeEndGroup(fields))

deserializeBinary(fields) == deserializeBinaryFromReader(EmptyMsg, fields)

\* What a message has that nothing was stored in.
Default == toObject(EmptyMsg)
==============================================================================
