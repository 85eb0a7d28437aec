--------------------------- MODULE MessageExchange ---------------------------
(***************************************************************************)
(* A client program and its wsMsg object: constructed from an array, set,  *)
(* written, read anew or read into as it is.  Other ends of the connection *)
(* write the fields of their own version of the message, in any order, and *)
(* possibly more than once.                                                *)
(***************************************************************************)
EXTENDS WsMsg

CONSTANTS
  Numbers,      \* values the program gives to msgseq
  Names,        \* values of msgid
  Contents,     \* values of content, either form
  Arrays,       \* arrays the program constructs the object from
  PeerMessages, \* binary messages other programs write
  MaxWire       \* bound on the binary messages waiting

ASSUME ExchangeAssumption ==
  /\ Numbers \subseteq Int /\ Names \subseteq Texts /\ Contents \subseteq Content
  /\ Arrays \subseteq Msg /\ PeerMessages \subseteq Seq(Field)

VARIABLES
  msg,    \* the array of the object
  wire,   \* the binary messages, in order
  written \* history: the object each of them was written from, Null for others

exchangeVars == <<msg, wire, written>>

ExchangeInit == msg = EmptyMsg /\ wire = <<>> /\ written = <<>>

\* new wsMsg(opt_data): the array is used as it is, defaults included.
Construct(data) == msg' = data /\ UNCHANGED <<wire, written>>

Set == /\ \/ \E n \in Numbers : msg' = setMsgseq(msg, n)
          \/ \E s \in Names : msg' = setMsgid(msg, s)
          \/ \E c \in Contents : msg' = setContent(msg, c)
       /\ UNCHANGED <<wire, written>>

Write == /\ Len(wire) < MaxWire /\ Writable(msg)
         /\ wire' = Append(wire, serializeBinary(msg))
         /\ written' = Append(written, toObject(msg))
         /\ UNCHANGED msg

PeerWrites(w) == /\ Len(wire) < MaxWire
                 /\ wire' = Append(wire, w)
                 /\ written' = Append(written, Null)
                 /\ UNCHANGED msg

Received(m) == /\ msg' = m
               /\ wire' = Tail(wire) /\ written' = Tail(written)

Read     == wire # <<>> /\ Received(deserializeBinary(Head(wire)))
ReadInto == wire # <<>> /\ Received(deserializeBinaryFromReader(msg, Head(wire)))

ExchangeNext ==
  \/ \E data \in Arrays : Construct(data)
  \/ Set
  \/ Write
  \/ \E w \in PeerMessages : PeerWrites(w)
  \/ Read
  \/ ReadInto

ExchangeSpec == ExchangeInit /\ [][ExchangeNext]_exchangeVars
-------------------------------------------------------------------------------
\* The fields of o, with those of n in their place where n has them.
Overlay(o, n) == [f \in DOMAIN o |-> IF n[f] = Default[f] THEN o[f] ELSE n[f]]

\* A message that was written reads as the object it was written from, however
\* the program came to hold that object: set, constructed, read or read into.
RoundTrip ==
  \A i \in DOMAIN wire :
    written[i] # Null => toObject(deserializeBinary(wire[i])) = written[i]

\* Whatever another version wrote, a field reads as its last occurrence before the
\* end of the group, cut to 32 bits, and as its default if there is none.
LastOf(w, n, default) ==
  LET at == {i \in DOMAIN w : w[i][1] = n /\ \A k \in 1 .. i : w[k][1] # 0}
  IN  IF at = {} THEN default ELSE w[CHOOSE i \in at : \A k \in at : k <= i][2]
LastOccurrenceWins ==
  \A i \in DOMAIN wire :
    LET o == toObject(deserializeBinary(wire[i]))
        n == LastOf(wire[i], 1, 0)
    IN  /\ o.msgseq \in -IntMax .. IntMax - 1
        /\ (n - o.msgseq) % (2 * IntMax) = 0
        /\ o.msgid = LastOf(wire[i], 2, "")
        /\ o.content[2] = LastOf(wire[i], 3, EmptyText)[2]

\* An object that is read into keeps what it held in every field the message
\* has at its default: nothing of the old object shows elsewhere.
ReadIntoOverlays ==
  [][ReadInto /\ Head(written) # Null =>
       toObject(msg') = Overlay(toObject(msg), Head(written))]_exchangeVars
==============================================================================
