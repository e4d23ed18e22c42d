---------------------------- MODULE LmqttStream ----------------------------
(***************************************************************************)
(* One direction of a connection, byte by byte: the encoder of one side,   *)
(* the bytes in buffers and sockets, the decoder of the other side.        *)
(* LmqttClient hands over whole packets in one step; here they are cut     *)
(* anywhere, strings give and take what they like, the application refuses *)
(* messages, and the connection breaks in the middle of a packet.          *)
(*                                                                         *)
(* The packets are those with the same layout in both directions: PUBLISH, *)
(* PUBACK, PUBREC, PUBREL and PUBCOMP.  A step of the encoder is one call  *)
(* of a part's encoder, a step of the decoder one turn of its loop.        *)
(***************************************************************************)
EXTENDS LmqttCodec

CONSTANTS
  StreamKinds,   \* the kinds of packet that are sent
  TopicLens,     \* lengths of topics and payloads
  PayloadLens,
  NumPackets,    \* bound: packets put into the store
  WireCapacity,  \* bytes that buffers and sockets hold
  MaxBreaks      \* bound: connections that break

ASSUME StreamAssumption ==
  /\ StreamKinds \subseteq {"PUBLISH_0", "PUBLISH_1", "PUBLISH_2",
                            "PUBACK", "PUBREC", "PUBREL", "PUBCOMP"}
  /\ TopicLens \subseteq Nat /\ PayloadLens \subseteq Nat
  /\ NumPackets \in Nat /\ NumPackets < Base * Base
  /\ WireCapacity \in Nat \ {0} /\ MaxBreaks \in Nat

VARIABLES
  store,     \* of the sending side
  part,      \* tx_state.internal.pos: parts of the current packet encoded
  offset,    \* and bytes of the next part
  encoded,   \* the packets with a positive encode_count
  wire,      \* bytes written and not yet decoded
  rx         \* rx_state.internal of the receiving side

(* History.  Over this connection: the packets encoded, the packets the    *)
(* application got.  Over the earlier ones: the numbers of those.  Then    *)
(* the allocated strings that the application has not got back, with the   *)
(* reasons why it may have to wait for ever.                               *)
VARIABLES queued, sent, got, sent_before, got_before, owned, causes, breaks

tx      == <<store, part, offset, encoded>>
past    == <<sent_before, got_before, breaks>>
vars    == <<tx, wire, rx, queued, sent, got, past, owned, causes>>

StringParts == {"topic", "payload"}

FreshRx ==
  [started |-> FALSE, type |-> "NONE", qos |-> 0, dup |-> FALSE,
   length |-> FreshLength, pos |-> 0, topic_len |-> 0, id |-> 0,
   text |-> [s \in StringParts |-> <<>>], has |-> {},
   ignore |-> FALSE, error |-> "NONE"]

Init ==
  /\ store = EmptyStore /\ part = 0 /\ offset = 0 /\ encoded = {}
  /\ wire = <<>> /\ rx = FreshRx
  /\ queued = 0 /\ sent = <<>> /\ got = <<>>
  /\ sent_before = {} /\ got_before = {} /\ breaks = 0
  /\ owned = [s \in StringParts |-> 0] /\ causes = {}

Smaller(a, b) == IF a < b THEN a ELSE b

-----------------------------------------------------------------------------
(* The sending side.                                                       *)

(* lmqtt_client_publish, or the decoder that queues an acknowledgement.    *)
Queue ==
  /\ queued < NumPackets /\ queued' = queued + 1
  /\ \E kind \in StreamKinds, t \in TopicLens, p \in PayloadLens :
       LET packet == [kind |-> kind, n |-> queued + 1,
                      id |-> IF kind = "PUBLISH_0" THEN 0 ELSE queued + 1,
                      topic |-> IF IsPublish(kind) THEN t ELSE 0,
                      payload |-> IF IsPublish(kind) THEN p ELSE 0]
       IN /\ IsPublish(kind) => PublishValid(packet)
          /\ store' = Appended(store, packet)
  /\ UNCHANGED <<part, offset, encoded, wire, rx, sent, got, past, owned,
                 causes>>

(* The parts that the finder of the packet's kind returns (an empty        *)
(* payload is no part), and their bytes.                                   *)
Names(p) ==
  IF ~IsPublish(p.kind) THEN <<"fixed">>
  ELSE <<"fixed", "topic">>
         \o (IF p.kind = "PUBLISH_0" THEN <<>> ELSE <<"id">>)
         \o (IF p.payload = 0 THEN <<>> ELSE <<"payload">>)
Bytes(p, name) ==
  CASE name = "fixed"   -> FixedHeader(p, p.n \in encoded)
    [] name = "topic"   -> Number(p.topic) \o Text(p.n, "topic", p.topic)
    [] name = "id"      -> Number(p.id)
    [] name = "payload" -> Text(p.n, "payload", p.payload)

(* How many bytes of a part can be encoded into so much room.  The length  *)
(* of a string needs room only; behind it the callback that reads the      *)
(* string has to give something, or nothing of the part is encoded.        *)
Encodable(name, size, room) ==
  LET most == Smaller(size - offset, room)
      prefix == IF name = "topic" /\ offset < LenSize THEN LenSize - offset
                ELSE 0
  IN IF name \in StringParts /\ most > prefix THEN prefix + 1 .. most
     ELSE {most} \ {0}

(* The packet as it has to be received.                                    *)
Sent(p) ==
  [kind |-> p.kind, id |-> p.id, dup |-> IsPublish(p.kind) /\ p.n \in encoded,
   text |-> [s \in StringParts |-> Text(p.n, s, p[s])], n |-> p.n]

EncodeCount_Never(n) == encoded
EncodeCount(n) == encoded \cup {n}

(* One part is encoded as far as it goes; after the last one the packet is *)
(* marked or dropped, and the encoder is reset.                            *)
Encode ==
  /\ HasCurrent(store)
  /\ LET p == Current(store)
         name == Names(p)[part + 1]
         bytes == Bytes(p, name)
     IN \E room \in 1 .. WireCapacity - Len(wire) :
        \E k \in Encodable(name, Len(bytes), room) :
          /\ wire' = wire \o SubSeq(bytes, offset + 1, offset + k)
          /\ \/ /\ offset + k < Len(bytes)
                /\ offset' = offset + k
                /\ UNCHANGED <<store, part, encoded, sent>>
             \/ /\ offset + k = Len(bytes) /\ part + 1 < Len(Names(p))
                /\ offset' = 0 /\ part' = part + 1
                /\ UNCHANGED <<store, encoded, sent>>
             \/ /\ offset + k = Len(bytes) /\ part + 1 = Len(Names(p))
                /\ offset' = 0 /\ part' = 0
                /\ encoded' = EncodeCount(p.n)
                /\ sent' = Append(sent, Sent(p))
                /\ store' = IF ExpectsResponse(p.kind) THEN MarkCurrent(store)
                            ELSE DropCurrent(store)
  /\ UNCHANGED <<rx, queued, got, past, owned, causes>>

(* The response to a marked packet, which has been received.               *)
Got == {sent[i].n : i \in 1 .. Smaller(Len(got), Len(sent))}
Acknowledge ==
  /\ \E i \in 1 .. store.pos :
       /\ store.entries[i].n \in Got \cup got_before
       /\ store' = PopAt(store, i)
  /\ UNCHANGED <<part, offset, encoded, wire, rx, queued, sent, got, past,
                 owned, causes>>

-----------------------------------------------------------------------------
(* The receiving side.                                                     *)

Decoding == rx.error = "NONE" /\ wire # <<>>

IdLen(r) == IF r.type = "PUBLISH" /\ r.qos = 0 THEN 0 ELSE IdSize
TopicEnd(r) == IF r.type = "PUBLISH" THEN LenSize + r.topic_len ELSE 0
IdEnd(r) == TopicEnd(r) + IdLen(r)

MinLength(type) == IF type = "PUBLISH" THEN 3 ELSE 2

(* fixed_header_decode, with what lmqtt_rx_buffer_decode does behind it.   *)
DecodeHeader ==
  /\ Decoding /\ ~rx.length.finished
  /\ wire' = Tail(wire)
  /\ LET b == Head(wire)
         length == LengthStep(rx.length, b)
     IN rx' = IF ~rx.started
                THEN [rx EXCEPT !.started = TRUE, !.type = b.type,
                        !.qos = b.qos, !.dup = b.dup,
                        !.error = IF BadFlags(b) THEN "FLAGS"
                                  ELSE IF b.type = "NONE" THEN "TYPE" ELSE @]
                ELSE [rx EXCEPT !.length = length,
                        !.error = IF length.bad THEN "LENGTH"
                                  ELSE IF length.finished
                                          /\ length.acc < MinLength(rx.type)
                                         THEN "TOO_SHORT" ELSE @]
  /\ UNCHANGED <<tx, queued, sent, got, past, owned, causes>>

(* on_publish_deallocate, which is not called for a message refused.       *)
Deallocated_Message(r, o) == o
Deallocated(r, o) ==
  [s \in StringParts |-> IF s \in r.has /\ ~r.ignore THEN o[s] - 1 ELSE o[s]]

KindOf(r) ==
  IF r.type # "PUBLISH" THEN r.type
  ELSE CASE r.qos = 0 -> "PUBLISH_0" [] r.qos = 1 -> "PUBLISH_1"
         [] OTHER -> "PUBLISH_2"
Message(r) ==
  [kind |-> KindOf(r), id |-> r.id, dup |-> r.dup, text |-> r.text,
   ignored |-> r.ignore]

(* The packet is complete: on_publish is called, and may fail.  That a     *)
(* QoS 2 message may be known already, and what it is answered with, are   *)
(* in LmqttSession.                                                        *)
Finish(r, o, c) ==
  \E ok \in IF r.type = "PUBLISH" /\ ~r.ignore THEN BOOLEAN ELSE {TRUE} :
    /\ got' = IF ok THEN Append(got, Message(r)) ELSE got
    /\ owned' = Deallocated(r, o)
    /\ causes' = IF r.ignore /\ r.has # {} THEN c \cup {"ignored"} ELSE c
    /\ rx' = IF ok THEN FreshRx
             ELSE [r EXCEPT !.error = "APPLICATION", !.has = {}]

IsFinished_Later(r) == r.pos > r.length.acc
IsFinished(r) == r.pos >= r.length.acc

(* k bytes have been decoded into r; o and c are owned and causes, with    *)
(* what was allocated.                                                     *)
Consumed(k, r, o, c) ==
  LET next == [r EXCEPT !.pos = @ + k] IN
    /\ wire' = SubSeq(wire, k + 1, Len(wire))
    /\ IF IsFinished(next) THEN Finish(next, o, c)
       ELSE rx' = next /\ owned' = o /\ causes' = c /\ UNCHANGED got
    /\ UNCHANGED <<tx, queued, sent, past>>

Failed(error) ==
  /\ rx' = [rx EXCEPT !.error = error, !.has = {}]
  /\ owned' = Deallocated(rx, owned)
  /\ UNCHANGED <<tx, wire, queued, sent, got, past, causes>>

(* The two bytes of the topic's length, which is checked.                  *)
DecodeTopicLength ==
  /\ Decoding /\ rx.length.finished /\ rx.type = "PUBLISH"
  /\ rx.pos < LenSize
  /\ LET len == rx.topic_len * Base + Head(wire).v IN
       IF rx.pos + 1 = LenSize
            /\ (len = 0 \/ LenSize + len + IdLen(rx) > rx.length.acc)
         THEN Failed("PUBLISH_LENGTH")
         ELSE Consumed(1, [rx EXCEPT !.topic_len = len], owned, causes)

(* The packet id of a PUBLISH, or of an acknowledgement.                   *)
DecodeId ==
  /\ Decoding /\ rx.length.finished
  /\ rx.type = "PUBLISH" => rx.pos >= LenSize
  /\ rx.pos \in TopicEnd(rx) .. IdEnd(rx) - 1
  /\ Consumed(1, [rx EXCEPT !.id = @ * Base + Head(wire).v], owned, causes)

(* The buffer may go on after the end of the string.                       *)
Capped_Not(available, left) == available
Capped(available, left) == Smaller(available, left)

(* rx_buffer_allocate_write for the string that ends at end, when so many  *)
(* bytes are available.  It is allocated when its first byte is there, and *)
(* again when that byte could not be written.  "ERROR" is also a string    *)
(* that cannot be written.                                                 *)
Answers(s, first) ==
  IF ~first THEN {"NOT_ASKED", "ERROR"}
  ELSE IF s \in rx.has THEN {"SUCCESS", "ERROR"}
  ELSE {"SUCCESS", "IGNORE", "ERROR"}

AllocateWrite(s, start, end, available) ==
  LET n == Capped(available, end - rx.pos)
      first == rx.pos = start
      given == [rx EXCEPT !.has = @ \cup {s}]
      allocated(answer) ==
        IF answer = "SUCCESS" THEN [owned EXCEPT ![s] = @ + 1] ELSE owned
      cause(answer) ==
        IF answer = "SUCCESS" /\ s \in rx.has THEN causes \cup {"again"}
        ELSE causes
  IN \/ rx.ignore /\ Consumed(n, rx, owned, causes)
     \/ /\ ~rx.ignore
        /\ \E answer \in Answers(s, first) :
             \/ answer = "ERROR" /\ Failed("APPLICATION")
             \/ answer = "IGNORE"
                  /\ Consumed(n, [rx EXCEPT !.ignore = TRUE], owned, causes)
             \/ /\ answer \in {"SUCCESS", "NOT_ASKED"}
                /\ \E k \in 1 .. n :
                     Consumed(k, [given EXCEPT !.text[s] =
                                    @ \o SubSeq(wire, 1, k)],
                              allocated(answer), cause(answer))
             \/ /\ answer = "SUCCESS" /\ "again" \notin causes
                /\ rx' = given /\ owned' = allocated(answer)
                /\ causes' = cause(answer)
                /\ UNCHANGED <<tx, wire, queued, sent, got, past>>

DecodeTopic ==
  /\ Decoding /\ rx.length.finished /\ rx.type = "PUBLISH"
  /\ rx.pos \in LenSize .. TopicEnd(rx) - 1
  /\ \E available \in 1 .. Len(wire) :
       AllocateWrite("topic", LenSize, TopicEnd(rx), available)

DecodePayload ==
  /\ Decoding /\ rx.length.finished /\ rx.type = "PUBLISH"
  /\ rx.pos >= LenSize /\ rx.pos >= IdEnd(rx)
  /\ \E available \in 1 .. Len(wire) :
       AllocateWrite("payload", IdEnd(rx), rx.length.acc, available)

Decode ==
  DecodeHeader \/ DecodeTopicLength \/ DecodeTopic \/ DecodeId \/ DecodePayload

-----------------------------------------------------------------------------
(* The connection breaks, and the next one is up: encoder and decoder are  *)
(* reset, what is marked is sent again.                                    *)
Break ==
  /\ breaks < MaxBreaks /\ breaks' = breaks + 1
  /\ store' = UnmarkAll(store) /\ part' = 0 /\ offset' = 0
  /\ wire' = <<>> /\ rx' = FreshRx
  /\ sent_before' = sent_before \cup {sent[i].n : i \in 1 .. Len(sent)}
  /\ got_before' = got_before \cup Got
  /\ sent' = <<>> /\ got' = <<>>
  /\ causes' = IF rx.has # {} THEN causes \cup {"reset"} ELSE causes
  /\ UNCHANGED <<encoded, queued, owned>>

Next == Queue \/ Encode \/ Acknowledge \/ Decode \/ Break

(* run_once encodes and decodes as long as it can, strings do not block    *)
(* for ever.  Nothing is assumed of the application and of breaks.         *)
Spec == Init /\ [][Next]_vars /\ WF_vars(Encode) /\ WF_vars(Decode)

-----------------------------------------------------------------------------
(* Properties.                                                             *)

(* What the application gets over a connection is what was encoded, in     *)
(* that order, with every byte of it, however the bytes were cut           *)
(* (lmqtt_tx_buffer_encode goes on at its offset, rx_buffer_allocate_write *)
(* at remain_buf_pos).                                                     *)
ReceivedIsSent ==
  /\ Len(got) <= Len(sent)
  /\ \A i \in 1 .. Len(got) :
       /\ got[i].kind = sent[i].kind /\ got[i].id = sent[i].id
       /\ got[i].dup = sent[i].dup
       /\ got[i].ignored \/ got[i].text = sent[i].text

(* The decoder finds no fault with anything that the encoder writes: flags *)
(* fit the type, lengths agree with what follows (fixed_header_decode,     *)
(* publish_calc_remaining_length, rx_buffer_decode_publish).               *)
NoDecodeError == rx.error \in {"NONE", "APPLICATION"}

(* A message that the peer has got in an earlier connection comes again    *)
(* with DUP set, one that was never sent in full comes without it, even if *)
(* its first bytes have been (encode_count, tx_buffer_finder_publish).     *)
DupIsHonest ==
  \A i \in 1 .. Smaller(Len(got), Len(sent)) :
    IsPublish(got[i].kind) =>
      /\ sent[i].n \in got_before => got[i].dup
      /\ got[i].dup => sent[i].n \in sent_before

(* A string that the application has allocated is handed back before the   *)
(* next packet begins, and not allocated twice, with three exceptions: its *)
(* first byte could not be written at once (it is allocated again), the    *)
(* payload of the message is refused (deallocate is not called), or the    *)
(* connection ends in the middle of it (lmqtt_rx_buffer_reset).            *)
OwnedIsReturned ==
  causes = {} =>
    /\ \A s \in StringParts : owned[s] \in 0 .. 1
    /\ ~rx.started \/ rx.error # "NONE" =>
         \A s \in StringParts : owned[s] = 0

(* Everything queued is encoded and received, unless the application makes *)
(* the decoder fail.                                                       *)
AllReceived ==
  (HasCurrent(store) \/ wire # <<>>) ~>
    \/ rx.error # "NONE"
    \/ /\ ~HasCurrent(store) /\ wire = <<>> /\ rx = FreshRx
       /\ Len(got) = Len(sent)
=============================================================================
