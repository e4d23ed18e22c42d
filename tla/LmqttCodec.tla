----------------------------- MODULE LmqttCodec -----------------------------
(***************************************************************************)
(* The layout of packets in lmqtt_packet.c: the parts a packet is made of, *)
(* their bytes, and the lengths that the fixed header announces.           *)
(*                                                                         *)
(* A byte is a record.  The decoder reads type, qos, dup, more and v by    *)
(* the place where it meets a byte; of says which text a byte is from, so  *)
(* that a text that arrives can be compared with the one that was sent.    *)
(***************************************************************************)
EXTENDS LmqttStore, Integers

CONSTANTS
  Radix,   \* of the digits of the remaining length (128 in the code)
  Base     \* of the two bytes of a string's length and of a packet id (256)

ASSUME RadixAssumption ==
  Radix \in Nat \ {0, 1} /\ Base \in Nat \ {0, 1}

Blank == [type |-> "NONE", qos |-> 0, dup |-> FALSE, more |-> FALSE,
          v |-> 0, of |-> <<>>]

(* The first byte of a packet; the flag of PUBREL and of the requests is   *)
(* where PUBLISH has the lower bit of its quality of service.              *)
HeaderByte(type, dup, qos) ==
  [Blank EXCEPT !.type = type, !.dup = dup, !.qos = qos]
Digit(v, more) == [Blank EXCEPT !.v = v, !.more = more]
Number(v) ==
  <<[Blank EXCEPT !.v = v \div Base], [Blank EXCEPT !.v = v % Base]>>
Text(n, part, len) ==
  [i \in 1 .. len |-> [Blank EXCEPT !.v = i, !.of = <<n, part>>]]

LenSize == 2    \* LMQTT_STRING_LEN_SIZE
IdSize  == 2    \* LMQTT_PACKET_ID_SIZE

-----------------------------------------------------------------------------
(* The remaining length, its least significant digit first, in no more     *)
(* than four bytes.                                                        *)

Weight == <<1, Radix, Radix * Radix, Radix * Radix * Radix>>
MaxRemaining == Weight[4] * Radix - 1

RemainingSize(len) ==
  CHOOSE k \in 1 .. 4 :
    len < Weight[k] * Radix /\ (k > 1 => len >= Weight[k])

RemainingBytes(len) ==
  [i \in 1 .. RemainingSize(len) |->
     Digit((len \div Weight[i]) % Radix, i < RemainingSize(len))]

(* What fixed_header_decode keeps between two bytes of the length.         *)
FreshLength == [acc |-> 0, mult |-> 1, finished |-> FALSE, bad |-> FALSE]

LengthStep(h, b) ==
  IF \/ h.mult > Weight[3] /\ b.more
     \/ h.mult > 1 /\ b.v = 0 /\ ~b.more
    THEN [h EXCEPT !.bad = TRUE]
    ELSE [h EXCEPT !.acc = @ + b.v * h.mult, !.mult = @ * Radix,
                   !.finished = ~b.more]

(* Flags a packet of that type cannot have.                                *)
BadFlags(b) ==
  CASE b.type \in {"PUBREL", "SUBSCRIBE", "UNSUBSCRIBE"} -> b.qos # 1 \/ b.dup
    [] b.type = "PUBLISH" -> b.qos = 3 \/ (b.dup /\ b.qos = 0)
    [] OTHER -> b.qos # 0 \/ b.dup

-----------------------------------------------------------------------------
(* The parts of a packet, in the order of the finders, each with its size. *)

Part(name, size) == [name |-> name, size |-> size]
Sized(name, len) == Part(name, LenSize + len)

(* string_encode with encode_if_empty = 0: an empty field leaves nothing.  *)
Optional(name, len) == Part(name, IF len = 0 THEN 0 ELSE LenSize + len)
FieldLength(len) == IF len > 0 THEN LenSize + len ELSE 0

ConnectHeaderSize == 10
ConnectLength(c) ==
  ConnectHeaderSize + LenSize + c.client_id + FieldLength(c.will_topic)
    + FieldLength(c.will_message) + FieldLength(c.user_name)
    + FieldLength(c.password)
ConnectParts(c) ==
  <<Part("header", ConnectHeaderSize), Sized("client_id", c.client_id),
    Optional("will_topic", c.will_topic),
    Optional("will_message", c.will_message),
    Optional("user_name", c.user_name), Optional("password", c.password)>>

QosOf(kind) ==
  CASE kind = "PUBLISH_1" -> 1 [] kind = "PUBLISH_2" -> 2 [] OTHER -> 0
IsPublish(kind) == kind \in {"PUBLISH_0", "PUBLISH_1", "PUBLISH_2"}

PublishLength_NoId(p) == LenSize + p.topic + p.payload
PublishLength(p) ==
  LenSize + p.topic + (IF p.kind = "PUBLISH_0" THEN 0 ELSE IdSize) + p.payload
PublishParts(p) ==
  IF p.kind = "PUBLISH_0"
    THEN <<Sized("topic", p.topic), Part("payload", p.payload)>>
    ELSE <<Sized("topic", p.topic), Part("id", IdSize),
           Part("payload", p.payload)>>

(* The requests that the client accepts (lmqtt_connect_validate,           *)
(* lmqtt_publish_validate): a number is in the two bytes of a string's     *)
(* length, and for PUBLISH the whole in the remaining length.              *)
FieldFits(len) == len < Base * Base
ConnectValid(c) ==
  /\ FieldFits(c.client_id) /\ FieldFits(c.will_topic)
  /\ FieldFits(c.will_message) /\ FieldFits(c.user_name)
  /\ FieldFits(c.password)
  /\ c.will_topic = 0 <=> c.will_message = 0
  /\ c.will_retain => c.will_topic # 0
  /\ c.client_id = 0 => c.clean_session
  /\ c.user_name = 0 => c.password = 0
  /\ c.will_qos \in 0 .. 2
PublishValid(p) ==
  FieldFits(p.topic) /\ p.topic > 0 /\ PublishLength(p) <= MaxRemaining

(* What the encoder writes before the parts: the fixed header, and the id  *)
(* of the packets that consist of nothing else.                            *)
FixedHeader(p, dup) ==
  IF IsPublish(p.kind)
    THEN <<HeaderByte("PUBLISH", dup, QosOf(p.kind))>>
           \o RemainingBytes(PublishLength(p))
    ELSE <<HeaderByte(p.kind, FALSE, IF p.kind = "PUBREL" THEN 1 ELSE 0)>>
           \o RemainingBytes(IdSize) \o Number(p.id)
=============================================================================
