------------------------- MODULE LmqttStreamProofs -------------------------
(***************************************************************************)
(* Encoder, wire and decoder together are the identity on packets, for any *)
(* radix and base, any lengths that the validation of requests lets pass,  *)
(* any capacity of the wire and any number of packets and breaks; DUP says *)
(* what it should, and the application gets its strings back.              *)
(*                                                                         *)
(* The invariant has a place in the wire for every packet that has not     *)
(* been received, the first of which may be before the wire's beginning,   *)
(* and says of each byte which byte of which packet it is.                 *)
(***************************************************************************)
EXTENDS LmqttStream, LmqttCodecTheorems, LmqttStoreTheorems

(* The values of the bytes and of the packets in the store.                *)
TypeNames == {"NONE", "PUBLISH", "PUBACK", "PUBREC", "PUBREL", "PUBCOMP"}
Origins == {<<>>} \cup (Nat \X StringParts)
Octets == [type : TypeNames, qos : 0 .. 2, dup : BOOLEAN, more : BOOLEAN,
           v : Nat, of : Origins]

PublishKinds == {"PUBLISH_0", "PUBLISH_1", "PUBLISH_2"}
AckKinds == {"PUBACK", "PUBREC", "PUBREL", "PUBCOMP"}
PacketKinds == PublishKinds \cup AckKinds

GoodPacket(p) ==
  /\ p.id = (IF p.kind = "PUBLISH_0" THEN 0 ELSE p.n)
  /\ p.n < Base * Base
  /\ p.kind \in PublishKinds => PublishValid(p)
  /\ p.kind \in AckKinds => p.topic = 0 /\ p.payload = 0
Packets ==
  {p \in [kind : PacketKinds, n : Nat \ {0}, id : Nat, topic : Nat,
          payload : Nat] : GoodPacket(p)}

-----------------------------------------------------------------------------
(* A packet as it is sent: its lengths, and its bytes one by one.          *)

GoodFrame(q) ==
  /\ q.id < Base * Base
  /\ q.kind = "PUBLISH_0" => q.id = 0 /\ ~q.dup
  /\ q.kind \in AckKinds =>
       ~q.dup /\ \A s \in StringParts : q.text[s] = <<>>
  /\ q.kind \in PublishKinds =>
       /\ Len(q.text["topic"]) \in 1 .. Base * Base - 1
       /\ LenSize + Len(q.text["topic"])
            + (IF q.kind = "PUBLISH_0" THEN 0 ELSE IdSize)
            + Len(q.text["payload"]) <= MaxRemaining
Frames ==
  {q \in [kind : PacketKinds, id : Nat, dup : BOOLEAN,
          text : [StringParts -> Seq(Octets)], n : Nat \ {0}] : GoodFrame(q)}

TypeOf(q) == IF q.kind \in PublishKinds THEN "PUBLISH" ELSE q.kind
FlagOf(q) == IF q.kind = "PUBREL" THEN 1 ELSE QosOf(q.kind)

TopicEndOf(q) ==
  IF q.kind \in PublishKinds THEN LenSize + Len(q.text["topic"]) ELSE 0
IdEndOf(q) ==
  TopicEndOf(q) + (IF q.kind = "PUBLISH_0" THEN 0 ELSE IdSize)
BodySize(q) == IdEndOf(q) + Len(q.text["payload"])
HeaderSize(q) == 1 + RemainingSize(BodySize(q))
FrameSize(q) == HeaderSize(q) + BodySize(q)

BodyByte(q, b) ==
  IF b <= TopicEndOf(q)
    THEN IF b <= LenSize THEN Number(Len(q.text["topic"]))[b]
         ELSE q.text["topic"][b - LenSize]
  ELSE IF b <= IdEndOf(q) THEN Number(q.id)[b - TopicEndOf(q)]
  ELSE q.text["payload"][b - IdEndOf(q)]
FrameByte(q, j) ==
  IF j = 1 THEN HeaderByte(TypeOf(q), q.dup, FlagOf(q))
  ELSE IF j <= HeaderSize(q) THEN RemainingBytes(BodySize(q))[j - 1]
  ELSE BodyByte(q, j - HeaderSize(q))

-----------------------------------------------------------------------------
(* The encoder: how much of the current packet it has encoded.             *)

StartOf(p, name) ==
  CASE name = "fixed"   -> 0
    [] name = "topic"   -> HeaderSize(Sent(p))
    [] name = "id"      -> HeaderSize(Sent(p)) + TopicEndOf(Sent(p))
    [] name = "payload" -> HeaderSize(Sent(p)) + IdEndOf(Sent(p))

PartName == Names(Current(store))[part + 1]
Done ==
  IF HasCurrent(store) THEN StartOf(Current(store), PartName) + offset ELSE 0

EncoderInv ==
  /\ WellFormed(store, Packets)
  /\ part \in Nat /\ offset \in Nat /\ queued \in 0 .. NumPackets
  /\ ~HasCurrent(store) => part = 0 /\ offset = 0
  /\ HasCurrent(store) =>
       /\ part < Len(Names(Current(store)))
       /\ offset < Len(Bytes(Current(store), PartName))

(* Numbers are used once; what has been encoded is known by its number.    *)
Numbers ==
  /\ \A i, j \in 1 .. Count(store) :
       store.entries[i].n = store.entries[j].n => i = j
  /\ \A i \in 1 .. Count(store) :
       /\ store.entries[i].n <= queued
       /\ store.entries[i].kind = "PUBLISH_0" =>
            store.entries[i].n \notin encoded
       /\ i > store.pos =>
            \A k \in 1 .. Len(sent) : sent[k].n # store.entries[i].n
  /\ sent \in Seq(Frames)
  /\ \A k \in 1 .. Len(sent) :
       /\ sent[k].n <= queued
       /\ sent[k].kind \in PublishKinds =>
            (sent[k].dup <=> sent[k].n \in sent_before)
  /\ sent_before \subseteq 1 .. queued
  /\ got_before \subseteq sent_before
  /\ encoded = sent_before \cup {sent[k].n : k \in 1 .. Len(sent)}

-----------------------------------------------------------------------------
(* The decoder: what it keeps when it has taken t bytes of a packet.       *)

(* fixed_header_decode in front of each byte of the length.                *)
Reading(n) ==
  LET b == RemainingBytes(n)
      h1 == LengthStep(FreshLength, b[1])
      h2 == LengthStep(h1, b[2])
      h3 == LengthStep(h2, b[3])
      h4 == LengthStep(h3, b[4])
  IN [i \in 0 .. 4 |-> IF i = 0 THEN FreshLength ELSE IF i = 1 THEN h1
                       ELSE IF i = 2 THEN h2 ELSE IF i = 3 THEN h3 ELSE h4]

Headed(q, r) ==
  r.started /\ r.type = TypeOf(q) /\ r.qos = FlagOf(q) /\ r.dup = q.dup

Empty(r) ==
  /\ r.pos = 0 /\ r.topic_len = 0 /\ r.id = 0 /\ r.has = {} /\ ~r.ignore
  /\ \A s \in StringParts : r.text[s] = <<>>

(* How much of n bytes is there when d of them and those behind are.       *)
Through(d, n) == IF d < 0 THEN 0 ELSE IF d > n THEN n ELSE d

TopicRead(q, pos) ==
  IF q.kind \notin PublishKinds \/ pos = 0 THEN 0
  ELSE IF pos = 1 THEN Len(q.text["topic"]) \div Base
  ELSE Len(q.text["topic"])
IdRead(q, pos) ==
  IF pos <= TopicEndOf(q) \/ q.kind = "PUBLISH_0" THEN 0
  ELSE IF pos = TopicEndOf(q) + 1 THEN q.id \div Base ELSE q.id
TextStart(q, s) == IF s = "topic" THEN LenSize ELSE IdEndOf(q)
TextRead(q, s, pos) ==
  SubSeq(q.text[s], 1, Through(pos - TextStart(q, s), Len(q.text[s])))

BodyRead(q, r) ==
  /\ r.length.finished /\ r.length.acc = BodySize(q)
  /\ r.pos \in 0 .. BodySize(q)
  /\ r.topic_len = TopicRead(q, r.pos) /\ r.id = IdRead(q, r.pos)
  /\ ~r.ignore => \A s \in StringParts : r.text[s] = TextRead(q, s, r.pos)

(* The strings it has been given: asked for at their first byte.           *)
Given(q, r) ==
  /\ q.kind \in AckKinds \/ r.pos < LenSize => r.has = {} /\ ~r.ignore
  /\ q.kind \in PublishKinds /\ ~r.ignore =>
       /\ r.pos > LenSize => "topic" \in r.has
       /\ r.pos > IdEndOf(q) => "payload" \in r.has

Body(q, r, t) ==
  Headed(q, r) /\ BodyRead(q, r) /\ Given(q, r) /\ t = HeaderSize(q) + r.pos

DecoderInv(q, r, t) ==
  \/ t = 0 /\ r = FreshRx
  \/ /\ Headed(q, r) /\ Empty(r) /\ t \in 1 .. HeaderSize(q) - 1
     /\ r.length = Reading(BodySize(q))[t - 1]
  \/ Body(q, r, t) /\ r.pos < BodySize(q)

RxTypes ==
  [started : BOOLEAN, type : TypeNames, qos : 0 .. 2, dup : BOOLEAN,
   length : [acc : Nat, mult : Nat, finished : BOOLEAN, bad : BOOLEAN],
   pos : Nat, topic_len : Nat, id : Nat,
   text : [StringParts -> Seq(Octets)], has : SUBSET StringParts,
   ignore : BOOLEAN, error : {"NONE", "APPLICATION"}]

-----------------------------------------------------------------------------
(* The wire: packet i begins behind its place at[i].                       *)

Frame(i) == IF i <= Len(sent) THEN sent[i] ELSE Sent(Current(store))
Encoded(i) == IF i <= Len(sent) THEN FrameSize(sent[i]) ELSE Done

Laid(at) ==
  /\ \A i \in Len(got) + 1 .. Len(sent) + 1 : at[i] <= at[Len(sent) + 1]
  /\ \A i \in Len(got) + 1 .. Len(sent) :
       at[i + 1] = at[i] + FrameSize(sent[i])
  /\ Len(wire) = at[Len(sent) + 1] + Done
  /\ \A i \in Len(got) + 1 .. Len(sent) + 1 : \A j \in 1 .. Encoded(i) :
       at[i] + j >= 1 => wire[at[i] + j] = FrameByte(Frame(i), j)

Streaming(at) ==
  /\ Laid(at) /\ at[Len(got) + 1] <= 0
  /\ at[Len(got) + 1] = 0 => rx = FreshRx
  /\ DecoderInv(Frame(Len(got) + 1), rx, 0 - at[Len(got) + 1])

WireInv == \E at \in [Nat -> Int] : Streaming(at)

(* What has been got.                                                      *)
Messages == [kind : PacketKinds, id : Nat, dup : BOOLEAN,
             text : [StringParts -> Seq(Octets)], ignored : BOOLEAN]
Matched == got \in Seq(Messages) /\ ReceivedIsSent

(* Whom the strings that o counts belong to: the packet that the decoder   *)
(* has taken down in r, unless c holds a cause why not.                    *)
Owns(r, o, c) ==
  /\ o \in [StringParts -> Int]
  /\ r.error # "NONE" => r.has = {}
  /\ c = {} => \A s \in StringParts : o[s] = (IF s \in r.has THEN 1 ELSE 0)
Ownership == Owns(rx, owned, causes)

StreamInv ==
  /\ EncoderInv /\ Numbers
  /\ wire \in Seq(Octets) /\ rx \in RxTypes
  /\ Matched /\ Ownership
  /\ rx.error = "NONE" => WireInv

-----------------------------------------------------------------------------
(* Constants, bytes and frames.                                            *)

LEMMA Constants ==
  /\ LenSize = 2 /\ IdSize = 2 /\ Base \in Nat \ {0, 1}
  /\ Radix \in Nat \ {0, 1} /\ WireCapacity \in Nat
  /\ Base * Base \in Nat /\ Base * Base >= 4
  /\ MaxRemaining \in Nat /\ MaxRemaining >= 15
<1>1. /\ Base \in Nat \ {0, 1} /\ Radix \in Nat \ {0, 1}
      /\ WireCapacity \in Nat
  BY RadixAssumption, StreamAssumption
<1>2. ASSUME NEW b \in Nat \ {0, 1}, NEW c \in Nat, c >= 2
      PROVE  b * c \in Nat /\ b * c >= c + c
  <2>1. PICK d \in Nat : b = 2 + d
    <3>1. b - 2 \in Nat /\ b = 2 + (b - 2)
      OBVIOUS
    <3> QED BY <3>1
  <2>2. b * c = (c + c) + d * c /\ d * c \in Nat
    BY <1>2, <2>1
  <2> QED BY <1>2, <2>2
<1>3. Base * Base \in Nat /\ Base * Base >= 4
  BY <1>1, <1>2
<1>4. Radix * Radix \in Nat /\ Radix * Radix >= 4
  BY <1>1, <1>2
<1>5. Radix * (Radix * Radix) \in Nat /\ Radix * (Radix * Radix) >= 8
  BY <1>1, <1>2, <1>4
<1>6. /\ Radix * (Radix * (Radix * Radix)) \in Nat
      /\ Radix * (Radix * (Radix * Radix)) >= 16
  BY <1>1, <1>2, <1>5
<1>7. MaxRemaining = Radix * (Radix * (Radix * Radix)) - 1
  BY <1>1, SMT DEF MaxRemaining, Weight
<1> QED BY <1>1, <1>3, <1>6, <1>7 DEF LenSize, IdSize

LEMMA BlankOctet == Blank \in Octets
<1> DEFINE o == <<>>
<1>1. o \in Origins
  BY DEF Origins
<1>2. Blank = [type |-> "NONE", qos |-> 0, dup |-> FALSE, more |-> FALSE,
               v |-> 0, of |-> o]
  BY DEF Blank
<1> HIDE DEF o
<1> QED BY <1>1, <1>2 DEF Octets, TypeNames

LEMMA Halves ==
  ASSUME NEW v \in 0 .. Base * Base - 1
  PROVE  /\ v \div Base \in Nat /\ v % Base \in Nat
         /\ (v \div Base) * Base + (v % Base) = v
         /\ Number(v) \in Seq(Octets) /\ Len(Number(v)) = 2
         /\ Number(v)[1].v = v \div Base /\ Number(v)[2].v = v % Base
<1>1. Base \in Nat \ {0} /\ v \in Nat
  BY Constants
<1>2. /\ v \div Base \in Nat /\ v % Base \in Nat
      /\ (v \div Base) * Base + (v % Base) = v
  BY <1>1
<1>3. \A w \in Nat : [Blank EXCEPT !.v = w] \in Octets
  BY BlankOctet DEF Octets
<1>4. \A w \in Nat : [Blank EXCEPT !.v = w].v = w
  BY BlankOctet DEF Octets
<1> DEFINE a == [Blank EXCEPT !.v = v \div Base]
           b == [Blank EXCEPT !.v = v % Base]
<1>5. a \in Octets /\ b \in Octets /\ a.v = v \div Base /\ b.v = v % Base
  BY <1>2, <1>3, <1>4
<1>6. Number(v) = <<a, b>>
  BY DEF Number
<1> HIDE DEF a, b
<1>7. Number(v)[1] = a /\ Number(v)[2] = b /\ Len(Number(v)) = 2
  BY <1>6
<1>8. Number(v) \in Seq(Octets)
  BY <1>5, <1>6
<1> QED BY <1>2, <1>5, <1>7, <1>8

LEMMA TextOctets ==
  ASSUME NEW n \in Nat, NEW s \in StringParts, NEW len \in Nat
  PROVE  Text(n, s, len) \in Seq(Octets) /\ Len(Text(n, s, len)) = len
<1>1. ASSUME NEW i \in Nat
      PROVE  [Blank EXCEPT !.v = i, !.of = <<n, s>>] \in Octets
  <2>1. <<n, s>> \in Origins
    BY DEF Origins
  <2>2. [Blank EXCEPT !.v = i] \in Octets
    BY BlankOctet DEF Octets
  <2>3. \A c \in Octets, o \in Origins : [c EXCEPT !.of = o] \in Octets
    BY DEF Octets
  <2>4. [[Blank EXCEPT !.v = i] EXCEPT !.of = <<n, s>>] \in Octets
    BY <2>1, <2>2, <2>3, Zenon
  <2> QED BY <2>4
<1>2. Text(n, s, len) \in [1 .. len -> Octets]
  <2>1. \A i \in 1 .. len :
          [Blank EXCEPT !.v = i, !.of = <<n, s>>] \in Octets
    <3>1. 1 .. len \subseteq Nat
      OBVIOUS
    <3> QED BY <1>1, <3>1, Zenon
  <2> QED BY <2>1, Zenon DEF Text
<1> QED BY <1>2, SeqDef, LenProperties

LEMMA HeaderOctet ==
  ASSUME NEW type \in TypeNames, NEW dup \in BOOLEAN, NEW qos \in 0 .. 2
  PROVE  /\ HeaderByte(type, dup, qos) \in Octets
         /\ HeaderByte(type, dup, qos).type = type
         /\ HeaderByte(type, dup, qos).dup = dup
         /\ HeaderByte(type, dup, qos).qos = qos
BY BlankOctet DEF HeaderByte, Octets

LEMMA LengthOctets ==
  ASSUME NEW n \in 0 .. MaxRemaining
  PROVE  /\ RemainingSize(n) \in 1 .. 4
         /\ RemainingBytes(n) \in Seq(Octets)
         /\ Len(RemainingBytes(n)) = RemainingSize(n)
<1>1. RemainingSize(n) \in 1 .. 4
  BY SizeExists
<1>2. n \in Nat /\ Radix \in Nat \ {0}
  BY Constants
<1>3. \A i \in 1 .. 4 : Weight[i] \in Nat \ {0}
  <2>1. Radix * Radix \in Nat \ {0}
    BY <1>2
  <2>2. Radix * Radix * Radix \in Nat \ {0}
    BY <1>2, <2>1
  <2>3. 1 .. 4 = {1, 2, 3, 4}
    BY SMT
  <2> QED BY <1>2, <2>1, <2>2, <2>3 DEF Weight
<1>4. \A w \in Nat, more \in BOOLEAN : Digit(w, more) \in Octets
  BY BlankOctet DEF Digit, Octets
<1>5. \A i \in 1 .. RemainingSize(n) :
        Digit((n \div Weight[i]) % Radix, i < RemainingSize(n)) \in Octets
  <2> SUFFICES ASSUME NEW i \in 1 .. RemainingSize(n)
               PROVE  Digit((n \div Weight[i]) % Radix,
                            i < RemainingSize(n)) \in Octets
    OBVIOUS
  <2>1. Weight[i] \in Nat \ {0}
    BY <1>1, <1>3
  <2>2. n \div Weight[i] \in Nat
    BY <1>2, <2>1
  <2>3. (n \div Weight[i]) % Radix \in Nat
    BY <1>2, <2>2
  <2>4. (i < RemainingSize(n)) \in BOOLEAN
    OBVIOUS
  <2> QED BY <1>4, <2>3, <2>4
<1>6. RemainingBytes(n) \in [1 .. RemainingSize(n) -> Octets]
  BY <1>5 DEF RemainingBytes
<1> QED BY <1>1, <1>6, SeqDef, LenProperties

LEMMA KindsOfPackets ==
  /\ \A kind : IsPublish(kind) <=> kind \in PublishKinds
  /\ PublishKinds \cap AckKinds = {}
  /\ \A q : /\ q.kind \in PacketKinds => TypeOf(q) \in TypeNames \ {"NONE"}
            /\ q.kind \in PacketKinds => FlagOf(q) \in 0 .. 2
<1>1. /\ \A kind : IsPublish(kind) <=> kind \in PublishKinds
      /\ PublishKinds \cap AckKinds = {}
  BY DEF IsPublish, PublishKinds, AckKinds
<1>2. \A q : q.kind \in PacketKinds => TypeOf(q) \in TypeNames \ {"NONE"}
  BY DEF PublishKinds, AckKinds, PacketKinds, TypeOf, TypeNames
<1>3. \A kind : QosOf(kind) = IF kind = "PUBLISH_1" THEN 1
                              ELSE IF kind = "PUBLISH_2" THEN 2 ELSE 0
  BY Zenon DEF QosOf
<1>4. \A q : FlagOf(q) \in {0, 1, 2}
  BY <1>3, Zenon DEF FlagOf
<1> QED BY <1>1, <1>2, <1>4

LEMMA FrameFacts ==
  ASSUME NEW q \in Frames
  PROVE  /\ TopicEndOf(q) \in Nat /\ IdEndOf(q) \in Nat
         /\ TopicEndOf(q) <= IdEndOf(q) /\ IdEndOf(q) <= BodySize(q)
         /\ BodySize(q) \in 2 .. MaxRemaining
         /\ q.kind \in PublishKinds =>
              BodySize(q) >= 3 /\ TopicEndOf(q) > LenSize
         /\ HeaderSize(q) \in 2 .. 5 /\ FrameSize(q) \in Nat
         /\ FrameSize(q) = HeaderSize(q) + BodySize(q)
<1>1. /\ q.kind \in PublishKinds \/ q.kind \in AckKinds
      /\ q.text["topic"] \in Seq(Octets) /\ q.text["payload"] \in Seq(Octets)
  BY DEF Frames, PacketKinds, StringParts
<1>2. Len(q.text["topic"]) \in Nat /\ Len(q.text["payload"]) \in Nat
  BY <1>1, LenProperties
<1>3. /\ TopicEndOf(q) \in Nat /\ IdEndOf(q) \in Nat
      /\ TopicEndOf(q) <= IdEndOf(q) /\ IdEndOf(q) <= BodySize(q)
      /\ BodySize(q) \in 2 .. MaxRemaining
      /\ q.kind \in PublishKinds =>
           BodySize(q) >= 3 /\ TopicEndOf(q) > LenSize
  <2>1. CASE q.kind \in PublishKinds
    <3>1. /\ Len(q.text["topic"]) \in 1 .. Base * Base - 1
          /\ LenSize + Len(q.text["topic"])
               + (IF q.kind = "PUBLISH_0" THEN 0 ELSE IdSize)
               + Len(q.text["payload"]) <= MaxRemaining
      BY <2>1 DEF Frames, GoodFrame
    <3>2. /\ TopicEndOf(q) = LenSize + Len(q.text["topic"])
          /\ IdEndOf(q) = TopicEndOf(q)
                            + (IF q.kind = "PUBLISH_0" THEN 0 ELSE IdSize)
          /\ BodySize(q) = IdEndOf(q) + Len(q.text["payload"])
      BY <2>1 DEF TopicEndOf, IdEndOf, BodySize
    <3> DEFINE t == Len(q.text["topic"])
               l == Len(q.text["payload"])
               i == IF q.kind = "PUBLISH_0" THEN 0 ELSE IdSize
    <3>3. i \in {0, 2}
      BY Constants
    <3>4. t \in 1 .. Base * Base - 1
      BY <3>1
    <3>6. l \in Nat
      BY <1>2
    <3>7. LenSize + t + i + l <= MaxRemaining
      BY <3>1
    <3>5. /\ TopicEndOf(q) = 2 + t /\ IdEndOf(q) = TopicEndOf(q) + i
          /\ BodySize(q) = IdEndOf(q) + l
      BY <3>2, Constants
    <3> HIDE DEF t, l, i
    <3>8. t \in Nat /\ t >= 1 /\ 2 + t + i + l <= MaxRemaining
      BY <3>4, <3>7, Constants
    <3> QED BY <3>3, <3>5, <3>6, <3>8, Constants
  <2>2. CASE q.kind \in AckKinds
    <3>1. /\ q.kind # "PUBLISH_0" /\ q.kind \notin PublishKinds
          /\ q.text["payload"] = <<>>
      BY <2>2 DEF Frames, GoodFrame, AckKinds, PublishKinds, StringParts
    <3> QED BY <3>1, Constants DEF TopicEndOf, IdEndOf, BodySize
  <2> QED BY <1>1, <2>1, <2>2
<1>4. HeaderSize(q) \in 2 .. 5
  <2>1. BodySize(q) \in 0 .. MaxRemaining
    BY <1>3, Constants
  <2> QED BY <2>1, SizeExists DEF HeaderSize
<1> QED BY <1>3, <1>4, Constants DEF FrameSize

LEMMA FrameOctets ==
  ASSUME NEW q \in Frames, NEW j \in 1 .. FrameSize(q)
  PROVE  FrameByte(q, j) \in Octets
<1>1. q.kind \in PacketKinds /\ q.dup \in BOOLEAN
  BY DEF Frames
<1>2. CASE j = 1
  BY <1>1, <1>2, HeaderOctet, KindsOfPackets DEF FrameByte
<1>3. CASE j # 1 /\ j <= HeaderSize(q)
  <2>1. BodySize(q) \in 0 .. MaxRemaining /\ HeaderSize(q) \in Nat
    BY FrameFacts, Constants
  <2>2. j - 1 \in 1 .. RemainingSize(BodySize(q))
    BY <1>3, <2>1, FrameFacts, LengthOctets DEF HeaderSize
  <2> QED BY <1>3, <2>1, <2>2, LengthOctets, ElementOfSeq DEF FrameByte
<1>4. CASE j > HeaderSize(q)
  <2> DEFINE b == j - HeaderSize(q)
             topic == q.text["topic"]
             payload == q.text["payload"]
  <2>1. b \in 1 .. BodySize(q) /\ j # 1 /\ ~(j <= HeaderSize(q))
    BY <1>4, FrameFacts, Constants
  <2>2. topic \in Seq(Octets) /\ payload \in Seq(Octets)
    BY DEF Frames, StringParts
  <2>3. FrameByte(q, j) = BodyByte(q, b)
    BY <2>1 DEF FrameByte
  <2>4. CASE b <= TopicEndOf(q)
    <3>1. q.kind \in PublishKinds
      BY <2>1, <2>4 DEF TopicEndOf
    <3>2. Len(topic) \in 0 .. Base * Base - 1 /\ Len(topic) \in Nat
      BY <3>1, Constants DEF Frames, GoodFrame
    <3>3. CASE b <= LenSize
      <4>1. Number(Len(topic)) \in Seq(Octets) /\ Len(Number(Len(topic))) = 2
        BY <3>2, Halves
      <4>2. b \in 1 .. 2
        BY <2>1, <3>3, Constants
      <4>3. Number(Len(topic))[b] \in Octets
        BY <4>1, <4>2, ElementOfSeq
      <4> QED BY <2>3, <2>4, <3>3, <4>3 DEF BodyByte
    <3>4. CASE ~(b <= LenSize)
      <4>1. b - LenSize \in 1 .. Len(topic)
        BY <2>1, <2>4, <3>1, <3>2, <3>4, Constants DEF TopicEndOf
      <4>2. topic[b - LenSize] \in Octets
        BY <2>2, <4>1, ElementOfSeq
      <4> QED BY <2>3, <2>4, <3>4, <4>2 DEF BodyByte
    <3> QED BY <3>3, <3>4
  <2>5. CASE ~(b <= TopicEndOf(q)) /\ b <= IdEndOf(q)
    <3>1. q.id \in 0 .. Base * Base - 1
      BY Constants DEF Frames, GoodFrame
    <3>2. b - TopicEndOf(q) \in 1 .. 2
      BY <2>1, <2>5, FrameFacts, Constants DEF IdEndOf
    <3>3. Number(q.id)[b - TopicEndOf(q)] \in Octets
      BY <3>1, <3>2, Halves, ElementOfSeq
    <3> QED BY <2>3, <2>5, <3>3 DEF BodyByte
  <2>6. CASE ~(b <= TopicEndOf(q)) /\ ~(b <= IdEndOf(q))
    <3>1. b - IdEndOf(q) \in 1 .. Len(payload)
      BY <2>1, <2>2, <2>6, FrameFacts, LenProperties DEF BodySize
    <3>2. payload[b - IdEndOf(q)] \in Octets
      BY <2>2, <3>1, ElementOfSeq
    <3> QED BY <2>3, <2>6, <3>2 DEF BodyByte
  <2> QED BY <2>4, <2>5, <2>6
<1> QED BY <1>2, <1>3, <1>4, FrameFacts, Constants

-----------------------------------------------------------------------------
(* What the encoder writes are the bytes of the packet as it is sent.      *)

(* A message of QoS 0 is encoded only once, so never with DUP.             *)
Fresh(p) == p.kind = "PUBLISH_0" => p.n \notin encoded

LEMMA SentFacts ==
  ASSUME NEW p \in Packets, Fresh(p)
  PROVE  /\ Sent(p) \in Frames /\ Sent(p).kind = p.kind
         /\ Sent(p).id = p.id /\ Sent(p).n = p.n
         /\ Sent(p).dup = (p.kind \in PublishKinds /\ p.n \in encoded)
         /\ Sent(p).text["topic"] = Text(p.n, "topic", p.topic)
         /\ Sent(p).text["payload"] = Text(p.n, "payload", p.payload)
         /\ Len(Sent(p).text["topic"]) = p.topic
         /\ Len(Sent(p).text["payload"]) = p.payload
<1> DEFINE f == [s \in StringParts |-> Text(p.n, s, p[s])]
           d == IsPublish(p.kind) /\ p.n \in encoded
<1>1. /\ p.kind \in PacketKinds /\ p.n \in Nat \ {0} /\ p.id \in Nat
      /\ p.topic \in Nat /\ p.payload \in Nat /\ GoodPacket(p)
  BY DEF Packets
<1>2. /\ f["topic"] = Text(p.n, "topic", p.topic)
      /\ f["payload"] = Text(p.n, "payload", p.payload)
  BY DEF StringParts
<1>3. /\ "topic" \in StringParts /\ "payload" \in StringParts
      /\ StringParts = {"topic", "payload"}
  BY DEF StringParts
<1>4. /\ f["topic"] \in Seq(Octets) /\ Len(f["topic"]) = p.topic
      /\ f["payload"] \in Seq(Octets) /\ Len(f["payload"]) = p.payload
  BY <1>1, <1>2, <1>3, TextOctets
<1>5. f \in [StringParts -> Seq(Octets)]
  BY <1>3, <1>4
<1>6. Sent(p) = [kind |-> p.kind, id |-> p.id, dup |-> d, text |-> f,
                 n |-> p.n]
  BY DEF Sent
<1>7. d \in BOOLEAN /\ d = (p.kind \in PublishKinds /\ p.n \in encoded)
  BY KindsOfPackets
<1> HIDE DEF f, d
<1>8. /\ Sent(p).kind = p.kind /\ Sent(p).id = p.id /\ Sent(p).n = p.n
      /\ Sent(p).dup = d /\ Sent(p).text = f
  BY <1>6
<1>9. Sent(p) \in [kind : PacketKinds, id : Nat, dup : BOOLEAN,
                   text : [StringParts -> Seq(Octets)], n : Nat \ {0}]
  BY <1>1, <1>5, <1>6, <1>7
<1>10. GoodFrame(Sent(p))
  <2>1. p.id < Base * Base
    BY <1>1, Constants DEF GoodPacket
  <2>2. p.kind = "PUBLISH_0" => p.id = 0 /\ ~d
    BY <1>1, <1>7 DEF GoodPacket, Fresh
  <2>3. p.kind \in AckKinds => ~d /\ \A s \in StringParts : f[s] = <<>>
    <3> SUFFICES ASSUME p.kind \in AckKinds
                 PROVE  ~d /\ \A s \in StringParts : f[s] = <<>>
      OBVIOUS
    <3>1. ~d
      BY <1>7, KindsOfPackets
    <3>2. p.topic = 0 /\ p.payload = 0
      BY <1>1 DEF GoodPacket
    <3>3. f["topic"] = <<>> /\ f["payload"] = <<>>
      BY <1>4, <3>2, EmptySeq
    <3> QED BY <1>3, <3>1, <3>3
  <2>4. ASSUME p.kind \in PublishKinds
        PROVE  /\ Len(f["topic"]) \in 1 .. Base * Base - 1
               /\ LenSize + Len(f["topic"])
                    + (IF p.kind = "PUBLISH_0" THEN 0 ELSE IdSize)
                    + Len(f["payload"]) <= MaxRemaining
    <3>1. /\ p.topic < Base * Base /\ p.topic > 0
          /\ PublishLength(p) <= MaxRemaining
      BY <1>1, <2>4 DEF GoodPacket, PublishValid, FieldFits
    <3>2. p.topic \in 1 .. Base * Base - 1
      BY <1>1, <3>1, Constants
    <3> QED BY <1>4, <3>1, <3>2 DEF PublishLength
  <2> QED BY <1>8, <2>1, <2>2, <2>3, <2>4 DEF GoodFrame
<1> QED BY <1>2, <1>4, <1>7, <1>8, <1>9, <1>10 DEF Frames

LEMMA SentSizes ==
  ASSUME NEW p \in Packets, Fresh(p)
  PROVE  /\ p.kind \in PublishKinds =>
              /\ TopicEndOf(Sent(p)) = LenSize + p.topic
              /\ BodySize(Sent(p)) = PublishLength(p)
         /\ p.kind \in AckKinds =>
              /\ TopicEndOf(Sent(p)) = 0 /\ IdEndOf(Sent(p)) = IdSize
              /\ BodySize(Sent(p)) = IdSize
         /\ IdEndOf(Sent(p)) = TopicEndOf(Sent(p))
                                 + (IF p.kind = "PUBLISH_0" THEN 0 ELSE IdSize)
         /\ BodySize(Sent(p)) = IdEndOf(Sent(p)) + p.payload
<1>1. /\ Sent(p).kind = p.kind /\ Len(Sent(p).text["topic"]) = p.topic
      /\ Len(Sent(p).text["payload"]) = p.payload
  BY SentFacts
<1>2. /\ IdEndOf(Sent(p)) = TopicEndOf(Sent(p))
                              + (IF p.kind = "PUBLISH_0" THEN 0 ELSE IdSize)
      /\ BodySize(Sent(p)) = IdEndOf(Sent(p)) + p.payload
  BY <1>1 DEF IdEndOf, BodySize
<1>3. ASSUME p.kind \in PublishKinds
      PROVE  /\ TopicEndOf(Sent(p)) = LenSize + p.topic
             /\ BodySize(Sent(p)) = PublishLength(p)
  <2>1. TopicEndOf(Sent(p)) = LenSize + p.topic
    BY <1>1, <1>3 DEF TopicEndOf
  <2> QED BY <1>2, <2>1 DEF PublishLength
<1>4. ASSUME p.kind \in AckKinds
      PROVE  /\ TopicEndOf(Sent(p)) = 0 /\ IdEndOf(Sent(p)) = IdSize
             /\ BodySize(Sent(p)) = IdSize
  <2>1. p.kind \notin PublishKinds /\ p.kind # "PUBLISH_0" /\ p.payload = 0
    BY <1>4, KindsOfPackets DEF Packets, GoodPacket, AckKinds
  <2>2. TopicEndOf(Sent(p)) = 0
    BY <1>1, <2>1 DEF TopicEndOf
  <2> QED BY <1>2, <2>1, <2>2, Constants
<1> QED BY <1>2, <1>3, <1>4

(* The bytes of a part follow those of the parts before it.                *)
HasBytes(p, name, size) ==
  /\ Bytes(p, name) \in Seq(Octets) /\ Len(Bytes(p, name)) = size
  /\ size \in Nat \ {0} /\ StartOf(p, name) \in Nat
  /\ \A x \in 1 .. size :
       Bytes(p, name)[x] = FrameByte(Sent(p), StartOf(p, name) + x)

LEMMA StartsOf ==
  ASSUME NEW p
  PROVE  /\ StartOf(p, "fixed") = 0
         /\ StartOf(p, "topic") = HeaderSize(Sent(p))
         /\ StartOf(p, "id") = HeaderSize(Sent(p)) + TopicEndOf(Sent(p))
         /\ StartOf(p, "payload") = HeaderSize(Sent(p)) + IdEndOf(Sent(p))
         /\ Bytes(p, "fixed") = FixedHeader(p, p.n \in encoded)
         /\ Bytes(p, "topic") =
              Number(p.topic) \o Text(p.n, "topic", p.topic)
         /\ Bytes(p, "id") = Number(p.id)
         /\ Bytes(p, "payload") = Text(p.n, "payload", p.payload)
BY Zenon DEF StartOf, Bytes

LEMMA Joined ==
  ASSUME NEW s \in Seq(Octets), NEW t \in Seq(Octets),
         NEW k \in Nat, k = Len(s)
  PROVE  /\ s \o t \in Seq(Octets) /\ Len(s \o t) = k + Len(t)
         /\ \A x \in 1 .. k : (s \o t)[x] = s[x]
         /\ \A x \in k + 1 .. k + Len(t) : (s \o t)[x] = t[x - k]
BY ConcatProperties

LEMMA FixedOfPublish ==
  ASSUME NEW p \in Packets, Fresh(p), p.kind \in PublishKinds
  PROVE  HasBytes(p, "fixed", HeaderSize(Sent(p)))
<1> DEFINE q == Sent(p)
           h == HeaderByte("PUBLISH", p.n \in encoded, QosOf(p.kind))
           r == RemainingBytes(BodySize(q))
           bytes == Bytes(p, "fixed")
<1>1. /\ q \in Frames /\ q.kind = p.kind /\ q.dup = (p.n \in encoded)
      /\ BodySize(q) = PublishLength(p)
  BY SentFacts, SentSizes
<1>2. bytes = <<h>> \o r
  BY <1>1, StartsOf, KindsOfPackets DEF FixedHeader
<1>3. h = HeaderByte(TypeOf(q), q.dup, FlagOf(q)) /\ h \in Octets
  <2>1. p.kind # "PUBREL"
    BY DEF PublishKinds
  <2>2. TypeOf(q) = "PUBLISH" /\ FlagOf(q) = QosOf(p.kind)
    BY <1>1, <2>1 DEF TypeOf, FlagOf
  <2>3. /\ TypeOf(q) \in TypeNames /\ FlagOf(q) \in 0 .. 2
        /\ q.dup \in BOOLEAN
    BY <1>1, KindsOfPackets DEF Frames
  <2> QED BY <1>1, <2>2, <2>3, HeaderOctet
<1>4. BodySize(q) \in 0 .. MaxRemaining /\ HeaderSize(q) \in 2 .. 5
  BY <1>1, FrameFacts, Constants
<1>5. /\ r \in Seq(Octets) /\ Len(r) = RemainingSize(BodySize(q))
      /\ Len(r) \in 1 .. 4 /\ HeaderSize(q) = 1 + Len(r)
  BY <1>4, LengthOctets DEF HeaderSize
<1> HIDE DEF h, r
<1>6. <<h>> \in Seq(Octets) /\ Len(<<h>>) = 1 /\ <<h>>[1] = h
  BY <1>3
<1>7. /\ bytes \in Seq(Octets) /\ Len(bytes) = HeaderSize(q)
      /\ bytes[1] = h
      /\ \A x \in 2 .. HeaderSize(q) : bytes[x] = r[x - 1]
  BY <1>2, <1>5, <1>6, ConcatProperties
<1>8. ASSUME NEW x \in 1 .. HeaderSize(q)
      PROVE  bytes[x] = FrameByte(q, x)
  <2>1. CASE x = 1
    BY <1>3, <1>7, <2>1 DEF FrameByte
  <2>2. CASE x # 1
    <3>1. x \in 2 .. HeaderSize(q) /\ x <= HeaderSize(q)
      BY <1>4, <2>2
    <3> QED BY <1>7, <2>2, <3>1 DEF FrameByte, r
  <2> QED BY <2>1, <2>2
<1>9. /\ StartOf(p, "fixed") = 0 /\ HeaderSize(q) \in Nat \ {0}
      /\ \A x \in 1 .. HeaderSize(q) : 0 + x = x
  BY <1>4, StartsOf
<1> HIDE DEF q, bytes
<1>10. \A x \in 1 .. HeaderSize(q) : bytes[x] = FrameByte(q, 0 + x)
  BY <1>8, <1>9
<1> QED BY <1>7, <1>9, <1>10 DEF HasBytes, q, bytes

LEMMA FixedOfAck ==
  ASSUME NEW p \in Packets, Fresh(p), p.kind \in AckKinds
  PROVE  HasBytes(p, "fixed", FrameSize(Sent(p)))
<1> DEFINE q == Sent(p)
           h == HeaderByte(p.kind, FALSE, IF p.kind = "PUBREL" THEN 1 ELSE 0)
           r == RemainingBytes(BodySize(q))
           m == Number(p.id)
           bytes == Bytes(p, "fixed")
<1>1. /\ q \in Frames /\ q.kind = p.kind /\ ~q.dup /\ q.id = p.id
      /\ BodySize(q) = 2 /\ TopicEndOf(q) = 0 /\ IdEndOf(q) = 2
      /\ FrameSize(q) = HeaderSize(q) + 2
  BY SentFacts, SentSizes, KindsOfPackets, Constants DEF FrameSize
<1>2. p.kind \notin PublishKinds
  BY KindsOfPackets
<1>3. bytes = (<<h>> \o r) \o m
  <2>1. bytes = FixedHeader(p, p.n \in encoded)
    BY StartsOf
  <2>2. ~IsPublish(p.kind)
    BY <1>2, KindsOfPackets
  <2>3. BodySize(q) = IdSize
    BY <1>1, Constants
  <2> QED BY <2>1, <2>2, <2>3 DEF FixedHeader
<1>4. h = HeaderByte(TypeOf(q), q.dup, FlagOf(q)) /\ h \in Octets
  <2>1. p.kind # "PUBLISH_1" /\ p.kind # "PUBLISH_2"
    BY DEF AckKinds
  <2>2. QosOf(p.kind) = 0
    BY <2>1, Zenon DEF QosOf
  <2>3. /\ TypeOf(q) = p.kind /\ q.dup = FALSE
        /\ FlagOf(q) = IF p.kind = "PUBREL" THEN 1 ELSE 0
    BY <1>1, <1>2, <2>2 DEF TypeOf, FlagOf
  <2>4. /\ TypeOf(q) \in TypeNames /\ FlagOf(q) \in 0 .. 2
        /\ q.dup \in BOOLEAN
    BY <1>1, KindsOfPackets DEF Frames
  <2> QED BY <2>3, <2>4, HeaderOctet
<1>5. BodySize(q) \in 0 .. MaxRemaining /\ HeaderSize(q) \in 2 .. 5
  BY <1>1, FrameFacts, Constants
<1>6. /\ r \in Seq(Octets) /\ Len(r) = RemainingSize(BodySize(q))
      /\ Len(r) \in 1 .. 4 /\ HeaderSize(q) = 1 + Len(r)
  BY <1>5, LengthOctets DEF HeaderSize
<1>7. m \in Seq(Octets) /\ Len(m) = 2
  <2>1. p.id \in 0 .. Base * Base - 1
    BY <1>1, Constants DEF Frames, GoodFrame
  <2> QED BY <2>1, Halves
<1> HIDE DEF h, r, m
<1>8. <<h>> \in Seq(Octets) /\ Len(<<h>>) = 1 /\ <<h>>[1] = h
  BY <1>4
<1> DEFINE front == <<h>> \o r
<1>9. /\ front \in Seq(Octets) /\ Len(front) = HeaderSize(q)
      /\ front[1] = h
      /\ \A x \in 2 .. HeaderSize(q) : front[x] = r[x - 1]
  BY <1>6, <1>8, ConcatProperties
<1> HIDE DEF front
<1>10. bytes = front \o m
  BY <1>3 DEF front
<1>11. /\ bytes \in Seq(Octets) /\ Len(bytes) = HeaderSize(q) + 2
       /\ \A x \in 1 .. HeaderSize(q) : bytes[x] = front[x]
       /\ \A x \in HeaderSize(q) + 1 .. HeaderSize(q) + 2 :
            bytes[x] = m[x - HeaderSize(q)]
  <2>1. HeaderSize(q) \in Nat
    BY <1>5
  <2>2. PICK k \in Nat : k = HeaderSize(q)
    BY <2>1
  <2>3. /\ front \o m \in Seq(Octets) /\ Len(front \o m) = k + Len(m)
        /\ \A x \in 1 .. k : (front \o m)[x] = front[x]
        /\ \A x \in k + 1 .. k + Len(m) : (front \o m)[x] = m[x - k]
    <3>1. front \in Seq(Octets) /\ m \in Seq(Octets) /\ k = Len(front)
      BY <1>7, <1>9, <2>2
    <3> HIDE DEF q, bytes
    <3> QED BY <3>1, Joined
  <2> QED BY <1>7, <1>10, <2>2, <2>3, Zenon
<1>12. ASSUME NEW x \in 1 .. FrameSize(q)
       PROVE  bytes[x] = FrameByte(q, x)
  <2>1. CASE x = 1
    <3>1. 1 \in 1 .. HeaderSize(q)
      BY <1>5
    <3> QED BY <1>4, <1>9, <1>11, <2>1, <3>1 DEF FrameByte
  <2>2. CASE x # 1 /\ x <= HeaderSize(q)
    <3>1. x \in 2 .. HeaderSize(q) /\ x \in 1 .. HeaderSize(q)
      BY <1>5, <2>2
    <3> QED BY <1>9, <1>11, <2>2, <3>1 DEF FrameByte, r
  <2>3. CASE x > HeaderSize(q)
    <3>1. /\ x \in HeaderSize(q) + 1 .. HeaderSize(q) + 2
          /\ x - HeaderSize(q) \in 1 .. 2
          /\ x # 1 /\ ~(x <= HeaderSize(q))
      BY <1>1, <1>5, <2>3
    <3>2. BodyByte(q, x - HeaderSize(q)) = m[x - HeaderSize(q)]
      <4>1. /\ ~(x - HeaderSize(q) <= TopicEndOf(q))
            /\ x - HeaderSize(q) <= IdEndOf(q)
            /\ (x - HeaderSize(q)) - TopicEndOf(q) = x - HeaderSize(q)
        BY <1>1, <1>5, <3>1
      <4> QED BY <1>1, <4>1 DEF BodyByte, m
    <3> QED BY <1>11, <3>1, <3>2 DEF FrameByte
  <2> QED BY <1>5, <2>1, <2>2, <2>3
<1>13. StartOf(p, "fixed") = 0 /\ FrameSize(q) \in Nat \ {0}
  <2>1. FrameSize(q) = HeaderSize(q) + 2 /\ HeaderSize(q) \in 2 .. 5
    BY <1>1, <1>5
  <2> HIDE DEF q
  <2> QED BY <2>1, StartsOf
<1> HIDE DEF q, bytes
<1>14. \A x \in 1 .. FrameSize(q) : bytes[x] = FrameByte(q, 0 + x)
  BY <1>12, <1>13
<1>15. Len(bytes) = FrameSize(q)
  BY <1>1, <1>11
<1> QED BY <1>11, <1>13, <1>14, <1>15 DEF HasBytes, q, bytes

LEMMA TopicOfPublish ==
  ASSUME NEW p \in Packets, Fresh(p), p.kind \in PublishKinds
  PROVE  HasBytes(p, "topic", TopicEndOf(Sent(p)))
<1> DEFINE q == Sent(p)
           m == Number(p.topic)
           t == Text(p.n, "topic", p.topic)
           hs == HeaderSize(q)
           bytes == Bytes(p, "topic")
<1>1. /\ q \in Frames /\ q.text["topic"] = t /\ Len(q.text["topic"]) = p.topic
      /\ TopicEndOf(q) = 2 + p.topic /\ q.kind \in PublishKinds
  BY SentFacts, SentSizes, Constants
<1>2. p.topic \in 0 .. Base * Base - 1 /\ p.topic \in Nat /\ p.n \in Nat
  BY SMTT(30), <1>1, Constants DEF Frames, GoodFrame, Packets
<1>3. m \in Seq(Octets) /\ Len(m) = 2
  BY <1>2, Halves
<1>4. t \in Seq(Octets) /\ Len(t) = p.topic
  BY <1>2, TextOctets DEF StringParts
<1>5. bytes = m \o t /\ StartOf(p, "topic") = hs
  BY StartsOf
<1>6. hs \in 2 .. 5
  BY <1>1, FrameFacts
<1>7. /\ TopicEndOf(q) \in Nat \ {0}
      /\ \A x \in 1 .. TopicEndOf(q) :
           /\ hs + x # 1 /\ ~(hs + x <= hs) /\ (hs + x) - hs = x
           /\ x <= TopicEndOf(q)
  BY <1>1, <1>2, <1>6
<1>8. \A x \in 1 .. TopicEndOf(q) : FrameByte(q, hs + x) =
        IF x <= 2 THEN m[x] ELSE t[x - 2]
  <2> SUFFICES ASSUME NEW x \in 1 .. TopicEndOf(q)
               PROVE  FrameByte(q, hs + x) = IF x <= 2 THEN m[x] ELSE t[x - 2]
    OBVIOUS
  <2>1. FrameByte(q, hs + x) = BodyByte(q, x)
    BY <1>7 DEF FrameByte
  <2>2. BodyByte(q, x) = IF x <= LenSize THEN m[x] ELSE t[x - LenSize]
    BY <1>1, <1>7 DEF BodyByte
  <2> QED BY <2>1, <2>2, Constants
<1> HIDE DEF m, t, hs, q, bytes
<1>9. /\ bytes \in Seq(Octets) /\ Len(bytes) = 2 + p.topic
      /\ \A x \in 1 .. 2 : bytes[x] = m[x]
      /\ \A x \in 2 + 1 .. 2 + p.topic : bytes[x] = t[x - 2]
  <2>1. /\ m \o t \in Seq(Octets) /\ Len(m \o t) = 2 + Len(t)
        /\ \A x \in 1 .. 2 : (m \o t)[x] = m[x]
        /\ \A x \in 2 + 1 .. 2 + Len(t) : (m \o t)[x] = t[x - 2]
    <3>1. 2 \in Nat /\ 2 = Len(m)
      BY <1>3
    <3> QED BY <1>3, <1>4, <3>1, Joined
  <2> QED BY <1>4, <1>5, <2>1, Zenon
<1>10. \A x \in 1 .. TopicEndOf(q) : bytes[x] = FrameByte(q, hs + x)
  <2> SUFFICES ASSUME NEW x \in 1 .. TopicEndOf(q)
               PROVE  bytes[x] = FrameByte(q, hs + x)
    OBVIOUS
  <2>1. CASE x <= 2
    BY <1>8, <1>9, <2>1
  <2>2. CASE x > 2
    <3>1. x \in 2 + 1 .. 2 + p.topic /\ ~(x <= 2)
      BY <1>1, <1>2, <2>2
    <3> QED BY <1>8, <1>9, <3>1
  <2> QED BY <1>1, <1>2, <2>1, <2>2
<1>11. hs \in Nat /\ Len(bytes) = TopicEndOf(q)
  BY <1>1, <1>6, <1>9
<1> QED BY <1>5, <1>7, <1>9, <1>10, <1>11 DEF HasBytes, q, bytes

LEMMA IdOfPublish ==
  ASSUME NEW p \in Packets, Fresh(p), p.kind \in PublishKinds,
         p.kind # "PUBLISH_0"
  PROVE  HasBytes(p, "id", 2)
<1> DEFINE q == Sent(p)
           m == Number(p.id)
           te == TopicEndOf(q)
           start == StartOf(p, "id")
           bytes == Bytes(p, "id")
<1>1. q \in Frames /\ q.id = p.id /\ IdEndOf(q) = te + 2
  BY SentFacts, SentSizes, Constants
<1>2. m \in Seq(Octets) /\ Len(m) = 2
  <2>1. p.id \in 0 .. Base * Base - 1
    BY <1>1, Constants DEF Frames, GoodFrame
  <2> QED BY <2>1, Halves
<1>3. bytes = m /\ start = HeaderSize(q) + te
  BY StartsOf
<1>4. HeaderSize(q) \in 2 .. 5 /\ te \in Nat
  BY <1>1, FrameFacts
<1>5. ASSUME NEW x \in 1 .. 2
      PROVE  m[x] = FrameByte(q, start + x)
  <2>1. /\ start + x # 1 /\ ~(start + x <= HeaderSize(q))
        /\ (start + x) - HeaderSize(q) = te + x
        /\ ~(te + x <= te) /\ te + x <= IdEndOf(q)
        /\ (te + x) - te = x
    <3> HIDE DEF q, te, start
    <3> QED BY <1>1, <1>3, <1>4
  <2>2. FrameByte(q, start + x) = BodyByte(q, te + x)
    BY <2>1 DEF FrameByte
  <2>3. BodyByte(q, te + x) = m[x]
    BY <1>1, <2>1 DEF BodyByte
  <2> QED BY <2>2, <2>3
<1> HIDE DEF q, te, start, bytes, m
<1>6. start \in Nat
  BY <1>3, <1>4
<1> QED BY <1>2, <1>3, <1>5, <1>6 DEF HasBytes, q, bytes, start

LEMMA PayloadOfPublish ==
  ASSUME NEW p \in Packets, Fresh(p), p.kind \in PublishKinds, p.payload # 0
  PROVE  HasBytes(p, "payload", p.payload)
<1> DEFINE q == Sent(p)
           t == Text(p.n, "payload", p.payload)
           ie == IdEndOf(q)
           start == StartOf(p, "payload")
           bytes == Bytes(p, "payload")
<1>1. q \in Frames /\ q.text["payload"] = t
  BY SentFacts
<1>2. p.payload \in Nat /\ p.n \in Nat
  BY DEF Packets
<1>3. t \in Seq(Octets) /\ Len(t) = p.payload
  BY <1>2, TextOctets DEF StringParts
<1>4. bytes = t /\ start = HeaderSize(q) + ie
  BY StartsOf
<1>5. HeaderSize(q) \in 2 .. 5 /\ ie \in Nat /\ TopicEndOf(q) \in Nat
      /\ TopicEndOf(q) <= ie
  BY <1>1, FrameFacts
<1>6. ASSUME NEW x \in 1 .. p.payload
      PROVE  t[x] = FrameByte(q, start + x)
  <2>1. /\ start + x # 1 /\ ~(start + x <= HeaderSize(q))
        /\ (start + x) - HeaderSize(q) = ie + x
        /\ ~(ie + x <= TopicEndOf(q)) /\ ~(ie + x <= ie)
        /\ (ie + x) - ie = x
    <3> HIDE DEF q, ie, start
    <3> QED BY <1>2, <1>4, <1>5
  <2>2. FrameByte(q, start + x) = BodyByte(q, ie + x)
    BY <2>1 DEF FrameByte
  <2>3. BodyByte(q, ie + x) = t[x]
    BY <1>1, <2>1 DEF BodyByte
  <2> QED BY <2>2, <2>3
<1> HIDE DEF q, ie, start, bytes, t
<1>7. start \in Nat /\ p.payload \in Nat \ {0}
  BY <1>2, <1>4, <1>5
<1> QED BY <1>3, <1>4, <1>6, <1>7 DEF HasBytes, q, bytes, start

(* The i-th part that the finder returns, and the one behind it.           *)
PartOK(p, i) ==
  LET name == Names(p)[i]
      size == Len(Bytes(p, name))
  IN /\ name \in {"fixed", "topic", "id", "payload"}
     /\ name = "topic" => TopicEndOf(Sent(p)) > LenSize
     /\ HasBytes(p, name, size)
     /\ i < Len(Names(p)) =>
          StartOf(p, Names(p)[i + 1]) = StartOf(p, name) + size
     /\ i = Len(Names(p)) =>
          StartOf(p, name) + size = FrameSize(Sent(p))

LEMMA PartFacts ==
  ASSUME NEW p \in Packets, Fresh(p)
  PROVE  /\ Len(Names(p)) \in Nat \ {0} /\ Names(p)[1] = "fixed"
         /\ \A i \in 1 .. Len(Names(p)) : PartOK(p, i)
<1> DEFINE q == Sent(p)
           hs == HeaderSize(q)
           te == TopicEndOf(q)
           ie == IdEndOf(q)
<1>1. /\ q \in Frames /\ hs \in 2 .. 5 /\ te \in Nat /\ ie \in Nat
      /\ p.kind \in PublishKinds \/ p.kind \in AckKinds
      /\ p.payload \in Nat
      /\ FrameSize(q) = hs + (ie + p.payload)
      /\ p.kind \in PublishKinds => te > LenSize
  BY SentFacts, SentSizes, FrameFacts DEF Packets, PacketKinds, FrameSize
<1>2. /\ StartOf(p, "fixed") = 0 /\ StartOf(p, "topic") = hs
      /\ StartOf(p, "id") = hs + te /\ StartOf(p, "payload") = hs + ie
  BY StartsOf
<1>3. CASE p.kind \in AckKinds
  <2>1. Names(p) = <<"fixed">>
    BY <1>3, KindsOfPackets DEF Names
  <2>2. HasBytes(p, "fixed", FrameSize(q))
    BY <1>3, FixedOfAck
  <2>3. Len(Bytes(p, "fixed")) = FrameSize(q) /\ FrameSize(q) \in Nat
    BY <2>2 DEF HasBytes
  <2>4. PartOK(p, 1)
    <3> HIDE DEF q, hs, te, ie
    <3>1. Names(p)[1] = "fixed" /\ Len(Names(p)) = 1
      BY <2>1
    <3>2. 0 + FrameSize(q) = FrameSize(q)
      BY <2>3
    <3> QED BY <1>2, <2>2, <2>3, <3>1, <3>2 DEF PartOK, q
  <2> QED BY <2>1, <2>4
<1>4. CASE p.kind \in PublishKinds
  <2>1. /\ HasBytes(p, "fixed", hs) /\ HasBytes(p, "topic", te)
        /\ p.kind # "PUBLISH_0" => HasBytes(p, "id", 2)
        /\ p.payload # 0 => HasBytes(p, "payload", p.payload)
    BY <1>4, FixedOfPublish, TopicOfPublish, IdOfPublish, PayloadOfPublish
  <2>2. /\ Len(Bytes(p, "fixed")) = hs /\ Len(Bytes(p, "topic")) = te
        /\ p.kind # "PUBLISH_0" => Len(Bytes(p, "id")) = 2
        /\ p.payload # 0 => Len(Bytes(p, "payload")) = p.payload
    BY <2>1 DEF HasBytes
  <2>3. ie = te + (IF p.kind = "PUBLISH_0" THEN 0 ELSE 2)
    BY SentSizes, Constants
  <2>4. Names(p) = <<"fixed", "topic">>
           \o (IF p.kind = "PUBLISH_0" THEN <<>> ELSE <<"id">>)
           \o (IF p.payload = 0 THEN <<>> ELSE <<"payload">>)
    BY <1>4, KindsOfPackets DEF Names
  <2> HIDE DEF q, hs, te, ie
  <2>5. CASE p.kind = "PUBLISH_0" /\ p.payload = 0
    <3>1. Names(p) = <<"fixed", "topic">>
      BY <2>4, <2>5
    <3>2. /\ Names(p)[1] = "fixed" /\ Names(p)[2] = "topic"
          /\ Len(Names(p)) = 2 /\ 1 .. 2 = {1, 2}
      BY <3>1, SMT
    <3>3. 0 + hs = hs /\ hs + te = FrameSize(q)
      BY <1>1, <2>3, <2>5
    <3>4. PartOK(p, 1)
      BY <1>2, <2>1, <2>2, <3>2, <3>3 DEF PartOK, q
    <3>5. PartOK(p, 2)
      BY <1>1, <1>2, <1>4, <2>1, <2>2, <3>2, <3>3 DEF PartOK, q, te
    <3> QED BY <3>2, <3>4, <3>5
  <2>6. CASE p.kind = "PUBLISH_0" /\ p.payload # 0
    <3>1. Names(p) = <<"fixed", "topic">> \o <<>> \o <<"payload">>
      BY <2>4, <2>6, Zenon
    <3>2. /\ Names(p)[1] = "fixed" /\ Names(p)[2] = "topic"
          /\ Names(p)[3] = "payload"
          /\ Len(Names(p)) = 3 /\ 1 .. 3 = {1, 2, 3}
      BY <3>1, SMT
    <3>3. /\ 0 + hs = hs /\ hs + ie = hs + te
          /\ (hs + ie) + p.payload = FrameSize(q)
      BY <1>1, <2>3, <2>6
    <3>4. PartOK(p, 1)
      BY <1>2, <2>1, <2>2, <3>2, <3>3 DEF PartOK, q
    <3>5. PartOK(p, 2)
      BY <1>1, <1>2, <1>4, <2>1, <2>2, <3>2, <3>3 DEF PartOK, q, te
    <3>6. PartOK(p, 3)
      BY <1>2, <2>1, <2>2, <2>6, <3>2, <3>3 DEF PartOK, q
    <3> QED BY <3>2, <3>4, <3>5, <3>6
  <2>7. CASE p.kind # "PUBLISH_0" /\ p.payload = 0
    <3>1. Names(p) = <<"fixed", "topic">> \o <<"id">> \o <<>>
      BY <2>4, <2>7, Zenon
    <3>2. /\ Names(p)[1] = "fixed" /\ Names(p)[2] = "topic"
          /\ Names(p)[3] = "id"
          /\ Len(Names(p)) = 3 /\ 1 .. 3 = {1, 2, 3}
      BY <3>1, SMT
    <3>3. 0 + hs = hs /\ (hs + te) + 2 = FrameSize(q)
      BY <1>1, <2>3, <2>7
    <3>4. PartOK(p, 1)
      BY <1>2, <2>1, <2>2, <3>2, <3>3 DEF PartOK, q
    <3>5. PartOK(p, 2)
      BY <1>1, <1>2, <1>4, <2>1, <2>2, <3>2, <3>3 DEF PartOK, q, te
    <3>6. PartOK(p, 3)
      <4>1. /\ HasBytes(p, "id", Len(Bytes(p, "id")))
            /\ Len(Bytes(p, "id")) = 2
        BY <2>1, <2>2, <2>7
      <4>2. "id" # "topic" /\ ~(3 < 3)
        OBVIOUS
      <4>3. /\ StartOf(p, "id") + 2 = (hs + te) + 2
            /\ StartOf(p, "payload") = hs + ie
        BY <1>2
      <4>4. StartOf(p, Names(p)[3]) + Len(Bytes(p, Names(p)[3]))
              = FrameSize(Sent(p))
        BY <3>2, <3>3, <4>1, <4>3 DEF q
      <4> QED BY <3>2, <4>1, <4>2, <4>4, Zenon DEF PartOK
    <3> QED BY <3>2, <3>4, <3>5, <3>6
  <2>8. CASE p.kind # "PUBLISH_0" /\ p.payload # 0
    <3>1. Names(p) = <<"fixed", "topic">> \o <<"id">> \o <<"payload">>
      BY <2>4, <2>8, Zenon
    <3>2. /\ Names(p)[1] = "fixed" /\ Names(p)[2] = "topic"
          /\ Names(p)[3] = "id" /\ Names(p)[4] = "payload"
          /\ Len(Names(p)) = 4 /\ 1 .. 4 = {1, 2, 3, 4}
      BY <3>1, SMT
    <3>3. /\ 0 + hs = hs /\ hs + ie = (hs + te) + 2
          /\ (hs + ie) + p.payload = FrameSize(q)
      BY <1>1, <2>3, <2>8
    <3>4. PartOK(p, 1)
      BY <1>2, <2>1, <2>2, <3>2, <3>3 DEF PartOK, q
    <3>5. PartOK(p, 2)
      BY <1>1, <1>2, <1>4, <2>1, <2>2, <3>2, <3>3 DEF PartOK, q, te
    <3>6. PartOK(p, 3)
      <4>1. /\ HasBytes(p, "id", Len(Bytes(p, "id")))
            /\ Len(Bytes(p, "id")) = 2
        BY <2>1, <2>2, <2>8
      <4>2. "id" # "topic" /\ 3 + 1 = 4 /\ 3 < 4 /\ 3 # 4
        OBVIOUS
      <4>3. /\ StartOf(p, "id") + 2 = (hs + te) + 2
            /\ StartOf(p, "payload") = hs + ie
        BY <1>2
      <4>4. Names(p)[3 + 1] = "payload" /\ ~(3 = Len(Names(p)))
        BY <3>2, <4>2
      <4>5. StartOf(p, Names(p)[3 + 1]) = StartOf(p, Names(p)[3])
                                            + Len(Bytes(p, Names(p)[3]))
        BY <3>2, <3>3, <4>1, <4>3, <4>4
      <4> QED BY <3>2, <4>1, <4>2, <4>4, <4>5, Zenon DEF PartOK
    <3>7. PartOK(p, 4)
      BY <1>2, <2>1, <2>2, <2>8, <3>2, <3>3 DEF PartOK, q
    <3> QED BY <3>2, <3>4, <3>5, <3>6, <3>7
  <2> QED BY <2>5, <2>6, <2>7, <2>8
<1> QED BY <1>1, <1>3, <1>4

(* One call of a part's encoder takes a byte at least, and no more than    *)
(* are left.                                                               *)
LEMMA EncodableFacts ==
  ASSUME NEW name, NEW size \in Nat, NEW room \in Nat, offset \in Nat,
         offset < size, NEW k \in Encodable(name, size, room)
  PROVE  k \in 1 .. size - offset /\ k <= room
<1> DEFINE most == Smaller(size - offset, room)
           prefix == IF name = "topic" /\ offset < LenSize
                       THEN LenSize - offset ELSE 0
<1>1. /\ most \in Nat /\ most <= size - offset /\ most <= room
      /\ prefix \in Nat
  BY Constants DEF Smaller
<1>2. k \in prefix + 1 .. most \/ k \in {most} \ {0}
  BY DEF Encodable
<1> HIDE DEF most, prefix
<1> QED BY <1>1, <1>2

-----------------------------------------------------------------------------
(* The decoder, byte by byte.                                              *)

LEMMA ReadingFacts ==
  ASSUME NEW n \in 0 .. MaxRemaining
  PROVE  /\ Reading(n)[0] = FreshLength
         /\ \A i \in 1 .. RemainingSize(n) :
              Reading(n)[i] = LengthStep(Reading(n)[i - 1],
                                         RemainingBytes(n)[i])
         /\ Reading(n)[RemainingSize(n)].acc = n
         /\ Reading(n)[RemainingSize(n)].finished
         /\ ~Reading(n)[RemainingSize(n)].bad
         /\ \A i \in 1 .. RemainingSize(n) - 1 :
              ~Reading(n)[i].finished /\ ~Reading(n)[i].bad
<1> DEFINE b == RemainingBytes(n)
           h1 == LengthStep(FreshLength, b[1])
           h2 == LengthStep(h1, b[2])
           h3 == LengthStep(h2, b[3])
           h4 == LengthStep(h3, b[4])
           h == Reading(n)
<1>1. h = [i \in 0 .. 4 |-> IF i = 0 THEN FreshLength ELSE IF i = 1 THEN h1
                            ELSE IF i = 2 THEN h2 ELSE IF i = 3 THEN h3
                            ELSE h4]
  BY Zenon DEF Reading
<1>2. /\ h1 = LengthStep(FreshLength, b[1]) /\ h2 = LengthStep(h1, b[2])
      /\ h3 = LengthStep(h2, b[3]) /\ h4 = LengthStep(h3, b[4])
  OBVIOUS
<1> HIDE DEF h, h1, h2, h3, h4, b
<1>3. h[0] = FreshLength /\ h[1] = h1 /\ h[2] = h2 /\ h[3] = h3 /\ h[4] = h4
  BY <1>1
<1>4. ASSUME NEW i \in 1 .. 4
      PROVE  h[i] = LengthStep(h[i - 1], b[i])
  <2>1. i \in {1, 2, 3, 4} /\ 1 - 1 = 0 /\ 2 - 1 = 1 /\ 3 - 1 = 2 /\ 4 - 1 = 3
    BY SMT
  <2> QED BY <1>2, <1>3, <2>1, Zenon
<1>5. RemainingSize(n) \in 1 .. 4
  BY LengthOctets
<1>6. \A i \in 1 .. RemainingSize(n) :
        h[i] = LengthStep(h[i - 1], RemainingBytes(n)[i])
  BY <1>4, <1>5 DEF b
<1>7. /\ h[RemainingSize(n)].acc = n
      /\ h[RemainingSize(n)].finished /\ ~h[RemainingSize(n)].bad
      /\ \A i \in 1 .. RemainingSize(n) - 1 : ~h[i].finished /\ ~h[i].bad
  BY <1>3, <1>6, RemainingLengthRoundTrip
<1> QED BY <1>3, <1>6, <1>7 DEF h

(* What fixed_header_decode makes of one byte.                             *)
Header(r, b) ==
  LET length == LengthStep(r.length, b) IN
    IF ~r.started
      THEN [r EXCEPT !.started = TRUE, !.type = b.type,
              !.qos = b.qos, !.dup = b.dup,
              !.error = IF BadFlags(b) THEN "FLAGS"
                        ELSE IF b.type = "NONE" THEN "TYPE" ELSE @]
      ELSE [r EXCEPT !.length = length,
              !.error = IF length.bad THEN "LENGTH"
                        ELSE IF length.finished
                                /\ length.acc < MinLength(r.type)
                               THEN "TOO_SHORT" ELSE @]

LEMMA TypeAndFlags ==
  ASSUME NEW q \in Frames
  PROVE  LET b == HeaderByte(TypeOf(q), q.dup, FlagOf(q)) IN
           /\ b.type = TypeOf(q) /\ b.qos = FlagOf(q) /\ b.dup = q.dup
           /\ ~BadFlags(b) /\ b.type # "NONE"
<1> DEFINE b == HeaderByte(TypeOf(q), q.dup, FlagOf(q))
<1>1. /\ q.kind \in PacketKinds /\ q.dup \in BOOLEAN /\ GoodFrame(q)
      /\ TypeOf(q) \in TypeNames \ {"NONE"} /\ FlagOf(q) \in 0 .. 2
  BY KindsOfPackets DEF Frames
<1>2. b.type = TypeOf(q) /\ b.qos = FlagOf(q) /\ b.dup = q.dup
  BY <1>1, HeaderOctet
<1> HIDE DEF b
<1>3. /\ QosOf("PUBLISH_0") = 0 /\ QosOf("PUBLISH_1") = 1
      /\ QosOf("PUBLISH_2") = 2 /\ QosOf("PUBACK") = 0
      /\ QosOf("PUBREC") = 0 /\ QosOf("PUBCOMP") = 0
  BY Zenon DEF QosOf
<1>4. ~BadFlags(b)
  <2>1. CASE q.kind \in PublishKinds
    <3>1. TypeOf(q) = "PUBLISH" /\ FlagOf(q) = QosOf(q.kind)
      BY <2>1 DEF TypeOf, FlagOf, PublishKinds
    <3>2. BadFlags(b) <=> b.qos = 3 \/ (b.dup /\ b.qos = 0)
      BY <1>2, <3>1, Zenon DEF BadFlags
    <3>3. b.qos # 3
      BY <1>1, <1>2
    <3>4. b.qos = 0 => q.kind = "PUBLISH_0"
      BY <1>2, <1>3, <2>1, <3>1 DEF PublishKinds
    <3>5. b.qos = 0 => ~b.dup
      BY <1>1, <1>2, <3>4 DEF GoodFrame
    <3> QED BY <3>2, <3>3, <3>5, Zenon
  <2>2. CASE q.kind = "PUBREL"
    <3>1. TypeOf(q) = "PUBREL" /\ FlagOf(q) = 1 /\ ~q.dup
      BY <1>1, <2>2 DEF TypeOf, FlagOf, PublishKinds, AckKinds, GoodFrame
    <3> QED BY <1>2, <3>1, Zenon DEF BadFlags
  <2>3. CASE q.kind \in {"PUBACK", "PUBREC", "PUBCOMP"}
    <3>1. TypeOf(q) = q.kind /\ FlagOf(q) = 0 /\ ~q.dup
      BY <1>1, <1>3, <2>3
         DEF TypeOf, FlagOf, PublishKinds, AckKinds, GoodFrame
    <3>2. /\ b.type \notin {"PUBREL", "SUBSCRIBE", "UNSUBSCRIBE"}
          /\ b.type # "PUBLISH"
      BY <1>2, <2>3, <3>1
    <3> QED BY <1>2, <3>1, <3>2, Zenon DEF BadFlags
  <2> QED BY <1>1, <2>1, <2>2, <2>3 DEF PacketKinds, AckKinds
<1> QED BY <1>1, <1>2, <1>4 DEF b

LEMMA HeaderStarts ==
  ASSUME NEW q \in Frames
  PROVE  /\ DecoderInv(q, Header(FreshRx, FrameByte(q, 1)), 1)
         /\ Header(FreshRx, FrameByte(q, 1)) \in RxTypes
         /\ Header(FreshRx, FrameByte(q, 1)).error = "NONE"
         /\ Header(FreshRx, FrameByte(q, 1)).has = {}
<1> DEFINE b == FrameByte(q, 1)
           r == Header(FreshRx, b)
           none == <<>>
           text == [s \in StringParts |-> none]
<1>1. /\ b.type = TypeOf(q) /\ b.qos = FlagOf(q) /\ b.dup = q.dup
      /\ ~BadFlags(b) /\ b.type # "NONE"
  BY TypeAndFlags DEF FrameByte
<1>2. /\ TypeOf(q) \in TypeNames /\ FlagOf(q) \in 0 .. 2 /\ q.dup \in BOOLEAN
  BY KindsOfPackets DEF Frames
<1>3. text \in [StringParts -> Seq(Octets)] /\ none = <<>>
  BY EmptySeq
<1>4. /\ BodySize(q) \in 0 .. MaxRemaining /\ HeaderSize(q) \in 2 .. 5
  BY FrameFacts, Constants
<1> HIDE DEF b
<1>5. r = [started |-> TRUE, type |-> b.type, qos |-> b.qos, dup |-> b.dup,
           length |-> FreshLength, pos |-> 0, topic_len |-> 0, id |-> 0,
           text |-> text, has |-> {}, ignore |-> FALSE, error |-> "NONE"]
  BY <1>1 DEF Header, FreshRx
<1>6. \A s \in StringParts : text[s] = none
  OBVIOUS
<1> HIDE DEF text, none
<1>7. FreshLength \in [acc : Nat, mult : Nat, finished : BOOLEAN,
                       bad : BOOLEAN]
  BY DEF FreshLength
<1>8. r \in RxTypes
  BY <1>1, <1>2, <1>3, <1>5, <1>7 DEF RxTypes
<1>9. Headed(q, r)
  BY <1>1, <1>5 DEF Headed
<1>10. Empty(r)
  BY <1>3, <1>5, <1>6 DEF Empty
<1>11. r.length = Reading(BodySize(q))[0] /\ 1 - 1 = 0
  BY <1>4, <1>5, ReadingFacts
<1>12. 1 \in 1 .. HeaderSize(q) - 1
  BY <1>4
<1>13. r.error = "NONE" /\ r.has = {}
  BY <1>5
<1> HIDE DEF r
<1>14. DecoderInv(q, r, 1)
  BY <1>9, <1>10, <1>11, <1>12 DEF DecoderInv
<1> QED BY <1>8, <1>13, <1>14 DEF r, b
LEMMA LengthTypes ==
  ASSUME NEW h \in [acc : Nat, mult : Nat, finished : BOOLEAN, bad : BOOLEAN],
         NEW b \in Octets
  PROVE  LengthStep(h, b) \in
           [acc : Nat, mult : Nat, finished : BOOLEAN, bad : BOOLEAN]
<1>1. /\ b.v \in Nat /\ b.more \in BOOLEAN /\ Radix \in Nat
      /\ h.acc \in Nat /\ h.mult \in Nat
  BY Constants DEF Octets
<1>2. b.v * h.mult \in Nat /\ h.mult * Radix \in Nat
  BY <1>1
<1>3. h.acc + b.v * h.mult \in Nat
  BY <1>1, <1>2
<1> DEFINE a == h.acc + b.v * h.mult
           m == h.mult * Radix
<1>4. LengthStep(h, b) = [h EXCEPT !.bad = TRUE]
      \/ LengthStep(h, b) = [h EXCEPT !.acc = a, !.mult = m,
                                      !.finished = ~b.more]
  BY DEF LengthStep
<1>5. a \in Nat /\ m \in Nat
  BY <1>2, <1>3
<1> HIDE DEF a, m
<1> QED BY <1>1, <1>4, <1>5

(* At its first byte a string is empty, and so are the others.             *)
LEMMA NothingRead ==
  ASSUME NEW q \in Frames
  PROVE  /\ TopicRead(q, 0) = 0 /\ IdRead(q, 0) = 0
         /\ \A s \in StringParts : TextRead(q, s, 0) = <<>>
<1>1. TopicEndOf(q) \in Nat /\ IdEndOf(q) \in Nat
  BY FrameFacts
<1>2. \A s \in StringParts : q.text[s] \in Seq(Octets)
  BY DEF Frames
<1>3. TopicRead(q, 0) = 0 /\ IdRead(q, 0) = 0
  BY <1>1 DEF TopicRead, IdRead
<1>4. ASSUME NEW s \in StringParts
      PROVE  TextRead(q, s, 0) = <<>>
  <2> DEFINE d == TextStart(q, s)
             n == Len(q.text[s])
  <2>1. d \in Nat /\ n \in Nat
    BY <1>1, <1>2, Constants, LenProperties DEF TextStart
  <2>2. TextRead(q, s, 0) = SubSeq(q.text[s], 1, Through(0 - d, n))
    BY DEF TextRead
  <2> HIDE DEF d, n
  <2>3. Through(0 - d, n) = 0
    BY <2>1 DEF Through
  <2>4. SubSeq(q.text[s], 1, 0) = <<>>
    BY <1>2, SubSeqProperties, EmptySeq
  <2> QED BY <2>2, <2>3, <2>4
<1> QED BY <1>3, <1>4

LEMMA InHeader ==
  ASSUME NEW q \in Frames, NEW r \in RxTypes, NEW t \in Nat,
         DecoderInv(q, r, t), ~r.length.finished
  PROVE  \/ t = 0 /\ r = FreshRx
         \/ /\ Headed(q, r) /\ Empty(r) /\ t \in 1 .. HeaderSize(q) - 1
            /\ r.length = Reading(BodySize(q))[t - 1]
BY DEF DecoderInv, Body, BodyRead

LEMMA HeaderContinues ==
  ASSUME NEW q \in Frames, NEW r \in RxTypes, NEW t \in Nat,
         Headed(q, r), Empty(r), t \in 1 .. HeaderSize(q) - 1,
         r.length = Reading(BodySize(q))[t - 1], r.error = "NONE"
  PROVE  /\ DecoderInv(q, Header(r, FrameByte(q, t + 1)), t + 1)
         /\ Header(r, FrameByte(q, t + 1)) \in RxTypes
         /\ Header(r, FrameByte(q, t + 1)).error = "NONE"
         /\ Header(r, FrameByte(q, t + 1)).has = {}
<1> DEFINE b == FrameByte(q, t + 1)
           n == BodySize(q)
           l == LengthStep(r.length, b)
           e == IF l.bad THEN "LENGTH"
                ELSE IF l.finished /\ l.acc < MinLength(r.type)
                       THEN "TOO_SHORT" ELSE r.error
           r1 == Header(r, b)
<1>1. /\ n \in 0 .. MaxRemaining /\ n \in Nat /\ n >= 2
      /\ HeaderSize(q) \in 2 .. 5 /\ FrameSize(q) = HeaderSize(q) + n
      /\ q.kind \in PublishKinds => n >= 3
  BY FrameFacts, Constants
<1>2. /\ t \in 1 .. RemainingSize(n) /\ HeaderSize(q) = 1 + RemainingSize(n)
      /\ RemainingSize(n) \in 1 .. 4
  BY <1>1, LengthOctets DEF HeaderSize
<1>3. b = RemainingBytes(n)[t] /\ b \in Octets
  <2>1. /\ t + 1 # 1 /\ t + 1 <= HeaderSize(q) /\ (t + 1) - 1 = t
        /\ t + 1 \in 1 .. FrameSize(q)
    BY <1>1, <1>2
  <2> QED BY <2>1, FrameOctets DEF FrameByte
<1>4. l = Reading(n)[t]
  BY <1>1, <1>2, <1>3, ReadingFacts
<1>5. /\ r.started /\ r.type = TypeOf(q)
      /\ r.pos = 0 /\ r.topic_len = 0 /\ r.id = 0 /\ r.has = {} /\ ~r.ignore
      /\ \A s \in StringParts : r.text[s] = <<>>
  BY DEF Headed, Empty
<1>6. l \in [acc : Nat, mult : Nat, finished : BOOLEAN, bad : BOOLEAN]
  BY <1>3, LengthTypes DEF RxTypes
<1>7. MinLength(r.type) <= n
  <2>1. CASE q.kind \in PublishKinds
    BY <1>1, <1>5, <2>1 DEF MinLength, TypeOf
  <2>2. CASE q.kind \notin PublishKinds
    <3>1. TypeOf(q) # "PUBLISH"
      BY <2>2, KindsOfPackets DEF TypeOf, Frames, PacketKinds, AckKinds
    <3> QED BY <1>1, <1>5, <3>1 DEF MinLength
  <2> QED BY <2>1, <2>2
<1>8. /\ ~l.bad
      /\ l.finished => l.acc = n
      /\ l.finished <=> t = RemainingSize(n)
  <2>1. CASE t = RemainingSize(n)
    BY <1>1, <1>4, <2>1, ReadingFacts
  <2>2. CASE t # RemainingSize(n)
    <3>1. t \in 1 .. RemainingSize(n) - 1
      BY <1>2, <2>2
    <3> QED BY <1>1, <1>4, <2>2, <3>1, ReadingFacts
  <2> QED BY <2>1, <2>2
<1>12. MinLength(r.type) \in Nat
  BY DEF MinLength
<1>9. e = "NONE"
  <2>1. ~l.bad /\ ~(l.finished /\ l.acc < MinLength(r.type))
    BY <1>1, <1>7, <1>8, <1>12
  <2> QED BY <2>1
<1>10. r1 = [r EXCEPT !.length = l, !.error = e]
  BY <1>5 DEF Header
<1> HIDE DEF l, e, b, r1
<1>11. /\ r1 \in RxTypes /\ r1.length = l /\ r1.error = "NONE"
       /\ r1.started = r.started /\ r1.type = r.type /\ r1.qos = r.qos
       /\ r1.dup = r.dup /\ r1.pos = r.pos /\ r1.topic_len = r.topic_len
       /\ r1.id = r.id /\ r1.text = r.text /\ r1.has = r.has
       /\ r1.ignore = r.ignore
  <2> HIDE DEF n
  <2> QED BY <1>6, <1>9, <1>10 DEF RxTypes
<1>13. Headed(q, r1)
  BY <1>11 DEF Headed
<1>14. DecoderInv(q, r1, t + 1)
  <2>1. CASE t # RemainingSize(n)
    <3>1. t + 1 \in 1 .. HeaderSize(q) - 1 /\ (t + 1) - 1 = t
      BY <1>2, <2>1
    <3>2. Empty(r1)
      BY <1>5, <1>11 DEF Empty
    <3>3. r1.length = Reading(BodySize(q))[(t + 1) - 1]
      BY <1>4, <1>11, <3>1
    <3> QED BY <1>13, <3>1, <3>2, <3>3 DEF DecoderInv
  <2>2. CASE t = RemainingSize(n)
    <3>1. r1.length.finished /\ r1.length.acc = BodySize(q)
      BY <1>8, <1>11, <2>2
    <3>2. r1.pos = 0 /\ 0 \in 0 .. BodySize(q) /\ 0 < BodySize(q)
      BY <1>1, <1>5, <1>11
    <3>3. BodyRead(q, r1)
      <4>1. r1.topic_len = TopicRead(q, r1.pos) /\ r1.id = IdRead(q, r1.pos)
        BY <1>5, <1>11, <3>2, NothingRead
      <4>2. \A s \in StringParts : r1.text[s] = TextRead(q, s, r1.pos)
        BY <1>5, <1>11, <3>2, NothingRead
      <4> QED BY <3>1, <3>2, <4>1, <4>2 DEF BodyRead
    <3>4. Given(q, r1)
      <4>1. ~(r1.pos > LenSize) /\ ~(r1.pos > IdEndOf(q))
        BY <3>2, FrameFacts, Constants
      <4> QED BY <1>5, <1>11, <4>1 DEF Given
    <3>5. t + 1 = HeaderSize(q) + r1.pos
      BY <1>2, <2>2, <3>2
    <3> QED BY <1>13, <3>2, <3>3, <3>4, <3>5 DEF DecoderInv, Body
  <2> QED BY <2>1, <2>2
<1> QED BY <1>5, <1>11, <1>14 DEF r1, b
LEMMA Slice ==
  ASSUME NEW s \in Seq(Octets), NEW a \in Nat, NEW b \in Nat,
         a <= b, b <= Len(s)
  PROVE  /\ SubSeq(s, a + 1, b) \in Seq(Octets)
         /\ Len(SubSeq(s, a + 1, b)) = b - a
         /\ \A i \in 1 .. b - a : SubSeq(s, a + 1, b)[i] = s[a + i]
<1>1. Len(s) \in Nat /\ \A i \in 1 .. Len(s) : s[i] \in Octets
  BY LenProperties, ElementOfSeq
<1>2. \A i \in a + 1 .. b : s[i] \in Octets
  BY <1>1
<1>3. a + 1 \in Int /\ b \in Int
  OBVIOUS
<1>4. /\ SubSeq(s, a + 1, b) \in Seq(Octets)
      /\ Len(SubSeq(s, a + 1, b)) =
           IF a + 1 <= b THEN (b - (a + 1)) + 1 ELSE 0
      /\ \A i \in 1 .. (b - (a + 1)) + 1 :
           SubSeq(s, a + 1, b)[i] = s[((a + 1) + i) - 1]
  BY <1>2, <1>3, SubSeqProperties
<1> DEFINE u == SubSeq(s, a + 1, b)
<1> HIDE DEF u
<1>5. /\ (b - (a + 1)) + 1 = b - a
      /\ \A i \in 1 .. b - a : ((a + 1) + i) - 1 = a + i
      /\ (IF a + 1 <= b THEN (b - (a + 1)) + 1 ELSE 0) = b - a
  OBVIOUS
<1>6. \A i \in 1 .. b - a : u[i] = s[a + i]
  <2> SUFFICES ASSUME NEW i \in 1 .. b - a
               PROVE  u[i] = s[a + i]
    OBVIOUS
  <2>1. u[i] = s[((a + 1) + i) - 1]
    BY <1>4, <1>5 DEF u
  <2> QED BY <1>5, <2>1
<1> QED BY <1>4, <1>5, <1>6 DEF u

LEMMA Prefix ==
  ASSUME NEW s \in Seq(Octets), NEW d \in Nat, d <= Len(s)
  PROVE  /\ SubSeq(s, 1, d) \in Seq(Octets) /\ Len(SubSeq(s, 1, d)) = d
         /\ \A i \in 1 .. d : SubSeq(s, 1, d)[i] = s[i]
<1>1. 0 + 1 = 1 /\ d - 0 = d /\ 0 <= d /\ 0 \in Nat
  OBVIOUS
<1>2. /\ SubSeq(s, 0 + 1, d) \in Seq(Octets)
      /\ Len(SubSeq(s, 0 + 1, d)) = d - 0
      /\ \A i \in 1 .. d - 0 : SubSeq(s, 0 + 1, d)[i] = s[0 + i]
  BY <1>1, Slice
<1>3. \A i \in 1 .. d : 0 + i = i
  OBVIOUS
<1> QED BY <1>1, <1>2, <1>3

(* A string that has so far been read up to d grows by the bytes that      *)
(* follow.                                                                 *)
LEMMA Grown ==
  ASSUME NEW s \in Seq(Octets), NEW w \in Seq(Octets), NEW d \in Nat,
         NEW k \in Nat, d + k <= Len(s), k <= Len(w),
         \A x \in 1 .. k : w[x] = s[d + x]
  PROVE  SubSeq(s, 1, d) \o SubSeq(w, 1, k) = SubSeq(s, 1, d + k)
<1> DEFINE a == SubSeq(s, 1, d)
           b == SubSeq(w, 1, k)
           c == SubSeq(s, 1, d + k)
<1>1. Len(s) \in Nat /\ d <= Len(s) /\ d + k \in Nat
  BY LenProperties
<1>2. /\ a \in Seq(Octets) /\ Len(a) = d
      /\ \A i \in 1 .. d : a[i] = s[i]
  BY <1>1, Prefix
<1>3. /\ b \in Seq(Octets) /\ Len(b) = k
      /\ \A i \in 1 .. k : b[i] = w[i]
  BY Prefix
<1>4. /\ c \in Seq(Octets) /\ Len(c) = d + k
      /\ \A i \in 1 .. d + k : c[i] = s[i]
  BY <1>1, Prefix
<1> HIDE DEF a, b, c
<1>5. /\ a \o b \in Seq(Octets) /\ Len(a \o b) = d + k
      /\ \A x \in 1 .. d : (a \o b)[x] = a[x]
      /\ \A x \in d + 1 .. d + k : (a \o b)[x] = b[x - d]
  <2>1. a \in Seq(Octets) /\ b \in Seq(Octets) /\ d = Len(a)
    BY <1>2, <1>3
  <2>2. /\ a \o b \in Seq(Octets) /\ Len(a \o b) = d + Len(b)
        /\ \A x \in 1 .. d : (a \o b)[x] = a[x]
        /\ \A x \in d + 1 .. d + Len(b) : (a \o b)[x] = b[x - d]
    BY <2>1, Joined
  <2> QED BY <1>3, <2>2
<1>6. ASSUME NEW i \in 1 .. Len(a \o b)
      PROVE  (a \o b)[i] = c[i]
  <2>1. CASE i <= d
    <3>1. i \in 1 .. d /\ i \in 1 .. d + k
      BY <1>5, <2>1
    <3> QED BY <1>2, <1>4, <1>5, <3>1
  <2>2. CASE i > d
    <3>1. /\ i - d \in 1 .. k /\ i \in d + 1 .. d + k /\ d + (i - d) = i
          /\ i \in 1 .. d + k
      BY <1>5, <2>2
    <3>2. w[i - d] = s[i]
      BY <3>1
    <3> QED BY <1>3, <1>4, <1>5, <3>1, <3>2
  <2> QED BY <1>5, <2>1, <2>2
<1>7. a \o b = c
  BY <1>4, <1>5, <1>6, SeqEqual
<1> QED BY <1>7 DEF a, b, c

LEMMA InBody ==
  ASSUME NEW q \in Frames, NEW r \in RxTypes, NEW t \in Nat,
         DecoderInv(q, r, t), r.length.finished
  PROVE  Body(q, r, t) /\ r.pos < BodySize(q)
<1>1. BodySize(q) \in 0 .. MaxRemaining
  BY FrameFacts, Constants
<1>2. r # FreshRx
  BY DEF FreshRx, FreshLength
<1>3. ASSUME t \in 1 .. HeaderSize(q) - 1,
             r.length = Reading(BodySize(q))[t - 1]
      PROVE  FALSE
  <2>1. /\ RemainingSize(BodySize(q)) \in 1 .. 4
        /\ HeaderSize(q) - 1 = RemainingSize(BodySize(q))
    BY <1>1, LengthOctets DEF HeaderSize
  <2>2. t - 1 = 0 \/ t - 1 \in 1 .. RemainingSize(BodySize(q)) - 1
    BY <1>3, <2>1
  <2>3. ~Reading(BodySize(q))[t - 1].finished
    BY <1>1, <2>2, ReadingFacts DEF FreshLength
  <2> QED BY <1>3, <2>3
<1> QED BY <1>2, <1>3 DEF DecoderInv

(* What the decoder takes for the ends of the parts.                       *)
LEMMA EndsAgree ==
  ASSUME NEW q \in Frames, NEW r \in RxTypes, NEW t, Body(q, r, t)
  PROVE  /\ r.type = "PUBLISH" <=> q.kind \in PublishKinds
         /\ TopicEndOf(q) + IdLen(r) = IdEndOf(q)
         /\ r.length.acc = BodySize(q)
         /\ q.kind \in PublishKinds /\ r.pos >= LenSize =>
              TopicEnd(r) = TopicEndOf(q) /\ IdEnd(r) = IdEndOf(q)
         /\ q.kind \in AckKinds =>
              TopicEnd(r) = TopicEndOf(q) /\ IdEnd(r) = IdEndOf(q)
<1>1. /\ r.type = TypeOf(q) /\ r.qos = FlagOf(q) /\ r.length.acc = BodySize(q)
      /\ r.topic_len = TopicRead(q, r.pos) /\ r.pos \in Nat
  BY DEF Body, Headed, BodyRead, RxTypes
<1>2. q.kind \in PublishKinds \/ q.kind \in AckKinds
  BY DEF Frames, PacketKinds
<1>3. r.type = "PUBLISH" <=> q.kind \in PublishKinds
  BY <1>1, <1>2 DEF TypeOf, AckKinds
<1>4. r.type = "PUBLISH" => (r.qos = 0 <=> q.kind = "PUBLISH_0")
  <2>1. /\ QosOf("PUBLISH_0") = 0 /\ QosOf("PUBLISH_1") = 1
        /\ QosOf("PUBLISH_2") = 2
    BY Zenon DEF QosOf
  <2> QED BY <1>1, <1>3, <2>1 DEF FlagOf, PublishKinds
<1>5. q.kind = "PUBLISH_0" => r.type = "PUBLISH"
  BY <1>3 DEF PublishKinds
<1>6. IdLen(r) = IF q.kind = "PUBLISH_0" THEN 0 ELSE IdSize
  BY <1>4, <1>5 DEF IdLen
<1>7. IdEndOf(q) = TopicEndOf(q) + IdLen(r)
  BY <1>6 DEF IdEndOf
<1>8. ASSUME q.kind \in PublishKinds, r.pos >= LenSize
      PROVE  TopicEnd(r) = TopicEndOf(q)
  <2>1. ~(r.pos = 0) /\ ~(r.pos = 1)
    BY <1>1, <1>8, Constants
  <2>2. r.topic_len = Len(q.text["topic"])
    BY <1>1, <1>8, <2>1 DEF TopicRead
  <2> QED BY <1>3, <1>8, <2>2 DEF TopicEnd, TopicEndOf
<1>9. ASSUME q.kind \in AckKinds
      PROVE  TopicEnd(r) = TopicEndOf(q)
  <2>1. q.kind \notin PublishKinds
    BY <1>9, KindsOfPackets
  <2> QED BY <1>3, <2>1 DEF TopicEnd, TopicEndOf
<1> QED BY <1>1, <1>3, <1>7, <1>8, <1>9 DEF IdEnd

(* One of the bytes behind the header.                                     *)
LEMMA BodyBytes ==
  ASSUME NEW q \in Frames
  PROVE  /\ \A b \in Nat \ {0} : FrameByte(q, HeaderSize(q) + b)
                                   = BodyByte(q, b)
         /\ q.kind \in PublishKinds =>
              /\ BodyByte(q, 1).v = Len(q.text["topic"]) \div Base
              /\ BodyByte(q, 2).v = Len(q.text["topic"]) % Base
              /\ \A x \in 1 .. Len(q.text["topic"]) :
                   BodyByte(q, LenSize + x) = q.text["topic"][x]
         /\ q.kind # "PUBLISH_0" =>
              /\ BodyByte(q, TopicEndOf(q) + 1).v = q.id \div Base
              /\ BodyByte(q, TopicEndOf(q) + 2).v = q.id % Base
         /\ \A x \in 1 .. Len(q.text["payload"]) :
              BodyByte(q, IdEndOf(q) + x) = q.text["payload"][x]
<1> DEFINE topic == q.text["topic"]
           payload == q.text["payload"]
           te == TopicEndOf(q)
           ie == IdEndOf(q)
           hs == HeaderSize(q)
<1>1. /\ te \in Nat /\ ie \in Nat /\ te <= ie /\ hs \in 2 .. 5
      /\ q.kind \in PublishKinds => te > LenSize
  BY FrameFacts
<1>2. topic \in Seq(Octets) /\ payload \in Seq(Octets)
  BY DEF Frames, StringParts
<1>3. Len(topic) \in Nat /\ Len(payload) \in Nat
  BY <1>2, LenProperties
<1>4. ASSUME NEW b \in Nat \ {0}
      PROVE  FrameByte(q, hs + b) = BodyByte(q, b)
  <2>1. hs + b # 1 /\ ~(hs + b <= hs) /\ (hs + b) - hs = b
    <3> HIDE DEF hs
    <3> QED BY <1>1, <1>4
  <2> QED BY <2>1 DEF FrameByte
<1>5. ASSUME q.kind \in PublishKinds
      PROVE  /\ BodyByte(q, 1).v = Len(topic) \div Base
             /\ BodyByte(q, 2).v = Len(topic) % Base
             /\ \A x \in 1 .. Len(topic) :
                  BodyByte(q, LenSize + x) = topic[x]
  <2>1. Len(topic) \in 0 .. Base * Base - 1 /\ te = LenSize + Len(topic)
    BY <1>3, <1>5, Constants DEF Frames, GoodFrame, TopicEndOf
  <2>2. /\ BodyByte(q, 1) = Number(Len(topic))[1]
        /\ BodyByte(q, 2) = Number(Len(topic))[2]
    <3>1. 1 <= te /\ 2 <= te /\ 1 <= LenSize /\ 2 <= LenSize
      <4> HIDE DEF te
      <4> QED BY <1>1, <1>5, Constants
    <3> QED BY <3>1 DEF BodyByte
  <2>3. ASSUME NEW x \in 1 .. Len(topic)
        PROVE  BodyByte(q, LenSize + x) = topic[x]
    <3>1. /\ LenSize + x <= te /\ ~(LenSize + x <= LenSize)
          /\ (LenSize + x) - LenSize = x
      <4> HIDE DEF te, topic
      <4> QED BY <1>3, <2>1, Constants
    <3> QED BY <3>1 DEF BodyByte
  <2> QED BY <2>1, <2>2, <2>3, Halves
<1>6. ASSUME q.kind # "PUBLISH_0"
      PROVE  /\ BodyByte(q, te + 1).v = q.id \div Base
             /\ BodyByte(q, te + 2).v = q.id % Base
  <2>1. q.id \in 0 .. Base * Base - 1 /\ ie = te + 2
    BY <1>6, Constants DEF Frames, GoodFrame, IdEndOf
  <2>2. /\ ~(te + 1 <= te) /\ te + 1 <= ie /\ (te + 1) - te = 1
        /\ ~(te + 2 <= te) /\ te + 2 <= ie /\ (te + 2) - te = 2
    <3> HIDE DEF te, ie
    <3> QED BY <1>1, <2>1
  <2>3. /\ BodyByte(q, te + 1) = Number(q.id)[1]
        /\ BodyByte(q, te + 2) = Number(q.id)[2]
    BY <2>2 DEF BodyByte
  <2> QED BY <2>1, <2>3, Halves
<1>7. ASSUME NEW x \in 1 .. Len(payload)
      PROVE  BodyByte(q, ie + x) = payload[x]
  <2>1. ~(ie + x <= te) /\ ~(ie + x <= ie) /\ (ie + x) - ie = x
    <3> HIDE DEF te, ie, payload
    <3> QED BY <1>1, <1>3
  <2> QED BY <2>1 DEF BodyByte
<1> QED BY <1>4, <1>5, <1>6, <1>7
LEMMA TextKeeps ==
  ASSUME NEW q \in Frames, NEW s \in StringParts, NEW a \in Nat, NEW b \in Nat,
         a <= b,
         b <= TextStart(q, s) \/ a >= TextStart(q, s) + Len(q.text[s])
  PROVE  TextRead(q, s, b) = TextRead(q, s, a)
<1> DEFINE d == TextStart(q, s)
           n == Len(q.text[s])
<1>1. d \in Nat /\ n \in Nat
  BY FrameFacts, Constants, LenProperties DEF TextStart, Frames
<1>2. b <= d \/ a >= d + n
  OBVIOUS
<1>3. /\ TextRead(q, s, a) = SubSeq(q.text[s], 1, Through(a - d, n))
      /\ TextRead(q, s, b) = SubSeq(q.text[s], 1, Through(b - d, n))
  BY DEF TextRead
<1> HIDE DEF d, n
<1>4. Through(a - d, n) = Through(b - d, n)
  BY <1>1, <1>2 DEF Through
<1> QED BY <1>3, <1>4

LEMMA TextGrows ==
  ASSUME NEW q \in Frames, NEW s \in StringParts, NEW a \in Nat, NEW k \in Nat,
         NEW w \in Seq(Octets), k <= Len(w), a >= TextStart(q, s),
         a + k <= TextStart(q, s) + Len(q.text[s]),
         \A x \in 1 .. k : w[x] = q.text[s][(a - TextStart(q, s)) + x]
  PROVE  TextRead(q, s, a + k) = TextRead(q, s, a) \o SubSeq(w, 1, k)
<1> DEFINE d == TextStart(q, s)
           text == q.text[s]
           o == a - d
<1>1. d \in Nat /\ text \in Seq(Octets) /\ Len(text) \in Nat
  BY FrameFacts, Constants, LenProperties DEF TextStart, Frames
<1>2. /\ a >= d /\ a + k <= d + Len(text)
      /\ \A x \in 1 .. k : w[x] = text[o + x]
  OBVIOUS
<1>3. /\ TextRead(q, s, a) = SubSeq(text, 1, Through(a - d, Len(text)))
      /\ TextRead(q, s, a + k) =
           SubSeq(text, 1, Through((a + k) - d, Len(text)))
  BY DEF TextRead
<1> HIDE DEF d, text
<1>4. o \in Nat /\ o + k <= Len(text) /\ (a + k) - d = o + k
  BY <1>1, <1>2
<1>5. Through(a - d, Len(text)) = o /\ Through((a + k) - d, Len(text)) = o + k
  BY <1>1, <1>2 DEF Through
<1> HIDE DEF o
<1>6. SubSeq(text, 1, o) \o SubSeq(w, 1, k) = SubSeq(text, 1, o + k)
  BY <1>1, <1>2, <1>4, Grown
<1> QED BY <1>3, <1>5, <1>6

LEMMA TextWhole ==
  ASSUME NEW q \in Frames, NEW s \in StringParts
  PROVE  TextRead(q, s, BodySize(q)) = q.text[s]
<1> DEFINE d == TextStart(q, s)
           text == q.text[s]
<1>1. d \in Nat /\ text \in Seq(Octets) /\ Len(text) \in Nat
  BY FrameFacts, Constants, LenProperties DEF TextStart, Frames
<1>2. BodySize(q) \in Nat /\ BodySize(q) >= d + Len(text)
  <2>1. /\ TopicEndOf(q) \in Nat /\ IdEndOf(q) \in Nat /\ BodySize(q) \in Nat
        /\ TopicEndOf(q) <= IdEndOf(q) /\ IdEndOf(q) <= BodySize(q)
        /\ BodySize(q) >= 2
    BY FrameFacts, Constants
  <2>2. CASE s = "payload"
    BY <1>1, <2>1, <2>2 DEF TextStart, BodySize
  <2>3. CASE s = "topic" /\ q.kind \in PublishKinds
    <3>1. TopicEndOf(q) = d + Len(text)
      BY <2>3 DEF TopicEndOf, TextStart
    <3> QED BY <1>1, <2>1, <3>1
  <2>4. CASE s = "topic" /\ q.kind \notin PublishKinds
    <3>1. text = <<>> /\ d = 2
      BY <2>4, Constants DEF Frames, GoodFrame, PacketKinds, TextStart
    <3>2. Len(text) = 0
      BY <3>1
    <3> QED BY <2>1, <3>1, <3>2
  <2> QED BY <2>2, <2>3, <2>4 DEF StringParts
<1>3. TextRead(q, s, BodySize(q)) =
        SubSeq(text, 1, Through(BodySize(q) - d, Len(text)))
  BY DEF TextRead
<1> DEFINE n == BodySize(q)
<1> HIDE DEF d, text, n
<1>4. Through(n - d, Len(text)) = Len(text)
  BY <1>1, <1>2 DEF Through, n
<1>5. SubSeq(text, 1, Len(text)) = text
  <2>1. /\ SubSeq(text, 1, Len(text)) \in Seq(Octets)
        /\ Len(SubSeq(text, 1, Len(text))) = Len(text)
        /\ \A i \in 1 .. Len(text) : SubSeq(text, 1, Len(text))[i] = text[i]
    BY <1>1, Prefix
  <2> QED BY <1>1, <2>1, SeqEqual
<1> QED BY <1>3, <1>4, <1>5 DEF n, text

-----------------------------------------------------------------------------
(* One turn of the decoder's loop behind the header.                       *)

Same(r, r1) ==
  /\ r1.started = r.started /\ r1.type = r.type /\ r1.qos = r.qos
  /\ r1.dup = r.dup /\ r1.length = r.length

LEMMA TopicLengthStep ==
  ASSUME NEW q \in Frames, NEW r \in RxTypes, NEW r1, NEW t \in Nat,
         Body(q, r, t), r.pos < LenSize, q.kind \in PublishKinds,
         Same(r, r1), r1.pos = r.pos + 1,
         r1.topic_len = r.topic_len * Base + FrameByte(q, t + 1).v,
         r1.id = r.id, r1.text = r.text, r1.has = r.has, r1.ignore = r.ignore
  PROVE  /\ Body(q, r1, t + 1)
         /\ r1.pos = LenSize =>
              r1.topic_len > 0
                /\ LenSize + r1.topic_len + IdLen(r) <= r.length.acc
<1> DEFINE n == Len(q.text["topic"])
<1>1. /\ q.text["topic"] \in Seq(Octets) /\ n \in 1 .. Base * Base - 1
      /\ TopicEndOf(q) = 2 + n
  BY Constants DEF Frames, GoodFrame, StringParts, TopicEndOf
<1>2. n \in Nat /\ n \div Base \in Nat /\ n % Base \in Nat
      /\ (n \div Base) * Base + (n % Base) = n
  <2>1. n \in 0 .. Base * Base - 1 /\ n \in Nat
    BY <1>1, Constants
  <2> QED BY <2>1, Halves
<1>3. /\ TopicEndOf(q) \in Nat /\ IdEndOf(q) \in Nat /\ TopicEndOf(q) > 2
      /\ TopicEndOf(q) <= IdEndOf(q) /\ IdEndOf(q) <= BodySize(q)
      /\ BodySize(q) \in Nat /\ HeaderSize(q) \in Nat
  BY FrameFacts, Constants
<1>4. /\ Headed(q, r) /\ r.length.finished /\ r.length.acc = BodySize(q)
      /\ r.topic_len = TopicRead(q, r.pos) /\ r.id = IdRead(q, r.pos)
      /\ ~r.ignore => \A s \in StringParts : r.text[s] = TextRead(q, s, r.pos)
      /\ t = HeaderSize(q) + r.pos /\ r.pos \in Nat
      /\ r.has = {} /\ ~r.ignore
  BY DEF Body, BodyRead, Given, RxTypes
<1>5. /\ BodyByte(q, 1).v = n \div Base /\ BodyByte(q, 2).v = n % Base
      /\ FrameByte(q, t + 1) = BodyByte(q, r.pos + 1)
  <2>1. r.pos + 1 \in Nat \ {0} /\ t + 1 = HeaderSize(q) + (r.pos + 1)
    BY <1>3, <1>4
  <2> QED BY <2>1, BodyBytes
<1>6. r.pos = 0 \/ r.pos = 1
  BY <1>4, Constants
<1>7. /\ r1.topic_len = TopicRead(q, r1.pos)
      /\ r1.pos = LenSize => r1.topic_len = n
  <2>1. CASE r.pos = 0
    <3>1. r.topic_len = 0 /\ r1.pos = 1 /\ r1.pos # LenSize
      BY <1>4, <2>1, Constants DEF TopicRead
    <3>2. r1.topic_len = 0 * Base + (n \div Base)
      BY <1>5, <2>1, <3>1
    <3>3. r1.topic_len = n \div Base
      BY <1>2, <3>2, Constants
    <3> QED BY <3>1, <3>3 DEF TopicRead
  <2>2. CASE r.pos = 1
    <3>1. r.topic_len = n \div Base /\ r1.pos = 2
      BY <1>4, <2>2 DEF TopicRead
    <3>2. r1.topic_len = (n \div Base) * Base + (n % Base)
      BY <1>5, <2>2, <3>1
    <3> QED BY <1>2, <3>1, <3>2 DEF TopicRead
  <2> QED BY <1>6, <2>1, <2>2
<1>8. r1.id = IdRead(q, r1.pos)
  <2>1. r.pos <= TopicEndOf(q) /\ r1.pos <= TopicEndOf(q)
    BY <1>3, <1>6
  <2> QED BY <1>4, <2>1 DEF IdRead
<1>9. ASSUME NEW s \in StringParts
      PROVE  r1.text[s] = TextRead(q, s, r1.pos)
  <2>1. r1.pos <= TextStart(q, s) /\ r1.pos \in Nat /\ r.pos <= r1.pos
    BY <1>3, <1>4, <1>6, Constants DEF TextStart
  <2>2. TextRead(q, s, r1.pos) = TextRead(q, s, r.pos)
    BY <1>4, <2>1, TextKeeps
  <2> QED BY <1>4, <2>2
<1>10. Headed(q, r1) /\ r1.length = r.length
  BY <1>4 DEF Headed, Same
<1>11. r1.pos \in 0 .. BodySize(q)
  BY <1>3, <1>6
<1>12. BodyRead(q, r1)
  BY <1>4, <1>7, <1>8, <1>9, <1>10, <1>11 DEF BodyRead
<1>13. Given(q, r1)
  <2>1. ~(r1.pos > LenSize) /\ ~(r1.pos > IdEndOf(q))
    BY <1>3, <1>6, Constants
  <2> QED BY <1>4, <2>1 DEF Given
<1>14. t + 1 = HeaderSize(q) + r1.pos
  BY <1>3, <1>4
<1>15. Body(q, r1, t + 1)
  BY <1>10, <1>12, <1>13, <1>14 DEF Body
<1>16. LenSize + n + IdLen(r) <= BodySize(q)
  <2>1. TopicEndOf(q) + IdLen(r) = IdEndOf(q)
    BY EndsAgree
  <2> QED BY <1>1, <1>3, <2>1, Constants
<1> QED BY <1>1, <1>2, <1>4, <1>7, <1>15, <1>16

LEMMA IdStep ==
  ASSUME NEW q \in Frames, NEW r \in RxTypes, NEW r1, NEW t \in Nat,
         Body(q, r, t), r.pos \in TopicEndOf(q) .. IdEndOf(q) - 1,
         Same(r, r1), r1.pos = r.pos + 1,
         r1.id = r.id * Base + FrameByte(q, t + 1).v,
         r1.topic_len = r.topic_len, r1.text = r.text, r1.has = r.has,
         r1.ignore = r.ignore
  PROVE  Body(q, r1, t + 1)
<1> DEFINE n == q.id
           te == TopicEndOf(q)
           ie == IdEndOf(q)
<1>1. n \in 0 .. Base * Base - 1
  BY Constants DEF Frames, GoodFrame
<1>2. n \in Nat /\ n \div Base \in Nat /\ n % Base \in Nat
      /\ (n \div Base) * Base + (n % Base) = n
  <2>1. n \in Nat
    BY <1>1, Constants
  <2> QED BY <1>1, <2>1, Halves
<1>3. /\ te \in Nat /\ ie \in Nat /\ ie <= BodySize(q)
      /\ q.kind \in PublishKinds => te > LenSize
      /\ BodySize(q) \in Nat /\ HeaderSize(q) \in Nat
  BY FrameFacts, Constants
<1>4. /\ Headed(q, r) /\ r.length.finished /\ r.length.acc = BodySize(q)
      /\ r.topic_len = TopicRead(q, r.pos) /\ r.id = IdRead(q, r.pos)
      /\ ~r.ignore => \A s \in StringParts : r.text[s] = TextRead(q, s, r.pos)
      /\ t = HeaderSize(q) + r.pos /\ r.pos \in Nat
      /\ Given(q, r)
  BY DEF Body, BodyRead, RxTypes
<1>5. q.kind # "PUBLISH_0" /\ ie = te + 2
  BY <1>3, Constants DEF IdEndOf
<1>6. r.pos = te \/ r.pos = te + 1
  BY <1>3, <1>4, <1>5
<1>7. /\ BodyByte(q, te + 1).v = n \div Base
      /\ BodyByte(q, te + 2).v = n % Base
      /\ FrameByte(q, t + 1) = BodyByte(q, r.pos + 1)
  <2>1. r.pos + 1 \in Nat \ {0} /\ t + 1 = HeaderSize(q) + (r.pos + 1)
    BY <1>3, <1>4
  <2> QED BY <1>5, <2>1, BodyBytes
<1> HIDE DEF n, te, ie
<1>8. r1.id = IdRead(q, r1.pos)
  <2>1. CASE r.pos = te
    <3>1. r.id = 0 /\ r1.pos = te + 1 /\ ~(r1.pos <= te)
      BY <1>3, <1>4, <2>1 DEF IdRead, te
    <3>2. r1.id = 0 * Base + (n \div Base)
      BY <1>7, <2>1, <3>1
    <3>3. r1.id = n \div Base
      BY <1>2, <3>2, Constants
    <3> QED BY <1>5, <3>1, <3>3 DEF IdRead, te, n
  <2>2. CASE r.pos = te + 1
    <3>1. ~(r.pos <= te) /\ r1.pos = te + 2 /\ ~(r1.pos <= te)
          /\ te + 2 # te + 1
      BY <1>3, <2>2
    <3>2. r.id = n \div Base
      BY <1>4, <1>5, <2>2, <3>1 DEF IdRead, te, n
    <3>3. (te + 1) + 1 = te + 2
      BY <1>3
    <3>4. r1.id = (n \div Base) * Base + (n % Base)
      BY <1>7, <2>2, <3>2, <3>3
    <3>5. r1.id = n
      BY <1>2, <3>4
    <3> QED BY <1>5, <3>1, <3>5 DEF IdRead, te, n
  <2> QED BY <1>6, <2>1, <2>2
<1>9. r1.topic_len = TopicRead(q, r1.pos)
  <2>1. CASE q.kind \notin PublishKinds
    BY <1>4, <2>1 DEF TopicRead
  <2>2. CASE q.kind \in PublishKinds
    <3>1. ~(r.pos = 0) /\ ~(r.pos = 1) /\ ~(r1.pos = 0) /\ ~(r1.pos = 1)
      BY <1>3, <1>6, <2>2, Constants
    <3> QED BY <1>4, <2>2, <3>1 DEF TopicRead
  <2> QED BY <2>1, <2>2
<1>10. ASSUME NEW s \in StringParts, ~r.ignore
       PROVE  r1.text[s] = TextRead(q, s, r1.pos)
  <2>1. r1.pos \in Nat /\ r.pos <= r1.pos /\ r1.pos <= ie
    BY <1>3, <1>4, <1>5, <1>6
  <2>2. \/ r1.pos <= TextStart(q, s)
        \/ r.pos >= TextStart(q, s) + Len(q.text[s])
    <3>1. CASE s = "payload"
      BY <2>1, <3>1 DEF TextStart, ie
    <3>2. CASE s = "topic" /\ q.kind \in PublishKinds
      <4>1. te = TextStart(q, s) + Len(q.text[s])
        BY <3>2 DEF TextStart, te, TopicEndOf
      <4> QED BY <1>3, <1>6, <4>1
    <3>3. CASE s = "topic" /\ q.kind \notin PublishKinds
      <4>1. te = 0 /\ TextStart(q, s) = 2
        BY <3>3, Constants DEF TextStart, te, TopicEndOf
      <4> QED BY <1>5, <2>1, <4>1
    <3> QED BY <3>1, <3>2, <3>3 DEF StringParts
  <2>3. TextRead(q, s, r1.pos) = TextRead(q, s, r.pos)
    BY <1>4, <2>1, <2>2, TextKeeps
  <2> QED BY <1>4, <1>10, <2>3
<1>11. Headed(q, r1) /\ r1.length = r.length
  BY <1>4 DEF Headed, Same
<1>12. r1.pos \in 0 .. BodySize(q)
  BY <1>3, <1>5, <1>6
<1>13. BodyRead(q, r1)
  BY <1>4, <1>8, <1>9, <1>10, <1>11, <1>12 DEF BodyRead
<1>14. Given(q, r1)
  <2>1. ~(r1.pos > IdEndOf(q))
    BY <1>3, <1>5, <1>6 DEF ie
  <2>2. q.kind \in PublishKinds => r.pos > LenSize /\ ~(r1.pos < LenSize)
    BY <1>3, <1>6, Constants
  <2>3. \/ q.kind \in PublishKinds /\ q.kind \notin AckKinds
        \/ q.kind \notin PublishKinds /\ q.kind \in AckKinds
    BY KindsOfPackets DEF Frames, PacketKinds
  <2>4. CASE q.kind \in PublishKinds
    BY <1>4, <2>1, <2>2, <2>3, <2>4 DEF Given
  <2>5. CASE q.kind \in AckKinds
    BY <1>4, <2>3, <2>5 DEF Given
  <2> QED BY <2>3, <2>4, <2>5
<1>15. t + 1 = HeaderSize(q) + r1.pos
  BY <1>3, <1>4
<1> QED BY <1>11, <1>13, <1>14, <1>15 DEF Body
(* The bytes at hand are those of the packet behind its first t.           *)
Follows(w, k, q, t) ==
  k <= Len(w) /\ \A x \in 1 .. k : w[x] = FrameByte(q, t + x)

Grew(r, r1, s, w, k) ==
  /\ ~r.ignore /\ r1.has = r.has \cup {s}
  /\ r1.text[s] = r.text[s] \o SubSeq(w, 1, k)
  /\ \A u \in StringParts \ {s} : r1.text[u] = r.text[u]

LEMMA TextStep ==
  ASSUME NEW q \in Frames, NEW s \in StringParts, NEW r \in RxTypes, NEW r1,
         NEW t \in Nat, NEW k \in Nat \ {0}, NEW w \in Seq(Octets),
         q.kind \in PublishKinds, Body(q, r, t), r.pos >= TextStart(q, s),
         r.pos + k <= TextStart(q, s) + Len(q.text[s]),
         Follows(w, k, q, t), Same(r, r1), r1.pos = r.pos + k,
         r1.topic_len = r.topic_len, r1.id = r.id,
         r1.ignore \/ Grew(r, r1, s, w, k)
  PROVE  Body(q, r1, t + k)
<1> DEFINE te == TopicEndOf(q)
           ie == IdEndOf(q)
           n == Len(q.text[s])
           start == TextStart(q, s)
           grown == Grew(r, r1, s, w, k)
<1>1. /\ te \in Nat /\ ie \in Nat /\ te > 2 /\ te <= ie /\ ie <= BodySize(q)
      /\ BodySize(q) \in Nat /\ HeaderSize(q) \in Nat
  BY FrameFacts, Constants
<1>15. /\ te = 2 + Len(q.text["topic"])
       /\ BodySize(q) = ie + Len(q.text["payload"])
  BY Constants DEF TopicEndOf, BodySize
<1>16. n \in Nat /\ start \in Nat
  BY <1>1, LenProperties, Constants DEF Frames, TextStart
<1>2. /\ Headed(q, r) /\ r.length.finished /\ r.length.acc = BodySize(q)
      /\ r.topic_len = TopicRead(q, r.pos) /\ r.id = IdRead(q, r.pos)
      /\ ~r.ignore => \A u \in StringParts : r.text[u] = TextRead(q, u, r.pos)
      /\ t = HeaderSize(q) + r.pos /\ r.pos \in Nat
      /\ Given(q, r)
  BY DEF Body, BodyRead, RxTypes
<1>3. /\ s = "topic" \/ s = "payload"
      /\ s = "topic" => start = 2 /\ start + n = te
      /\ s = "payload" => start = ie /\ start + n = BodySize(q)
  BY <1>15, Constants DEF StringParts, TextStart
<1>4. r.pos >= start /\ r.pos + k <= start + n /\ r1.pos = r.pos + k
  OBVIOUS
<1>5. r1.ignore \/ grown
  OBVIOUS
<1>17. r.pos \in Nat
  BY <1>2
<1> HIDE DEF te, ie, n, start, grown
<1>6. r1.id = IdRead(q, r1.pos)
  <2>1. CASE s = "topic"
    <3>1. r.pos <= te /\ r1.pos <= te
      BY <1>1, <1>2, <1>3, <1>4, <1>16, <2>1
    <3> QED BY <1>2, <3>1 DEF IdRead, te
  <2>2. CASE s = "payload"
    <3>1. r.pos >= ie /\ r1.pos >= ie /\ r1.pos \in Nat
      BY <1>1, <1>2, <1>3, <1>4, <1>16, <2>2
    <3>2. CASE q.kind = "PUBLISH_0"
      BY <1>2, <3>2 DEF IdRead
    <3>3. CASE q.kind # "PUBLISH_0"
      <4>1. ie = te + 2
        BY <3>3, Constants DEF ie, te, IdEndOf
      <4>2. /\ ~(r.pos <= te) /\ ~(r.pos = te + 1)
            /\ ~(r1.pos <= te) /\ ~(r1.pos = te + 1)
        BY <1>1, <1>2, <3>1, <4>1
      <4> QED BY <1>2, <3>3, <4>2 DEF IdRead, te
    <3> QED BY <3>2, <3>3
  <2> QED BY <1>3, <2>1, <2>2
<1>7. r.pos >= 2 /\ r1.pos > 2 /\ r1.pos \in 0 .. BodySize(q)
  BY SMTT(30), <1>1, <1>2, <1>3, <1>4, <1>16
<1>8. r1.topic_len = TopicRead(q, r1.pos)
  <2>1. ~(r.pos = 0) /\ ~(r.pos = 1) /\ ~(r1.pos = 0) /\ ~(r1.pos = 1)
    BY <1>2, <1>7
  <2> QED BY <1>2, <2>1 DEF TopicRead
<1>9. \A x \in 1 .. k : w[x] = q.text[s][(r.pos - start) + x]
  <2> SUFFICES ASSUME NEW x \in 1 .. k
               PROVE  w[x] = q.text[s][(r.pos - start) + x]
    OBVIOUS
  <2>1. r.pos + x \in Nat \ {0} /\ t + x = HeaderSize(q) + (r.pos + x)
    BY SMTT(30), <1>1, <1>2
  <2>2. w[x] = BodyByte(q, r.pos + x)
    BY <2>1, BodyBytes DEF Follows
  <2>3. /\ (r.pos - start) + x \in 1 .. n
        /\ r.pos + x = start + ((r.pos - start) + x)
    BY SMTT(30), <1>4, <1>16, <1>17
  <2>4. CASE s = "topic"
    <3>1. start = LenSize
      BY <1>3, <2>4, Constants
    <3> QED BY <2>2, <2>3, <2>4, <3>1, BodyBytes DEF n
  <2>5. CASE s = "payload"
    <3>1. start = IdEndOf(q)
      BY <1>3, <2>5 DEF ie
    <3> QED BY <2>2, <2>3, <2>5, <3>1, BodyBytes DEF n
  <2> QED BY <1>3, <2>4, <2>5
<1>10. ASSUME ~r1.ignore, NEW u \in StringParts
       PROVE  r1.text[u] = TextRead(q, u, r1.pos)
  <2>1. grown
    BY <1>5, <1>10
  <2>2. r.text[u] = TextRead(q, u, r.pos)
    BY <1>2, <2>1 DEF grown, Grew
  <2>3. CASE u = s
    <3>1. k \in Nat /\ k <= Len(w) /\ r.pos >= TextStart(q, s)
          /\ r.pos + k <= TextStart(q, s) + Len(q.text[s])
      BY DEF Follows
    <3>2. \A x \in 1 .. k : w[x] = q.text[s][(r.pos - TextStart(q, s)) + x]
      BY <1>9 DEF start
    <3>3. TextRead(q, s, r.pos + k)
            = TextRead(q, s, r.pos) \o SubSeq(w, 1, k)
      <4>1. PICK a \in Nat : a = r.pos
        BY <1>17
      <4>2. /\ a >= TextStart(q, s) /\ k <= Len(w) /\ k \in Nat
            /\ a + k <= TextStart(q, s) + Len(q.text[s])
            /\ \A x \in 1 .. k :
                 w[x] = q.text[s][(a - TextStart(q, s)) + x]
        BY <3>1, <3>2, <4>1
      <4>3. TextRead(q, s, a + k) = TextRead(q, s, a) \o SubSeq(w, 1, k)
        BY <4>2, TextGrows
      <4> QED BY <4>1, <4>3
    <3> QED BY <1>4, <2>1, <2>2, <2>3, <3>3 DEF grown, Grew
  <2>4. CASE u # s
    <3>1. r.pos <= r1.pos /\ r1.pos \in Nat
      BY <1>2, <1>4
    <3>2. \/ r1.pos <= TextStart(q, u)
          \/ r.pos >= TextStart(q, u) + Len(q.text[u])
      <4>1. CASE u = "payload" /\ s = "topic"
        <5>1. TextStart(q, u) = ie
          BY <4>1 DEF TextStart, ie
        <5> QED BY <1>1, <1>2, <1>3, <1>4, <1>16,
                   <4>1, <5>1
      <4>2. CASE u = "topic" /\ s = "payload"
        <5>1. TextStart(q, u) + Len(q.text[u]) = te
          BY <1>15, <4>2, Constants DEF TextStart
        <5> QED BY SMTT(30), <1>1, <1>2, <1>3, <1>4, <1>16,
                   <4>2, <5>1
      <4> QED BY <2>4, <4>1, <4>2 DEF StringParts
    <3>3. TextRead(q, u, r1.pos) = TextRead(q, u, r.pos)
      BY <1>2, <3>1, <3>2, TextKeeps
    <3> QED BY <2>1, <2>2, <2>4, <3>3 DEF grown, Grew
  <2> QED BY <2>3, <2>4
<1>11. Headed(q, r1) /\ r1.length = r.length
  BY <1>2 DEF Headed, Same
<1>12. BodyRead(q, r1)
  BY <1>2, <1>6, <1>7, <1>8, <1>10, <1>11 DEF BodyRead
<1>13. Given(q, r1)
  <2>1. q.kind \notin AckKinds /\ ~(r1.pos < LenSize)
    BY <1>1, <1>7, KindsOfPackets, Constants
  <2>2. ASSUME ~r1.ignore
        PROVE  /\ "topic" \in r1.has
               /\ r1.pos > IdEndOf(q) => "payload" \in r1.has
    <3>1. grown
      BY <1>5, <2>2
    <3>2. CASE s = "topic"
      <4>1. ~(r1.pos > IdEndOf(q))
        BY <1>1, <1>2, <1>3, <1>4, <1>16, <3>2 DEF ie
      <4> QED BY <3>1, <3>2, <4>1 DEF grown, Grew
    <3>3. CASE s = "payload"
      <4>1. r.pos > LenSize
        BY <1>1, <1>2, <1>3, <1>4, <1>16, <3>3, Constants
      <4>2. "topic" \in r.has
        BY <1>2, <3>1, <4>1 DEF Given, grown, Grew
      <4> QED BY <3>1, <3>3, <4>2 DEF grown, Grew
    <3> QED BY <1>3, <3>2, <3>3
  <2> QED BY <2>1, <2>2 DEF Given
<1>14. t + k = HeaderSize(q) + r1.pos
  BY <1>1, <1>2, <1>4
<1> QED BY <1>11, <1>12, <1>13, <1>14 DEF Body
LEMMA Whole ==
  ASSUME NEW q \in Frames, NEW r \in RxTypes, NEW t, Body(q, r, t),
         r.pos = BodySize(q)
  PROVE  /\ KindOf(r) = q.kind /\ r.id = q.id /\ r.dup = q.dup
         /\ ~r.ignore => r.text = q.text
         /\ t = FrameSize(q)
<1>1. /\ r.type = TypeOf(q) /\ r.qos = FlagOf(q) /\ r.dup = q.dup
      /\ r.id = IdRead(q, BodySize(q))
      /\ ~r.ignore =>
           \A s \in StringParts : r.text[s] = TextRead(q, s, BodySize(q))
      /\ t = HeaderSize(q) + BodySize(q)
  BY DEF Body, Headed, BodyRead
<1>2. q.kind \in PublishKinds \/ q.kind \in AckKinds
  BY DEF Frames, PacketKinds
<1>3. KindOf(r) = q.kind
  <2>1. CASE q.kind \in AckKinds
    <3>1. q.kind \notin PublishKinds /\ q.kind # "PUBLISH"
      BY <2>1 DEF AckKinds, PublishKinds
    <3> QED BY <1>1, <3>1 DEF TypeOf, KindOf
  <2>2. CASE q.kind \in PublishKinds
    <3>1. /\ QosOf("PUBLISH_0") = 0 /\ QosOf("PUBLISH_1") = 1
          /\ QosOf("PUBLISH_2") = 2
      BY Zenon DEF QosOf
    <3>2. r.type = "PUBLISH" /\ r.qos = QosOf(q.kind)
      BY <1>1, <2>2 DEF TypeOf, FlagOf, PublishKinds
    <3>3. KindOf(r) = CASE r.qos = 0 -> "PUBLISH_0"
                        [] r.qos = 1 -> "PUBLISH_1" [] OTHER -> "PUBLISH_2"
      BY <3>2, Zenon DEF KindOf
    <3>4. /\ r.qos = 0 => KindOf(r) = "PUBLISH_0"
          /\ r.qos = 1 => KindOf(r) = "PUBLISH_1"
          /\ r.qos # 0 /\ r.qos # 1 => KindOf(r) = "PUBLISH_2"
      <4>1. 0 # 1
        OBVIOUS
      <4> QED BY <3>3, <4>1, Zenon
    <3> QED BY <2>2, <3>1, <3>2, <3>4 DEF PublishKinds
  <2> QED BY <1>2, <2>1, <2>2
<1>4. r.id = q.id
  <2>1. /\ TopicEndOf(q) \in Nat /\ IdEndOf(q) <= BodySize(q)
        /\ IdEndOf(q) \in Nat /\ BodySize(q) \in Nat
    BY FrameFacts, Constants
  <2>2. CASE q.kind = "PUBLISH_0"
    BY <1>1, <2>2 DEF IdRead, Frames, GoodFrame
  <2>3. CASE q.kind # "PUBLISH_0"
    <3>1. IdEndOf(q) = TopicEndOf(q) + 2
      BY <2>3, Constants DEF IdEndOf
    <3>2. /\ ~(BodySize(q) <= TopicEndOf(q))
          /\ ~(BodySize(q) = TopicEndOf(q) + 1)
      BY <2>1, <3>1
    <3> QED BY <1>1, <2>3, <3>2 DEF IdRead
  <2> QED BY <2>2, <2>3
<1>5. ASSUME ~r.ignore
      PROVE  r.text = q.text
  <2>1. \A s \in StringParts : r.text[s] = q.text[s]
    BY <1>1, <1>5, TextWhole
  <2>2. /\ r.text \in [StringParts -> Seq(Octets)]
        /\ q.text \in [StringParts -> Seq(Octets)]
    BY DEF RxTypes, Frames
  <2> QED BY <2>1, <2>2
<1> QED BY <1>1, <1>3, <1>4, <1>5 DEF FrameSize

-----------------------------------------------------------------------------
(* The place of the encoder in its packet.                                 *)

LEMMA CurrentFacts ==
  ASSUME EncoderInv, Numbers, HasCurrent(store),
         NEW p, p = Current(store), NEW size, size = Len(Bytes(p, PartName))
  PROVE  /\ p \in Packets /\ Fresh(p) /\ Sent(p) \in Frames
         /\ Len(Names(p)) \in Nat \ {0} /\ part + 1 \in 1 .. Len(Names(p))
         /\ PartOK(p, part + 1)
         /\ Done = StartOf(p, PartName) + offset
         /\ size \in Nat \ {0} /\ offset \in 0 .. size - 1
         /\ StartOf(p, PartName) \in Nat
         /\ StartOf(p, PartName) + size <= FrameSize(Sent(p))
         /\ FrameSize(Sent(p)) \in Nat
<1>1. /\ WellFormed(store, Packets) /\ part \in Nat /\ offset \in Nat
      /\ part < Len(Names(p)) /\ offset < size
  BY DEF EncoderInv
<1>2. /\ store.entries \in Seq(Packets) /\ store.pos \in Nat
      /\ store.pos + 1 \in 1 .. Len(store.entries)
      /\ p = store.entries[store.pos + 1]
  BY <1>1, LenProperties DEF WellFormed, HasCurrent, Current, Count
<1>3. p \in Packets
  BY <1>2, ElementOfSeq
<1>4. Fresh(p)
  BY <1>2 DEF Fresh, Numbers, Count
<1>5. Sent(p) \in Frames
  BY <1>3, <1>4, SentFacts
<1>6. /\ Len(Names(p)) \in Nat \ {0}
      /\ \A i \in 1 .. Len(Names(p)) : PartOK(p, i)
  BY <1>3, <1>4, PartFacts
<1>7. part + 1 \in 1 .. Len(Names(p)) /\ PartOK(p, part + 1)
  BY <1>1, <1>6
<1>8. /\ PartName \in {"fixed", "topic", "id", "payload"}
      /\ HasBytes(p, PartName, size)
      /\ part + 1 < Len(Names(p)) =>
           StartOf(p, Names(p)[(part + 1) + 1]) = StartOf(p, PartName) + size
      /\ part + 1 = Len(Names(p)) =>
           StartOf(p, PartName) + size = FrameSize(Sent(p))
  BY <1>7 DEF PartOK, PartName
<1>9. size \in Nat \ {0} /\ StartOf(p, PartName) \in Nat
  BY <1>8 DEF HasBytes
<1>10. Done = StartOf(p, PartName) + offset
  BY DEF Done
<1>11. FrameSize(Sent(p)) \in Nat
  BY <1>5, FrameFacts
<1>12. StartOf(p, PartName) + size <= FrameSize(Sent(p))
  <2>1. CASE part + 1 = Len(Names(p))
    BY <1>8, <1>9, <1>11, <2>1
  <2>2. CASE part + 1 # Len(Names(p))
    <3>1. (part + 1) + 1 \in 1 .. Len(Names(p)) /\ part + 1 < Len(Names(p))
      BY <1>1, <1>6, <2>2
    <3> DEFINE next == Names(p)[(part + 1) + 1]
    <3>2. next \in {"fixed", "topic", "id", "payload"}
      BY <1>6, <3>1 DEF PartOK
    <3>3. StartOf(p, next) <= FrameSize(Sent(p))
      <4> DEFINE q == Sent(p)
      <4>1. /\ TopicEndOf(q) \in Nat /\ IdEndOf(q) \in Nat
            /\ TopicEndOf(q) <= IdEndOf(q) /\ IdEndOf(q) <= BodySize(q)
            /\ BodySize(q) \in Nat /\ HeaderSize(q) \in Nat
            /\ FrameSize(q) = HeaderSize(q) + BodySize(q)
        BY <1>5, FrameFacts, Constants
      <4>2. StartOf(p, next) \in {0, HeaderSize(q),
                                  HeaderSize(q) + TopicEndOf(q),
                                  HeaderSize(q) + IdEndOf(q)}
        BY <3>2, StartsOf
      <4> HIDE DEF q, next
      <4> QED BY <4>1, <4>2 DEF q
    <3> QED BY <1>8, <3>1, <3>3
  <2> QED BY <2>1, <2>2
<1> QED BY <1>1, <1>3, <1>4, <1>5, <1>6, <1>7, <1>9, <1>10, <1>11, <1>12

LEMMA DoneFacts ==
  ASSUME EncoderInv, Numbers
  PROVE  /\ Done \in Nat
         /\ Done > 0 => HasCurrent(store)
         /\ HasCurrent(store) =>
              /\ Sent(Current(store)) \in Frames
              /\ Done < FrameSize(Sent(Current(store)))
<1>1. CASE HasCurrent(store)
  <2> DEFINE p == Current(store)
             size == Len(Bytes(p, PartName))
             start == StartOf(p, PartName)
  <2>1. /\ Sent(p) \in Frames /\ Done = start + offset
        /\ size \in Nat \ {0} /\ offset \in 0 .. size - 1 /\ start \in Nat
        /\ start + size <= FrameSize(Sent(p)) /\ FrameSize(Sent(p)) \in Nat
    BY <1>1, CurrentFacts
  <2> HIDE DEF p, size, start
  <2>2. Done \in Nat /\ Done < FrameSize(Sent(p))
    BY <2>1
  <2> QED BY <1>1, <2>1, <2>2 DEF p
<1>2. CASE ~HasCurrent(store)
  <2>1. Done = 0
    BY <1>2 DEF Done
  <2> QED BY <1>2, <2>1
<1> QED BY <1>1, <1>2
-----------------------------------------------------------------------------
(* The wire.                                                               *)

(* What is known of the next packet to be decoded, of which t bytes have   *)
(* been taken.                                                             *)
Facing(at, q, t) ==
  /\ q = Frame(Len(got) + 1) /\ t = 0 - at[Len(got) + 1]
  /\ q \in Frames /\ t \in Nat /\ DecoderInv(q, rx, t)
  /\ \A k \in 1 .. Len(wire) : t + k <= FrameSize(q) => Follows(wire, k, q, t)
  /\ Len(got) + 1 > Len(sent) =>
       Len(wire) + t = Done /\ Done < FrameSize(q)

LEMMA Ranges ==
  ASSUME StreamInv
  PROVE  /\ Len(got) \in Nat /\ Len(sent) \in Nat /\ Len(got) <= Len(sent)
         /\ Len(wire) \in Nat /\ Done \in Nat
         /\ \A i \in 1 .. Len(sent) : sent[i] \in Frames
         /\ \A i \in 1 .. Len(wire) : wire[i] \in Octets
<1>1. /\ got \in Seq(Messages) /\ Len(got) <= Len(sent)
  BY DEF StreamInv, Matched, ReceivedIsSent
<1>2. sent \in Seq(Frames) /\ wire \in Seq(Octets)
  BY DEF StreamInv, Numbers
<1>3. Done \in Nat
  BY DoneFacts DEF StreamInv
<1>4. Len(got) \in Nat
  BY <1>1, LenProperties
<1> QED BY <1>1, <1>2, <1>3, <1>4, LenProperties, ElementOfSeq

(* Every packet has its place, and every byte behind it.                   *)
LEMMA Places ==
  ASSUME StreamInv, NEW at \in [Nat -> Int], Laid(at),
         NEW i \in Len(got) + 1 .. Len(sent) + 1
  PROVE  /\ at[i] \in Int /\ Encoded(i) \in Nat
         /\ at[i] + Encoded(i) <= Len(wire)
         /\ i <= Len(sent) => i + 1 \in Len(got) + 1 .. Len(sent) + 1
<1>1. /\ Len(got) \in Nat /\ Len(sent) \in Nat /\ Done \in Nat
      /\ Len(wire) \in Nat
  BY Ranges
<1>2. i \in Nat /\ Len(sent) + 1 \in Nat
  BY <1>1
<1>3. at[i] \in Int /\ at[Len(sent) + 1] \in Int
  BY <1>2
<1>4. Len(wire) = at[Len(sent) + 1] + Done
  BY DEF Laid
<1>5. CASE i <= Len(sent)
  <2>1. i + 1 \in Len(got) + 1 .. Len(sent) + 1 /\ i + 1 \in Nat
    BY <1>1, <1>5
  <2>2. sent[i] \in Frames
    BY <1>1, <1>5, Ranges
  <2>3. Encoded(i) = FrameSize(sent[i]) /\ Encoded(i) \in Nat
    BY <1>5, <2>2, FrameFacts DEF Encoded
  <2>4. i \in Len(got) + 1 .. Len(sent)
    BY <1>1, <1>5
  <2>5. at[i + 1] = at[i] + FrameSize(sent[i])
    BY <2>4 DEF Laid
  <2>6. at[i + 1] <= at[Len(sent) + 1]
    BY <2>1 DEF Laid
  <2>7. at[i + 1] \in Int
    BY <2>1
  <2>8. at[i] + Encoded(i) = at[i + 1]
    BY <2>3, <2>5
  <2>9. at[i] + Encoded(i) <= Len(wire)
    BY SMTT(30), <1>1, <1>3, <1>4, <2>6, <2>7, <2>8
  <2> QED BY <1>3, <2>1, <2>3, <2>9
<1>6. CASE i > Len(sent)
  <2>1. i = Len(sent) + 1
    BY <1>1, <1>6
  <2>2. Encoded(i) = Done
    BY <1>1, <1>6, <2>1 DEF Encoded
  <2> QED BY <1>1, <1>3, <1>4, <2>1, <2>2
<1> QED BY <1>1, <1>2, <1>5, <1>6

LEMMA Ahead ==
  ASSUME NEW w \in Seq(Octets), NEW q, NEW t \in Nat, NEW k \in Nat,
         NEW e \in Nat, NEW a \in Int, a + t = 0, k <= Len(w), t + k <= e,
         \A j \in 1 .. e : a + j >= 1 => w[a + j] = FrameByte(q, j)
  PROVE  Follows(w, k, q, t)
<1> SUFFICES ASSUME NEW x \in 1 .. k
             PROVE  w[x] = FrameByte(q, t + x)
  BY DEF Follows
<1>1. t + x \in 1 .. e /\ a + (t + x) = x /\ x >= 1
  OBVIOUS
<1>2. w[a + (t + x)] = FrameByte(q, t + x)
  BY <1>1
<1> QED BY <1>1, <1>2

LEMMA FacingNext ==
  ASSUME StreamInv, wire # <<>>, NEW at \in [Nat -> Int], Streaming(at),
         NEW q, q = Frame(Len(got) + 1), NEW t, t = 0 - at[Len(got) + 1]
  PROVE  Facing(at, q, t)
<1> DEFINE g == Len(got) + 1
<1>14. q = Frame(g) /\ t = 0 - at[g]
  OBVIOUS
<1>1. /\ Len(got) \in Nat /\ Len(sent) \in Nat /\ g \in Nat
      /\ g <= Len(sent) + 1 /\ Len(wire) \in Nat /\ Done \in Nat
      /\ g \in g .. Len(sent) + 1
  BY Ranges
<1>2. Len(wire) > 0
  BY EmptySeq, LenProperties DEF StreamInv
<1>3. Laid(at) /\ DecoderInv(q, rx, t)
  BY <1>14 DEF Streaming
<1>4. at[g] \in Int /\ Encoded(g) \in Nat /\ at[g] + Encoded(g) <= Len(wire)
  BY <1>1, <1>3, Places
<1>5. at[g] <= 0
  BY <1>14 DEF Streaming
<1>6. t \in Nat
  BY <1>4, <1>5, <1>14
<1>7. /\ g > Len(sent) => g = Len(sent) + 1 /\ Encoded(g) = Done
      /\ Len(wire) = at[Len(sent) + 1] + Done
  <2>1. Len(wire) = at[Len(sent) + 1] + Done
    BY <1>3 DEF Laid
  <2>2. ASSUME g > Len(sent)
        PROVE  g = Len(sent) + 1 /\ Encoded(g) = Done
    <3>1. g = Len(sent) + 1 /\ ~(g <= Len(sent))
      BY <1>1, <2>2
    <3> HIDE DEF g
    <3> QED BY <3>1 DEF Encoded
  <2> QED BY <2>1, <2>2
<1>8. q \in Frames
  <2>1. CASE g <= Len(sent)
    <3>1. g \in 1 .. Len(sent)
      BY <1>1, <2>1
    <3> QED BY <1>14, <2>1, <3>1, Ranges DEF Frame
  <2>2. CASE g > Len(sent)
    <3>1. Done > 0
      BY <1>1, <1>2, <1>4, <1>5, <1>7, <2>2
    <3>2. Sent(Current(store)) \in Frames
      BY <3>1, DoneFacts DEF StreamInv
    <3> QED BY <1>1, <1>14, <2>2, <3>2 DEF Frame
  <2> QED BY <1>1, <2>1, <2>2
<1>9. ASSUME g > Len(sent)
      PROVE  Len(wire) + t = Done /\ Done < FrameSize(q)
  <2>1. Len(wire) + t = Done
    BY <1>1, <1>4, <1>7, <1>9, <1>14
  <2>2. Done > 0
    BY <1>1, <1>2, <1>6, <2>1
  <2>3. Frame(g) = Sent(Current(store))
    BY <1>1, <1>9, <1>14 DEF Frame
  <2> QED BY <2>1, <2>2, <2>3, DoneFacts DEF StreamInv
<1>10. FrameSize(q) \in Nat
  BY <1>8, FrameFacts
<1>11. g <= Len(sent) => Encoded(g) = FrameSize(q)
  BY <1>14 DEF Encoded, Frame
<1>12. \A j \in 1 .. Encoded(g) :
         at[g] + j >= 1 => wire[at[g] + j] = FrameByte(q, j)
  BY <1>1, <1>3, <1>14 DEF Laid
<1> HIDE DEF g
<1>13. ASSUME NEW k \in 1 .. Len(wire), t + k <= FrameSize(q)
       PROVE  Follows(wire, k, q, t)
  <2>1. k \in Nat /\ k <= Len(wire)
    BY <1>1
  <2>2. t + k <= Encoded(g)
    <3>1. CASE g <= Len(sent)
      BY <1>11, <1>13, <3>1
    <3>2. CASE g > Len(sent)
      <4>1. Len(wire) + t = Encoded(g)
        BY <1>7, <1>9, <3>2
      <4> QED BY <1>1, <1>6, <2>1, <4>1
    <3> QED BY <1>1, <3>1, <3>2
  <2>3. at[g] + t = 0
    BY <1>4, <1>14
  <2>4. wire \in Seq(Octets)
    BY DEF StreamInv
  <2> QED BY <1>4, <1>6, <1>12, <2>1, <2>2, <2>3, <2>4, Ahead
<1>15. Len(got) + 1 > Len(sent) => Len(wire) + t = Done /\ Done < FrameSize(q)
  BY <1>9 DEF g
<1> QED BY <1>3, <1>6, <1>8, <1>13, <1>15 DEF Facing, g
LEMMA Unmoved ==
  ASSUME UNCHANGED <<tx, sent>>
  PROVE  /\ Done' = Done
         /\ \A i : Frame(i)' = Frame(i) /\ Encoded(i)' = Encoded(i)
<1>1. /\ store' = store /\ part' = part /\ offset' = offset
      /\ encoded' = encoded /\ sent' = sent
  BY DEF tx
<1>2. \A p : Sent(p)' = Sent(p)
  BY <1>1 DEF Sent
<1>3. \A p, name : StartOf(p, name)' = StartOf(p, name)
  BY <1>1 DEF StartOf, Sent
<1>4. Done' = Done
  BY <1>1 DEF Done, PartName, StartOf, Sent
<1>5. \A i : Frame(i)' = Frame(i)
  BY <1>1 DEF Frame, Sent
<1>6. \A i : Encoded(i)' = Encoded(i)
  BY <1>1, <1>4 DEF Encoded
<1> QED BY <1>4, <1>5, <1>6

(* When bytes are taken, every place moves to the front.                   *)
Moved(at, k, at1) ==
  at1 \in [Nat -> Int] /\ \A i \in Nat : at1[i] = at[i] - k

LEMMA CanMove ==
  ASSUME NEW at \in [Nat -> Int], NEW k \in Int
  PROVE  \E at1 : Moved(at, k, at1)
<1> DEFINE at1 == [i \in Nat |-> at[i] - k]
<1>1. \A i \in Nat : at[i] - k \in Int
  OBVIOUS
<1>2. at1 \in [Nat -> Int] /\ \A i \in Nat : at1[i] = at[i] - k
  BY <1>1
<1> QED BY <1>2 DEF Moved

(* k bytes are taken from the wire; the encoder does not move.             *)
Taken(k) ==
  /\ k \in Nat /\ k <= Len(wire)
  /\ wire' = SubSeq(wire, k + 1, Len(wire)) /\ UNCHANGED <<tx, sent>>

LEMMA TakenFacts ==
  ASSUME wire \in Seq(Octets), NEW k, Taken(k)
  PROVE  /\ k \in Nat /\ k <= Len(wire)
         /\ wire' \in Seq(Octets) /\ Len(wire') = Len(wire) - k
         /\ \A i \in 1 .. Len(wire) - k : wire'[i] = wire[k + i]
         /\ Done' = Done /\ sent' = sent
<1>1. k \in Nat /\ k <= Len(wire) /\ UNCHANGED <<tx, sent>>
  BY DEF Taken
<1>2. wire' = SubSeq(wire, k + 1, Len(wire))
  BY DEF Taken
<1>3. /\ wire' \in Seq(Octets) /\ Len(wire') = Len(wire) - k
      /\ \A i \in 1 .. Len(wire) - k : wire'[i] = wire[k + i]
  BY <1>1, <1>2, Slice
<1> QED BY <1>1, <1>3, Unmoved

LEMMA Shifted ==
  ASSUME StreamInv, NEW at \in [Nat -> Int], Laid(at),
         NEW k, Taken(k), NEW at1, Moved(at, k, at1),
         Len(got') \in Nat, Len(got) <= Len(got')
  PROVE  Laid(at1)'
<1>1. /\ Len(got) \in Nat /\ Len(sent) \in Nat /\ Len(wire) \in Nat
      /\ Done \in Nat
  BY Ranges
<1>2. /\ at1 \in [Nat -> Int] /\ \A i \in Nat : at1[i] = at[i] - k
      /\ \A i \in Nat : at[i] \in Int
  BY DEF Moved
<1>3. /\ k \in Nat /\ k <= Len(wire)
      /\ wire' \in Seq(Octets) /\ Len(wire') = Len(wire) - k
      /\ \A i \in 1 .. Len(wire) - k : wire'[i] = wire[k + i]
      /\ Done' = Done /\ sent' = sent
  BY TakenFacts DEF StreamInv
<1>0. k \in Nat /\ k <= Len(wire) /\ k \in Int
  BY <1>3
<1>4. \A i : Frame(i)' = Frame(i) /\ Encoded(i)' = Encoded(i)
  BY Unmoved DEF Taken
<1>5. /\ Len(got') + 1 .. Len(sent) + 1 \subseteq
           Len(got) + 1 .. Len(sent) + 1
      /\ Len(got') + 1 .. Len(sent) \subseteq Len(got) + 1 .. Len(sent)
      /\ Len(got) + 1 .. Len(sent) + 1 \subseteq Nat
      /\ Len(sent) + 1 \in Nat
  BY SMTT(30), <1>1
<1>6. ASSUME NEW i \in Len(got') + 1 .. Len(sent) + 1
      PROVE  at1[i] <= at1[Len(sent) + 1]
  <2>1. at[i] <= at[Len(sent) + 1]
    BY <1>5 DEF Laid
  <2>2. i \in Nat /\ Len(sent) + 1 \in Nat
    BY <1>5
  <2>3. /\ at1[i] = at[i] - k /\ at[i] \in Int
        /\ at1[Len(sent) + 1] = at[Len(sent) + 1] - k
        /\ at[Len(sent) + 1] \in Int
    BY <1>2, <2>2
  <2>4. PICK a \in Int : a = at[i]
    BY <2>3
  <2>5. PICK b \in Int : b = at[Len(sent) + 1]
    BY <2>3
  <2>6. a - k <= b - k
    BY SMTT(30), <1>0, <2>1, <2>4, <2>5
  <2> QED BY <2>3, <2>4, <2>5, <2>6
<1>7. ASSUME NEW i \in Len(got') + 1 .. Len(sent)
      PROVE  at1[i + 1] = at1[i] + FrameSize(sent[i])
  <2>1. at[i + 1] = at[i] + FrameSize(sent[i])
    BY <1>5 DEF Laid
  <2>2. i \in Nat /\ i + 1 \in Nat /\ i \in 1 .. Len(sent)
    BY <1>1, <1>5
  <2>3. FrameSize(sent[i]) \in Nat
    BY <2>2, Ranges, FrameFacts
  <2>4. /\ at1[i] = at[i] - k /\ at[i] \in Int
        /\ at1[i + 1] = at[i + 1] - k /\ at[i + 1] \in Int
    BY <1>2, <2>2
  <2>5. PICK a \in Int : a = at[i]
    BY <2>4
  <2>6. PICK f \in Nat : f = FrameSize(sent[i])
    BY <2>3
  <2>7. (a + f) - k = (a - k) + f
    BY <1>0
  <2> QED BY <2>1, <2>4, <2>5, <2>6, <2>7
<1>8. Len(wire') = at1[Len(sent) + 1] + Done
  <2>1. Len(wire) = at[Len(sent) + 1] + Done
    BY DEF Laid
  <2> QED BY SMTT(30), <1>1, <1>2, <1>3, <1>5, <2>1
<1>9. ASSUME NEW i \in Len(got') + 1 .. Len(sent) + 1,
             NEW j \in 1 .. Encoded(i), at1[i] + j >= 1
      PROVE  wire'[at1[i] + j] = FrameByte(Frame(i), j)
  <2>1. /\ at[i] \in Int /\ Encoded(i) \in Nat
        /\ at[i] + Encoded(i) <= Len(wire)
    BY <1>5, Places
  <2>2. at1[i] = at[i] - k
    BY <1>2, <1>5
  <2>3. j \in Nat /\ at[i] + j >= 1
    <3>1. PICK a \in Int : a = at[i]
      BY <2>1
    <3>2. j \in Nat /\ (a - k) + j >= 1
      BY <1>9, <2>1, <2>2, <3>1
    <3>3. a + j >= 1
      BY <1>0, <3>2
    <3> QED BY <3>1, <3>2, <3>3
  <2>4. /\ at1[i] + j \in 1 .. Len(wire) - k
        /\ k + (at1[i] + j) = at[i] + j
    <3>1. PICK a \in Int : a = at[i]
      BY <2>1
    <3>2. PICK e \in Nat : e = Encoded(i)
      BY <2>1
    <3>3. PICK w \in Nat : w = Len(wire)
      BY <1>1
    <3>4. /\ j \in Nat /\ (a - k) + j >= 1 /\ j <= e /\ a + e <= w
      BY <1>9, <2>1, <2>2, <2>3, <3>1, <3>2, <3>3
    <3>5. (a - k) + j \in 1 .. w - k /\ k + ((a - k) + j) = a + j
      BY <1>0, <3>4
    <3> QED BY <2>2, <3>1, <3>3, <3>5
  <2>5. wire[at[i] + j] = FrameByte(Frame(i), j)
    BY <1>5, <2>3 DEF Laid
  <2> QED BY <1>3, <2>4, <2>5
<1>10. /\ Len(wire') = at1[Len(sent') + 1] + Done'
       /\ \A i \in Len(got') + 1 .. Len(sent') + 1 :
            at1[i] <= at1[Len(sent') + 1]
       /\ \A i \in Len(got') + 1 .. Len(sent') :
            at1[i + 1] = at1[i] + FrameSize(sent'[i])
  BY <1>3, <1>6, <1>7, <1>8
<1>11. \A i \in Len(got') + 1 .. Len(sent') + 1 :
         \A j \in 1 .. Encoded(i)' :
           at1[i] + j >= 1 => wire'[at1[i] + j] = FrameByte(Frame(i)', j)
  BY <1>3, <1>4, <1>9
<1> QED BY <1>10, <1>11 DEF Laid

LEMMA NothingTaken ==
  ASSUME NEW q \in Frames, NEW r \in RxTypes, NEW t, t = 0,
         DecoderInv(q, r, t)
  PROVE  r = FreshRx
<1>1. r.pos \in Nat /\ HeaderSize(q) \in 2 .. 5
  BY FrameFacts DEF RxTypes
<1>2. t # HeaderSize(q) + r.pos
  BY <1>1
<1>3. t \notin 1 .. HeaderSize(q) - 1
  BY <1>1
<1> QED BY <1>2, <1>3 DEF DecoderInv, Body

LEMMA WireGoesOn ==
  ASSUME StreamInv, NEW at \in [Nat -> Int], Streaming(at),
         NEW q, NEW t, Facing(at, q, t),
         NEW k, Taken(k), got' = got,
         DecoderInv(q, rx', t + k), rx' \in RxTypes
  PROVE  WireInv'
<1> DEFINE g == Len(got) + 1
<1>0. k \in Nat /\ sent' = sent /\ k <= Len(wire)
  BY TakenFacts DEF StreamInv
<1> PICK at1 : Moved(at, k, at1)
  BY <1>0, CanMove
<1>1. Laid(at1)' /\ at1 \in [Nat -> Int]
  <2>1. at1 \in [Nat -> Int]
    BY DEF Moved
  <2>2. Laid(at)
    BY DEF Streaming
  <2>3. Len(got') \in Nat /\ Len(got) <= Len(got')
    BY Ranges
  <2>4. Laid(at1)'
    BY <2>2, <2>3, Shifted
  <2> QED BY <2>1, <2>4
<1>2. g \in Nat /\ at1[g] = at[g] - k /\ at[g] \in Int
  BY SMTT(30), Ranges DEF Moved
<1>3. t = 0 - at[g] /\ t \in Nat /\ q = Frame(g)
  BY DEF Facing
<1>4. 0 - at1[g] = t + k /\ at1[g] <= 0
  BY SMTT(30), <1>0, <1>2, <1>3
<1>5. Frame(g)' = q
  <2>1. \A i : Frame(i)' = Frame(i)
    BY Unmoved DEF Taken
  <2> QED BY <1>3, <2>1
<1>6. Streaming(at1)'
  <2>1. DecoderInv(q, rx', 0 - at1[g])
    BY <1>4
  <2>2. ASSUME at1[g] = 0
        PROVE  rx' = FreshRx
    BY <1>3, <2>1, <2>2, NothingTaken DEF Facing
  <2> QED BY <1>1, <1>4, <1>5, <2>1, <2>2 DEF Streaming
<1> QED BY <1>1, <1>6 DEF WireInv

LEMMA NextPacket ==
  ASSUME StreamInv, NEW at \in [Nat -> Int], Streaming(at),
         NEW q, NEW t, Facing(at, q, t),
         NEW k, Taken(k), t + k = FrameSize(q),
         Len(got') = Len(got) + 1, rx' = FreshRx
  PROVE  WireInv' /\ Len(got) + 1 <= Len(sent) /\ q = sent[Len(got) + 1]
<1> DEFINE g == Len(got) + 1
<1>0. k \in Nat /\ sent' = sent /\ k <= Len(wire)
  BY TakenFacts DEF StreamInv
<1> PICK at1 : Moved(at, k, at1)
  BY <1>0, CanMove
<1>1. /\ Len(got) \in Nat /\ Len(sent) \in Nat /\ Len(wire) \in Nat
      /\ Done \in Nat
  BY Ranges
<1>2. Laid(at1)' /\ at1 \in [Nat -> Int]
  <2>1. at1 \in [Nat -> Int]
    BY DEF Moved
  <2>2. Laid(at)
    BY DEF Streaming
  <2>3. Len(got') \in Nat /\ Len(got) <= Len(got')
    BY <1>1
  <2>4. Laid(at1)'
    BY <2>2, <2>3, Shifted
  <2> QED BY <2>1, <2>4
<1>3. g \in Nat /\ g + 1 \in Nat /\ at[g] \in Int /\ at[g + 1] \in Int
      /\ at1[g + 1] = at[g + 1] - k
  BY SMTT(30), <1>1 DEF Moved
<1>4. t = 0 - at[g] /\ t \in Nat /\ q = Frame(g) /\ q \in Frames
  BY DEF Facing
<1>5. FrameSize(q) \in Nat
  BY <1>4, FrameFacts
<1>6. g <= Len(sent)
  <2> SUFFICES ASSUME g > Len(sent)
               PROVE  FALSE
    BY <1>1
  <2>1. Len(wire) + t = Done /\ Done < FrameSize(q)
    BY DEF Facing
  <2> QED BY <1>0, <1>1, <1>4, <1>5, <2>1
<1>7. q = sent[g]
  BY <1>4, <1>6 DEF Frame
<1>8. at[g + 1] = at[g] + FrameSize(q)
  <2>1. g \in Len(got) + 1 .. Len(sent)
    BY <1>1, <1>6
  <2> QED BY <1>7, <2>1 DEF Streaming, Laid
<1>9. at1[g + 1] = 0 /\ 0 - at1[g + 1] = 0
  <2>1. PICK a \in Int : a = at[g]
    BY <1>3
  <2>2. PICK f \in Nat : f = FrameSize(q)
    BY <1>5
  <2>3. 0 - a = t /\ t + k = f
    BY <1>4, <2>1, <2>2
  <2>4. (a + f) - k = 0
    BY <1>0, <1>4, <2>3
  <2>5. at1[g + 1] = (a + f) - k
    BY <1>3, <1>8, <2>1, <2>2
  <2> QED BY <2>4, <2>5
<1>10. Len(got') + 1 = g + 1
  OBVIOUS
<1>11. DecoderInv(Frame(Len(got) + 1)', rx', 0)
  BY DEF DecoderInv
<1>12. Streaming(at1)'
  BY <1>2, <1>9, <1>10, <1>11 DEF Streaming
<1> QED BY <1>2, <1>6, <1>7, <1>12 DEF WireInv

-----------------------------------------------------------------------------
(* What the decoder's steps have in common.                                *)

LEMMA EncoderRests ==
  ASSUME EncoderInv, Numbers, UNCHANGED <<tx, queued, sent, past>>
  PROVE  EncoderInv' /\ Numbers'
<1>1. /\ store' = store /\ part' = part /\ offset' = offset
      /\ encoded' = encoded /\ sent' = sent /\ queued' = queued
      /\ sent_before' = sent_before /\ got_before' = got_before
  BY DEF tx, past
<1>2. \A p, name : Bytes(p, name)' = Bytes(p, name)
  BY <1>1 DEF Bytes
<1>3. EncoderInv'
  BY <1>1, <1>2 DEF EncoderInv, PartName
<1>4. Numbers'
  BY <1>1 DEF Numbers
<1> QED BY <1>3, <1>4

LEMMA GivenBack ==
  ASSUME NEW r, NEW o, NEW c, Owns(r, o, c), NEW c1,
         c1 = (IF r.ignore /\ r.has # {} THEN c \cup {"ignored"} ELSE c),
         NEW r1, r1.has = {}
  PROVE  Owns(r1, Deallocated(r, o), c1)
<1> DEFINE d == Deallocated(r, o)
<1>1. o \in [StringParts -> Int]
  BY DEF Owns
<1>2. d = [s \in StringParts |->
             IF s \in r.has /\ ~r.ignore THEN o[s] - 1 ELSE o[s]]
  BY DEF Deallocated
<1>3. d \in [StringParts -> Int]
  BY <1>1, <1>2
<1>4. ASSUME c1 = {}, NEW s \in StringParts
      PROVE  d[s] = 0
  <2>1. c = {} /\ ~(r.ignore /\ r.has # {})
    BY <1>4
  <2>2. o[s] = (IF s \in r.has THEN 1 ELSE 0)
    BY <2>1 DEF Owns
  <2>3. d[s] = IF s \in r.has /\ ~r.ignore THEN o[s] - 1 ELSE o[s]
    BY <1>2
  <2>4. CASE s \in r.has
    BY <2>1, <2>2, <2>3, <2>4
  <2>5. CASE s \notin r.has
    BY <2>2, <2>3, <2>5
  <2> QED BY <2>4, <2>5
<1> QED BY <1>3, <1>4 DEF Owns

(* The decoder takes k bytes and goes on in the packet.                    *)
LEMMA GoesOn ==
  ASSUME StreamInv, NEW at \in [Nat -> Int], Streaming(at),
         NEW q, NEW t, Facing(at, q, t), NEW k, Taken(k),
         UNCHANGED <<queued, got, past>>,
         DecoderInv(q, rx', t + k), rx' \in RxTypes, Ownership'
  PROVE  StreamInv'
<1>1. UNCHANGED <<tx, sent>>
  BY DEF Taken
<1>2. EncoderInv' /\ Numbers'
  BY <1>1, EncoderRests DEF StreamInv
<1>3. wire' \in Seq(Octets)
  BY TakenFacts DEF StreamInv
<1>4. Matched'
  BY <1>1 DEF StreamInv, Matched, ReceivedIsSent
<1>5. WireInv'
  BY WireGoesOn
<1> QED BY <1>2, <1>3, <1>4, <1>5 DEF StreamInv

LEMMA FreshTypes == FreshRx \in RxTypes
<1> DEFINE none == <<>>
           text == [s \in StringParts |-> none]
<1>1. text \in [StringParts -> Seq(Octets)]
  BY EmptySeq
<1>2. FreshRx = [started |-> FALSE, type |-> "NONE", qos |-> 0, dup |-> FALSE,
                 length |-> FreshLength, pos |-> 0, topic_len |-> 0, id |-> 0,
                 text |-> text, has |-> {}, ignore |-> FALSE,
                 error |-> "NONE"]
  BY DEF FreshRx
<1>3. FreshLength \in
        [acc : Nat, mult : Nat, finished : BOOLEAN, bad : BOOLEAN]
  BY DEF FreshLength
<1> HIDE DEF text
<1> QED BY <1>1, <1>2, <1>3 DEF RxTypes, TypeNames

(* It is at the end of the packet, and the application takes it.           *)
LEMMA Delivers ==
  ASSUME StreamInv, NEW at \in [Nat -> Int], Streaming(at),
         NEW q, NEW t, Facing(at, q, t), NEW k, Taken(k),
         NEW r \in RxTypes, Body(q, r, t + k), r.pos = BodySize(q),
         UNCHANGED <<queued, past>>, got' = Append(got, Message(r)),
         rx' = FreshRx, Ownership'
  PROVE  StreamInv'
<1>1. UNCHANGED <<tx, sent>>
  BY DEF Taken
<1>2. EncoderInv' /\ Numbers'
  BY <1>1, EncoderRests DEF StreamInv
<1>3. wire' \in Seq(Octets)
  BY TakenFacts DEF StreamInv
<1>4. q \in Frames
  BY DEF Facing
<1>5. /\ KindOf(r) = q.kind /\ r.id = q.id /\ r.dup = q.dup
      /\ ~r.ignore => r.text = q.text
      /\ t + k = FrameSize(q)
  BY <1>4, Whole
<1>6. got \in Seq(Messages) /\ ReceivedIsSent
  BY DEF StreamInv, Matched
<1>7. Message(r) \in Messages
  BY <1>4, <1>5 DEF Message, Messages, RxTypes, Frames
<1>8. got' \in Seq(Messages) /\ Len(got') = Len(got) + 1
  BY <1>6, <1>7, AppendProperties
<1>9. WireInv' /\ Len(got) + 1 <= Len(sent) /\ q = sent[Len(got) + 1]
  BY <1>5, <1>8, NextPacket
<1>10. ReceivedIsSent'
  <2>1. Len(got) \in Nat /\ sent' = sent
    BY <1>1, <1>6, LenProperties
  <2>2. ASSUME NEW i \in 1 .. Len(got')
        PROVE  /\ got'[i].kind = sent[i].kind /\ got'[i].id = sent[i].id
               /\ got'[i].dup = sent[i].dup
               /\ got'[i].ignored \/ got'[i].text = sent[i].text
    <3>1. CASE i \in 1 .. Len(got)
      <4>1. got'[i] = got[i]
        BY <1>6, <3>1
      <4> QED BY <1>6, <3>1, <4>1 DEF ReceivedIsSent
    <3>2. CASE i = Len(got) + 1
      <4>1. got'[i] = Message(r)
        BY <1>6, <3>2
      <4> QED BY <1>5, <1>9, <3>2, <4>1 DEF Message
    <3> QED BY <1>8, <2>1, <3>1, <3>2
  <2> QED BY <1>8, <1>9, <2>1, <2>2 DEF ReceivedIsSent
<1>11. FreshRx \in RxTypes
  BY FreshTypes
<1> QED BY <1>2, <1>3, <1>8, <1>9, <1>10, <1>11 DEF StreamInv, Matched

(* It fails, because the application does.                                 *)
LEMMA Fails ==
  ASSUME StreamInv, UNCHANGED <<tx, queued, sent, got, past>>,
         wire' \in Seq(Octets), rx' \in RxTypes, rx'.error = "APPLICATION",
         Ownership'
  PROVE  StreamInv'
<1>1. EncoderInv' /\ Numbers'
  BY EncoderRests DEF StreamInv
<1>2. Matched'
  BY DEF StreamInv, Matched, ReceivedIsSent
<1> QED BY <1>1, <1>2 DEF StreamInv

(* After the bytes taken the packet goes on, is delivered, or fails.       *)
LEMMA ConsumedStep ==
  ASSUME StreamInv, NEW at \in [Nat -> Int], Streaming(at),
         NEW q, NEW t, Facing(at, q, t),
         NEW k \in Nat, k <= Len(wire), NEW r, NEW o, NEW c,
         Consumed(k, r, o, c),
         NEW r1, r1 = [r EXCEPT !.pos = @ + k], r1 \in RxTypes,
         r1.error = "NONE", Body(q, r1, t + k), Owns(r1, o, c)
  PROVE  StreamInv'
<1>1. /\ wire' = SubSeq(wire, k + 1, Len(wire))
      /\ IF IsFinished(r1) THEN Finish(r1, o, c)
         ELSE rx' = r1 /\ owned' = o /\ causes' = c /\ UNCHANGED got
      /\ UNCHANGED <<tx, queued, sent, past>>
  BY DEF Consumed
<1>2. Taken(k)
  BY <1>1 DEF Taken
<1>3. UNCHANGED <<queued, past>>
  BY <1>1
<1>4. /\ q \in Frames /\ BodySize(q) \in Nat /\ r1.length.acc = BodySize(q)
      /\ r1.pos \in 0 .. BodySize(q)
  BY FrameFacts DEF Facing, Body, BodyRead
<1>5. wire' \in Seq(Octets)
  BY <1>2, TakenFacts DEF StreamInv
<1>6. CASE ~IsFinished(r1)
  <2>1. rx' = r1 /\ owned' = o /\ causes' = c /\ got' = got
    BY <1>1, <1>6
  <2>2. r1.pos < BodySize(q)
    BY <1>4, <1>6 DEF IsFinished
  <2>3. DecoderInv(q, rx', t + k)
    BY <2>1, <2>2 DEF DecoderInv
  <2>4. Ownership'
    BY <2>1 DEF Ownership
  <2> QED BY <1>2, <1>3, <2>1, <2>3, <2>4, GoesOn
<1>7. CASE IsFinished(r1)
  <2>1. r1.pos = BodySize(q)
    BY <1>4, <1>7 DEF IsFinished
  <2>2. PICK ok \in BOOLEAN :
          /\ got' = IF ok THEN Append(got, Message(r1)) ELSE got
          /\ owned' = Deallocated(r1, o)
          /\ causes' = IF r1.ignore /\ r1.has # {} THEN c \cup {"ignored"}
                       ELSE c
          /\ rx' = IF ok THEN FreshRx
                   ELSE [r1 EXCEPT !.error = "APPLICATION", !.has = {}]
    BY <1>1, <1>7 DEF Finish
  <2>3. CASE ok
    <3>1. rx' = FreshRx /\ got' = Append(got, Message(r1))
      BY <2>2, <2>3
    <3>2. Owns(FreshRx, owned', causes')
      BY <2>2, GivenBack DEF FreshRx
    <3>3. Ownership'
      BY <3>1, <3>2 DEF Ownership
    <3> QED BY <1>2, <1>3, <2>1, <3>1, <3>3, Delivers
  <2>4. CASE ~ok
    <3> DEFINE e == [r1 EXCEPT !.error = "APPLICATION", !.has = {}]
    <3>1. rx' = e /\ got' = got
      BY <2>2, <2>4
    <3>2. e \in RxTypes /\ e.error = "APPLICATION" /\ e.has = {}
      BY DEF RxTypes
    <3> HIDE DEF e
    <3>3. Owns(e, owned', causes')
      BY <2>2, <3>2, GivenBack
    <3>4. Ownership'
      BY <3>1, <3>3 DEF Ownership
    <3> QED BY <1>1, <1>5, <3>1, <3>2, <3>4, Fails
  <2> QED BY <2>3, <2>4
<1> QED BY <1>6, <1>7

LEMMA FailedStep ==
  ASSUME StreamInv, ~rx.ignore, Failed("APPLICATION")
  PROVE  StreamInv'
<1> DEFINE e == [rx EXCEPT !.error = "APPLICATION", !.has = {}]
<1>1. /\ rx' = e /\ owned' = Deallocated(rx, owned) /\ causes' = causes
      /\ UNCHANGED <<tx, wire, queued, sent, got, past>>
  BY DEF Failed
<1>2. e \in RxTypes /\ e.error = "APPLICATION" /\ e.has = {}
  BY DEF StreamInv, RxTypes
<1> HIDE DEF e
<1>3. Owns(e, owned', causes')
  BY <1>1, <1>2, GivenBack DEF StreamInv, Ownership
<1>4. Ownership'
  BY <1>1, <1>3 DEF Ownership
<1>5. wire' \in Seq(Octets)
  BY <1>1 DEF StreamInv
<1> QED BY <1>1, <1>2, <1>4, <1>5, Fails

-----------------------------------------------------------------------------
(* The steps of the decoder.                                               *)

LEMMA DecoderFaces ==
  ASSUME StreamInv, Decoding
  PROVE  \E at \in [Nat -> Int], q \in Frames, t \in Nat :
           Streaming(at) /\ Facing(at, q, t)
<1>1. rx.error = "NONE" /\ wire # <<>>
  BY DEF Decoding
<1>2. PICK at \in [Nat -> Int] : Streaming(at)
  BY <1>1 DEF StreamInv, WireInv
<1> DEFINE q == Frame(Len(got) + 1)
           t == 0 - at[Len(got) + 1]
<1>3. Facing(at, q, t)
  BY <1>1, <1>2, FacingNext
<1>4. q \in Frames /\ t \in Nat
  BY <1>3 DEF Facing
<1> HIDE DEF q, t
<1> QED BY <1>2, <1>3, <1>4

(* The first of the bytes at hand, and those behind it.                    *)
LEMMA NextByte ==
  ASSUME StreamInv, wire # <<>>, NEW at, NEW q \in Frames, NEW t \in Nat,
         Facing(at, q, t), t < FrameSize(q)
  PROVE  /\ 1 <= Len(wire) /\ Head(wire) = FrameByte(q, t + 1)
         /\ Tail(wire) = SubSeq(wire, 1 + 1, Len(wire))
<1>1. wire \in Seq(Octets)
  BY DEF StreamInv
<1>2. Len(wire) \in Nat /\ Len(wire) >= 1
  BY <1>1, EmptySeq, LenProperties
<1>3. Head(wire) = wire[1] /\ Tail(wire) = SubSeq(wire, 2, Len(wire))
  BY <1>1, <1>2, TailIsSubSeq, HeadTailProperties
<1>4. FrameSize(q) \in Nat
  BY FrameFacts
<1>5. 1 \in 1 .. Len(wire) /\ t + 1 <= FrameSize(q)
  BY <1>2, <1>4
<1>6. Follows(wire, 1, q, t)
  BY <1>5 DEF Facing
<1>7. wire[1] = FrameByte(q, t + 1)
  BY <1>6 DEF Follows
<1> QED BY <1>2, <1>3, <1>7

LEMMA Advance ==
  ASSUME NEW r \in RxTypes, NEW k \in Nat,
         NEW r1, r1 = [r EXCEPT !.pos = @ + k]
  PROVE  /\ r1 \in RxTypes /\ r1.pos = r.pos + k /\ Same(r, r1)
         /\ r1.topic_len = r.topic_len /\ r1.id = r.id /\ r1.text = r.text
         /\ r1.has = r.has /\ r1.ignore = r.ignore /\ r1.error = r.error
<1>1. r.pos + k \in Nat
  BY DEF RxTypes
<1> QED BY <1>1 DEF RxTypes, Same

LEMMA DecodeHeaderStep ==
  ASSUME StreamInv, DecodeHeader
  PROVE  StreamInv'
<1>1. Decoding /\ ~rx.length.finished /\ rx.error = "NONE" /\ wire # <<>>
  BY DEF DecodeHeader, Decoding
<1>2. /\ wire' = Tail(wire) /\ rx' = Header(rx, Head(wire))
      /\ UNCHANGED <<tx, queued, sent, got, past, owned, causes>>
  BY DEF DecodeHeader, Header
<1>3. PICK at \in [Nat -> Int], q \in Frames, t \in Nat :
        Streaming(at) /\ Facing(at, q, t)
  BY <1>1, DecoderFaces
<1>4. rx \in RxTypes /\ DecoderInv(q, rx, t)
  BY <1>3 DEF StreamInv, Facing
<1>5. /\ HeaderSize(q) \in 2 .. 5 /\ BodySize(q) \in Nat
      /\ FrameSize(q) = HeaderSize(q) + BodySize(q) /\ BodySize(q) > 0
  BY FrameFacts, Constants
<1>6. \/ t = 0 /\ rx = FreshRx
      \/ /\ Headed(q, rx) /\ Empty(rx) /\ t \in 1 .. HeaderSize(q) - 1
         /\ rx.length = Reading(BodySize(q))[t - 1]
  BY <1>1, <1>4, InHeader
<1>7. t < FrameSize(q)
  BY <1>5, <1>6
<1>8. /\ 1 <= Len(wire) /\ Head(wire) = FrameByte(q, t + 1)
      /\ Tail(wire) = SubSeq(wire, 1 + 1, Len(wire))
  BY <1>1, <1>3, <1>7, NextByte
<1>9. Taken(1)
  BY <1>2, <1>8 DEF Taken
<1>10. /\ DecoderInv(q, rx', t + 1) /\ rx' \in RxTypes
       /\ rx'.error = "NONE" /\ rx'.has = {} /\ rx.has = {}
  <2>1. CASE t = 0 /\ rx = FreshRx
    <3>1. rx' = Header(FreshRx, FrameByte(q, 1)) /\ t + 1 = 1
      BY <1>2, <1>8, <2>1
    <3>2. rx.has = {}
      BY <2>1 DEF FreshRx
    <3> QED BY <3>1, <3>2, HeaderStarts
  <2>2. CASE /\ Headed(q, rx) /\ Empty(rx) /\ t \in 1 .. HeaderSize(q) - 1
             /\ rx.length = Reading(BodySize(q))[t - 1]
    <3>1. rx' = Header(rx, FrameByte(q, t + 1))
      BY <1>2, <1>8
    <3>2. rx.has = {}
      BY <2>2 DEF Empty
    <3> QED BY <1>1, <1>4, <2>2, <3>1, <3>2, HeaderContinues
  <2> QED BY <1>6, <2>1, <2>2
<1>11. Ownership'
  BY <1>2, <1>10 DEF StreamInv, Ownership, Owns
<1> QED BY <1>2, <1>3, <1>9, <1>10, <1>11, GoesOn

(* What the decoder knows behind the header.                               *)
LEMMA BodyFaces ==
  ASSUME StreamInv, Decoding, rx.length.finished
  PROVE  \E at \in [Nat -> Int], q \in Frames, t \in Nat :
           /\ Streaming(at) /\ Facing(at, q, t)
           /\ Body(q, rx, t) /\ rx.pos < BodySize(q) /\ t < FrameSize(q)
<1>1. PICK at \in [Nat -> Int], q \in Frames, t \in Nat :
        Streaming(at) /\ Facing(at, q, t)
  BY DecoderFaces
<1>2. rx \in RxTypes /\ DecoderInv(q, rx, t)
  BY <1>1 DEF StreamInv, Facing
<1>3. Body(q, rx, t) /\ rx.pos < BodySize(q)
  BY <1>2, InBody
<1>4. t = HeaderSize(q) + rx.pos
  BY <1>3 DEF Body
<1>5. rx.pos \in Nat
  BY <1>2 DEF RxTypes
<1>6. /\ HeaderSize(q) \in Nat /\ BodySize(q) \in Nat
      /\ FrameSize(q) = HeaderSize(q) + BodySize(q)
  BY FrameFacts
<1>7. t < FrameSize(q)
  BY <1>3, <1>4, <1>5, <1>6
<1> QED BY <1>1, <1>3, <1>7

LEMMA DecodeTopicLengthStep ==
  ASSUME StreamInv, DecodeTopicLength
  PROVE  StreamInv'
<1> DEFINE len == rx.topic_len * Base + Head(wire).v
           r == [rx EXCEPT !.topic_len = len]
           r1 == [r EXCEPT !.pos = @ + 1]
<1>1. /\ Decoding /\ rx.length.finished /\ rx.type = "PUBLISH"
      /\ rx.pos < LenSize
      /\ IF rx.pos + 1 = LenSize
              /\ (len = 0 \/ LenSize + len + IdLen(rx) > rx.length.acc)
           THEN Failed("PUBLISH_LENGTH")
           ELSE Consumed(1, r, owned, causes)
  BY DEF DecodeTopicLength
<1>2. PICK at \in [Nat -> Int], q \in Frames, t \in Nat :
        /\ Streaming(at) /\ Facing(at, q, t)
        /\ Body(q, rx, t) /\ rx.pos < BodySize(q) /\ t < FrameSize(q)
  BY <1>1, BodyFaces
<1>3. rx \in RxTypes /\ rx.error = "NONE" /\ wire # <<>>
  BY <1>1 DEF StreamInv, Decoding
<1>4. q.kind \in PublishKinds
  BY <1>1, <1>2, <1>3, EndsAgree
<1>5. 1 <= Len(wire) /\ Head(wire) = FrameByte(q, t + 1)
  BY <1>2, <1>3, NextByte
<1>6. Head(wire).v \in Nat /\ Base \in Nat
  <2>1. wire \in Seq(Octets)
    BY DEF StreamInv
  <2>2. Head(wire) \in Octets
    BY <1>3, <2>1, HeadTailProperties
  <2> QED BY <2>2, Constants DEF Octets
<1>7. len \in Nat
  <2>1. rx.topic_len \in Nat
    BY <1>3 DEF RxTypes
  <2>2. \A a, b, c \in Nat : a * b + c \in Nat
    OBVIOUS
  <2> QED BY <1>6, <2>1, <2>2
<1>8. len = rx.topic_len * Base + FrameByte(q, t + 1).v
  BY <1>5
<1> HIDE DEF len
<1>9. /\ r1 \in RxTypes /\ Same(rx, r1) /\ r1.pos = rx.pos + 1
      /\ r1.topic_len = len /\ r1.id = rx.id /\ r1.text = rx.text
      /\ r1.has = rx.has /\ r1.ignore = rx.ignore /\ r1.error = rx.error
  <2>1. rx \in RxTypes
    BY <1>3
  <2>2. /\ r \in RxTypes /\ r.pos = rx.pos /\ Same(rx, r)
        /\ r.topic_len = len /\ r.id = rx.id /\ r.text = rx.text
        /\ r.has = rx.has /\ r.ignore = rx.ignore /\ r.error = rx.error
    BY <1>7, <2>1 DEF RxTypes, Same
  <2> HIDE DEF r
  <2>3. /\ r1 \in RxTypes /\ r1.pos = r.pos + 1 /\ Same(r, r1)
        /\ r1.topic_len = r.topic_len /\ r1.id = r.id /\ r1.text = r.text
        /\ r1.has = r.has /\ r1.ignore = r.ignore /\ r1.error = r.error
    BY <2>2, Advance
  <2> QED BY <2>2, <2>3 DEF Same
<1> HIDE DEF r, r1
<1>10. /\ Body(q, r1, t + 1)
       /\ r1.pos = LenSize =>
            r1.topic_len > 0
              /\ LenSize + r1.topic_len + IdLen(rx) <= rx.length.acc
  BY <1>1, <1>2, <1>3, <1>4, <1>8, <1>9, TopicLengthStep
<1>11. ~(rx.pos + 1 = LenSize
           /\ (len = 0 \/ LenSize + len + IdLen(rx) > rx.length.acc))
  <2>1. IdLen(rx) \in Nat /\ LenSize \in Nat /\ rx.length.acc \in Nat
    BY <1>3, Constants DEF IdLen, RxTypes
  <2> QED BY <1>7, <1>9, <1>10, <2>1
<1>12. Consumed(1, r, owned, causes)
  BY <1>1, <1>11
<1>13. Owns(r1, owned, causes)
  BY <1>9 DEF StreamInv, Ownership, Owns
<1>14. r1 = [r EXCEPT !.pos = @ + 1]
  BY DEF r1
<1> QED BY <1>2, <1>3, <1>5, <1>9, <1>10, <1>12, <1>13, <1>14, ConsumedStep

LEMMA DecodeIdStep ==
  ASSUME StreamInv, DecodeId
  PROVE  StreamInv'
<1> DEFINE id == rx.id * Base + Head(wire).v
           r == [rx EXCEPT !.id = id]
           r1 == [r EXCEPT !.pos = @ + 1]
<1>1. /\ Decoding /\ rx.length.finished
      /\ rx.type = "PUBLISH" => rx.pos >= LenSize
      /\ rx.pos \in TopicEnd(rx) .. IdEnd(rx) - 1
      /\ Consumed(1, r, owned, causes)
  BY DEF DecodeId
<1>2. PICK at \in [Nat -> Int], q \in Frames, t \in Nat :
        /\ Streaming(at) /\ Facing(at, q, t)
        /\ Body(q, rx, t) /\ rx.pos < BodySize(q) /\ t < FrameSize(q)
  BY <1>1, BodyFaces
<1>3. rx \in RxTypes /\ rx.error = "NONE" /\ wire # <<>>
  BY <1>1 DEF StreamInv, Decoding
<1>4. TopicEnd(rx) = TopicEndOf(q) /\ IdEnd(rx) = IdEndOf(q)
  <2>1. q.kind \in PublishKinds \/ q.kind \in AckKinds
    BY DEF Frames, PacketKinds
  <2> QED BY <1>1, <1>2, <1>3, <2>1, EndsAgree
<1>5. 1 <= Len(wire) /\ Head(wire) = FrameByte(q, t + 1)
  BY <1>2, <1>3, NextByte
<1>6. Head(wire).v \in Nat /\ Base \in Nat
  <2>1. wire \in Seq(Octets)
    BY DEF StreamInv
  <2>2. Head(wire) \in Octets
    BY <1>3, <2>1, HeadTailProperties
  <2> QED BY <2>2, Constants DEF Octets
<1>7. id \in Nat
  <2>1. rx.id \in Nat
    BY <1>3 DEF RxTypes
  <2>2. \A a, b, c \in Nat : a * b + c \in Nat
    OBVIOUS
  <2> QED BY <1>6, <2>1, <2>2
<1>8. id = rx.id * Base + FrameByte(q, t + 1).v
  BY <1>5
<1> HIDE DEF id
<1>9. /\ r1 \in RxTypes /\ Same(rx, r1) /\ r1.pos = rx.pos + 1
      /\ r1.id = id /\ r1.topic_len = rx.topic_len /\ r1.text = rx.text
      /\ r1.has = rx.has /\ r1.ignore = rx.ignore /\ r1.error = rx.error
  <2>1. rx \in RxTypes
    BY <1>3
  <2>2. /\ r \in RxTypes /\ r.pos = rx.pos /\ Same(rx, r)
        /\ r.topic_len = rx.topic_len /\ r.id = id /\ r.text = rx.text
        /\ r.has = rx.has /\ r.ignore = rx.ignore /\ r.error = rx.error
    BY <1>7, <2>1 DEF RxTypes, Same
  <2> HIDE DEF r
  <2>3. /\ r1 \in RxTypes /\ r1.pos = r.pos + 1 /\ Same(r, r1)
        /\ r1.topic_len = r.topic_len /\ r1.id = r.id /\ r1.text = r.text
        /\ r1.has = r.has /\ r1.ignore = r.ignore /\ r1.error = r.error
    BY <2>2, Advance
  <2> QED BY <2>2, <2>3 DEF Same
<1>12. Consumed(1, r, owned, causes)
  BY <1>1
<1> HIDE DEF r, r1
<1>10. Body(q, r1, t + 1)
  BY <1>1, <1>2, <1>3, <1>4, <1>8, <1>9, IdStep
<1>13. Owns(r1, owned, causes)
  BY <1>9 DEF StreamInv, Ownership, Owns
<1>14. r1 = [r EXCEPT !.pos = @ + 1]
  BY DEF r1
<1> QED BY <1>2, <1>3, <1>5, <1>9, <1>10, <1>12, <1>13, <1>14, ConsumedStep

(* The string s is given, and takes k bytes of w.                          *)
Written(r, s, w, k) ==
  LET given == [r EXCEPT !.has = @ \cup {s}]
  IN [given EXCEPT !.text[s] = @ \o SubSeq(w, 1, k)]

LEMMA Writes ==
  ASSUME NEW r \in RxTypes, ~r.ignore, NEW s \in StringParts,
         NEW w \in Seq(Octets), NEW k \in Nat, k <= Len(w),
         NEW r1, r1 = Written(r, s, w, k)
  PROVE  /\ r1 \in RxTypes /\ Same(r, r1) /\ Grew(r, r1, s, w, k)
         /\ r1.pos = r.pos /\ r1.topic_len = r.topic_len /\ r1.id = r.id
         /\ r1.error = r.error /\ ~r1.ignore
<1> DEFINE g == [r EXCEPT !.has = @ \cup {s}]
<1>1. /\ g \in RxTypes /\ Same(r, g) /\ g.has = r.has \cup {s}
      /\ g.text = r.text /\ g.pos = r.pos /\ g.topic_len = r.topic_len
      /\ g.id = r.id /\ g.error = r.error /\ g.ignore = r.ignore
  BY DEF RxTypes, Same
<1>2. r.text \in [StringParts -> Seq(Octets)] /\ r.text[s] \in Seq(Octets)
  BY DEF RxTypes
<1>3. SubSeq(w, 1, k) \in Seq(Octets)
  BY Prefix
<1> DEFINE more == SubSeq(w, 1, k)
           new == r.text[s] \o more
           text == [r.text EXCEPT ![s] = new]
<1>4. new \in Seq(Octets)
  BY <1>2, <1>3, ConcatProperties
<1>5. r1 = [g EXCEPT !.text = text]
  <2>1. r1 = [g EXCEPT !.text[s] = @ \o more]
    BY DEF Written
  <2> HIDE DEF g, more
  <2> QED BY <1>1, <2>1
<1> HIDE DEF g, more, new
<1>6. /\ text \in [StringParts -> Seq(Octets)] /\ text[s] = new
      /\ \A u \in StringParts \ {s} : text[u] = r.text[u]
  BY <1>2, <1>4
<1> HIDE DEF text
<1>7. /\ r1 \in RxTypes /\ Same(g, r1) /\ r1.has = g.has
      /\ r1.text = text /\ r1.pos = g.pos /\ r1.topic_len = g.topic_len
      /\ r1.id = g.id /\ r1.error = g.error /\ r1.ignore = g.ignore
  BY <1>1, <1>5, <1>6 DEF RxTypes, Same
<1>8. Same(r, r1)
  BY <1>1, <1>7 DEF Same
<1>9. Grew(r, r1, s, w, k)
  BY <1>1, <1>6, <1>7 DEF Grew, new, more
<1> QED BY <1>1, <1>7, <1>8, <1>9

(* The decoder is in the string s of a message.                            *)
InString(at, q, t, s) ==
  /\ Streaming(at) /\ Facing(at, q, t) /\ Body(q, rx, t)
  /\ q.kind \in PublishKinds /\ rx.error = "NONE"
  /\ rx.pos >= TextStart(q, s)
  /\ rx.pos < TextStart(q, s) + Len(q.text[s])

LEMMA StringEnds ==
  ASSUME NEW q \in Frames, NEW s \in StringParts, q.kind \in PublishKinds
  PROVE  /\ TextStart(q, s) \in Nat /\ Len(q.text[s]) \in Nat
         /\ TextStart(q, s) + Len(q.text[s]) \in Nat
         /\ TextStart(q, s) + Len(q.text[s]) <= BodySize(q)
         /\ BodySize(q) \in Nat /\ HeaderSize(q) \in Nat
         /\ FrameSize(q) = HeaderSize(q) + BodySize(q)
         /\ TextStart(q, s) >= LenSize
<1>1. /\ TopicEndOf(q) \in Nat /\ IdEndOf(q) \in Nat /\ TopicEndOf(q) > 2
      /\ TopicEndOf(q) <= IdEndOf(q) /\ IdEndOf(q) <= BodySize(q)
      /\ BodySize(q) \in Nat /\ HeaderSize(q) \in Nat
      /\ FrameSize(q) = HeaderSize(q) + BodySize(q)
  BY FrameFacts, Constants
<1>2. /\ Len(q.text["topic"]) \in Nat /\ Len(q.text["payload"]) \in Nat
  BY LenProperties DEF Frames, StringParts
<1>3. /\ TopicEndOf(q) = 2 + Len(q.text["topic"])
      /\ BodySize(q) = IdEndOf(q) + Len(q.text["payload"])
  BY Constants DEF TopicEndOf, BodySize
<1>4. CASE s = "topic"
  <2>1. TextStart(q, s) = 2
    BY <1>4, Constants DEF TextStart
  <2>2. Len(q.text[s]) = Len(q.text["topic"])
    BY <1>4
  <2>3. TextStart(q, s) + Len(q.text[s]) = TopicEndOf(q)
    BY <1>3, <2>1, <2>2
  <2> QED BY <1>1, <1>2, <2>1, <2>2, <2>3, Constants
<1>5. CASE s = "payload"
  <2>1. TextStart(q, s) = IdEndOf(q)
    BY <1>5 DEF TextStart
  <2>2. Len(q.text[s]) = Len(q.text["payload"])
    BY <1>5
  <2>3. TextStart(q, s) + Len(q.text[s]) = BodySize(q)
    BY <1>3, <2>1, <2>2
  <2> QED BY <1>1, <1>2, <2>1, <2>2, <2>3, Constants
<1> QED BY <1>4, <1>5 DEF StringParts

LEMMA RoomLeft ==
  ASSUME NEW h \in Nat, NEW p \in Nat, NEW k \in Nat, NEW a \in Nat,
         NEW n \in Nat, NEW b \in Nat, p + k <= a + n, a + n <= b
  PROVE  (h + p) + k <= h + b
OBVIOUS

LEMMA CappedFacts ==
  ASSUME NEW a \in Nat \ {0}, NEW w \in Nat, a <= w, NEW e \in Nat,
         NEW p \in Nat, p < e
  PROVE  /\ Capped(a, e - p) \in Nat \ {0} /\ Capped(a, e - p) <= w
         /\ \A k \in 1 .. Capped(a, e - p) :
              k \in Nat \ {0} /\ k <= w /\ p + k <= e
<1> DEFINE n == IF a < e - p THEN a ELSE e - p
<1>1. n \in Nat \ {0} /\ n <= w /\ p + n <= e
  OBVIOUS
<1>2. Capped(a, e - p) = n
  BY DEF Capped, Smaller
<1> HIDE DEF n
<1>3. ASSUME NEW k \in 1 .. n
      PROVE  k \in Nat \ {0} /\ k <= w /\ p + k <= e
  BY <1>1
<1> QED BY <1>1, <1>2, <1>3

(* It takes k bytes of it, into r.                                         *)
LEMMA StringStep ==
  ASSUME StreamInv, NEW at \in [Nat -> Int], NEW q \in Frames, NEW t \in Nat,
         NEW s \in StringParts, InString(at, q, t, s),
         NEW k \in Nat \ {0}, k <= Len(wire),
         rx.pos + k <= TextStart(q, s) + Len(q.text[s]),
         NEW r \in RxTypes, Same(rx, r), r.pos = rx.pos,
         r.topic_len = rx.topic_len, r.id = rx.id, r.error = "NONE",
         r.ignore \/ Grew(rx, r, s, wire, k),
         NEW o, NEW c, Owns(r, o, c), Consumed(k, r, o, c)
  PROVE  StreamInv'
<1> DEFINE r1 == [r EXCEPT !.pos = @ + k]
<1>1. /\ Streaming(at) /\ Facing(at, q, t) /\ Body(q, rx, t)
      /\ q.kind \in PublishKinds /\ rx.pos >= TextStart(q, s)
  BY DEF InString
<1>2. rx \in RxTypes /\ wire \in Seq(Octets) /\ k \in Nat
  BY DEF StreamInv
<1>3. /\ r1 \in RxTypes /\ r1.pos = r.pos + k /\ Same(r, r1)
      /\ r1.topic_len = r.topic_len /\ r1.id = r.id /\ r1.text = r.text
      /\ r1.has = r.has /\ r1.ignore = r.ignore /\ r1.error = r.error
  BY Advance
<1>4. r1 = [r EXCEPT !.pos = @ + k]
  OBVIOUS
<1> HIDE DEF r1
<1>5. Same(rx, r1)
  BY <1>3 DEF Same
<1>6. r1.ignore \/ Grew(rx, r1, s, wire, k)
  BY <1>3 DEF Grew
<1>7. Follows(wire, k, q, t)
  <2>1. t + k <= FrameSize(q)
    <3>1. t = HeaderSize(q) + rx.pos
      BY <1>1 DEF Body
    <3>2. rx.pos \in Nat
      BY <1>2 DEF RxTypes
    <3>3. PICK h \in Nat, b \in Nat, a \in Nat, n \in Nat :
            /\ h = HeaderSize(q) /\ b = BodySize(q) /\ a = TextStart(q, s)
            /\ n = Len(q.text[s]) /\ a + n <= b /\ FrameSize(q) = h + b
      BY <1>1, StringEnds
    <3>4. PICK p \in Nat : p = rx.pos
      BY <3>2
    <3>5. p + k <= a + n /\ t = h + p
      BY <3>1, <3>3, <3>4
    <3>6. (h + p) + k <= h + b
      BY <3>3, <3>5, RoomLeft
    <3> QED BY <3>3, <3>5, <3>6
  <2>2. k \in 1 .. Len(wire)
    BY <1>2, LenProperties
  <2> QED BY <1>1, <2>1, <2>2 DEF Facing
<1>8. Body(q, r1, t + k)
  BY <1>1, <1>2, <1>3, <1>5, <1>6, <1>7, TextStep
<1>9. Owns(r1, o, c)
  BY <1>3 DEF Owns
<1> QED BY <1>1, <1>2, <1>3, <1>4, <1>8, <1>9, ConsumedStep

LEMMA AllocateWriteStep ==
  ASSUME StreamInv, NEW at \in [Nat -> Int], NEW q \in Frames, NEW t \in Nat,
         NEW s \in StringParts, InString(at, q, t, s),
         NEW start, start = TextStart(q, s),
         NEW end, end = TextStart(q, s) + Len(q.text[s]),
         NEW available \in 1 .. Len(wire),
         AllocateWrite(s, start, end, available)
  PROVE  StreamInv'
<1> DEFINE n == Capped(available, end - rx.pos)
           first == rx.pos = start
           given == [rx EXCEPT !.has = @ \cup {s}]
           allocated(answer) ==
             IF answer = "SUCCESS" THEN [owned EXCEPT ![s] = @ + 1] ELSE owned
           cause(answer) ==
             IF answer = "SUCCESS" /\ s \in rx.has THEN causes \cup {"again"}
             ELSE causes
           written(k) == [given EXCEPT !.text[s] = @ \o SubSeq(wire, 1, k)]
           refused == [rx EXCEPT !.ignore = TRUE]
<1>1. /\ Streaming(at) /\ Facing(at, q, t) /\ Body(q, rx, t)
      /\ q.kind \in PublishKinds /\ rx.error = "NONE"
      /\ rx.pos >= start /\ rx.pos < end
  BY DEF InString
<1>2. /\ rx \in RxTypes /\ wire \in Seq(Octets) /\ Len(wire) \in Nat
      /\ Owns(rx, owned, causes)
  BY LenProperties DEF StreamInv, Ownership
<1>3. /\ n \in Nat \ {0} /\ n <= Len(wire) /\ n \in 1 .. n
      /\ \A k \in 1 .. n :
           k \in Nat \ {0} /\ k <= Len(wire) /\ rx.pos + k <= end
  <2>1. end \in Nat
    BY <1>1, StringEnds
  <2>2. rx.pos \in Nat /\ rx.pos < end
    BY <1>1, <1>2 DEF RxTypes
  <2>3. available \in Nat \ {0} /\ available <= Len(wire)
    BY <1>2
  <2>4. /\ n \in Nat \ {0} /\ n <= Len(wire)
        /\ \A k \in 1 .. n :
             k \in Nat \ {0} /\ k <= Len(wire) /\ rx.pos + k <= end
    BY <1>2, <2>1, <2>2, <2>3, CappedFacts
  <2> HIDE DEF n
  <2>5. n \in 1 .. n
    BY <2>4
  <2> QED BY <2>4, <2>5
<1>4. Same(rx, rx) /\ Same(rx, refused) /\ Same(rx, given)
  BY DEF Same
<1>5. /\ refused \in RxTypes /\ refused.ignore /\ refused.pos = rx.pos
      /\ refused.topic_len = rx.topic_len /\ refused.id = rx.id
      /\ refused.error = rx.error /\ refused.has = rx.has
  BY <1>2 DEF RxTypes
<1>6. /\ given \in RxTypes /\ given.has = rx.has \cup {s}
      /\ given.pos = rx.pos /\ given.topic_len = rx.topic_len
      /\ given.id = rx.id /\ given.text = rx.text
      /\ given.error = rx.error /\ given.ignore = rx.ignore
  BY <1>2 DEF RxTypes
<1>7. \/ rx.ignore /\ Consumed(n, rx, owned, causes)
      \/ /\ ~rx.ignore
         /\ \E answer \in Answers(s, first) :
              \/ answer = "ERROR" /\ Failed("APPLICATION")
              \/ answer = "IGNORE" /\ Consumed(n, refused, owned, causes)
              \/ /\ answer \in {"SUCCESS", "NOT_ASKED"}
                 /\ \E k \in 1 .. n :
                      Consumed(k, written(k), allocated(answer),
                               cause(answer))
              \/ /\ answer = "SUCCESS" /\ "again" \notin causes
                 /\ rx' = given /\ owned' = allocated(answer)
                 /\ causes' = cause(answer)
                 /\ UNCHANGED <<tx, wire, queued, sent, got, past>>
  BY DEF AllocateWrite
<1>8. ASSUME NEW answer \in Answers(s, first), ~rx.ignore,
             answer \in {"SUCCESS", "NOT_ASKED"},
             NEW r1, r1.has = rx.has \cup {s}, r1.error = "NONE"
      PROVE  Owns(r1, allocated(answer), cause(answer))
  <2>1. /\ owned \in [StringParts -> Int]
        /\ causes = {} => \A u \in StringParts :
                            owned[u] = (IF u \in rx.has THEN 1 ELSE 0)
    BY <1>2 DEF Owns
  <2>2. CASE answer = "SUCCESS"
    <3>1. /\ allocated(answer) = [owned EXCEPT ![s] = @ + 1]
          /\ cause(answer) = IF s \in rx.has THEN causes \cup {"again"}
                             ELSE causes
      BY <2>2
    <3> HIDE DEF allocated, cause
    <3>2. allocated(answer) \in [StringParts -> Int]
      BY <2>1, <3>1
    <3>3. ASSUME cause(answer) = {}, NEW u \in StringParts
          PROVE  allocated(answer)[u] = IF u \in r1.has THEN 1 ELSE 0
      <4>1. s \notin rx.has /\ causes = {}
        BY <3>1, <3>3
      <4>2. owned[u] = IF u \in rx.has THEN 1 ELSE 0
        BY <2>1, <4>1
      <4>3. allocated(answer)[u] = IF u = s THEN owned[u] + 1 ELSE owned[u]
        BY <2>1, <3>1
      <4>4. u \in r1.has <=> u \in rx.has \/ u = s
        BY <1>8
      <4> QED BY <4>1, <4>2, <4>3, <4>4
    <3> QED BY <1>8, <3>2, <3>3 DEF Owns
  <2>3. CASE answer = "NOT_ASKED"
    <3>1. allocated(answer) = owned /\ cause(answer) = causes
      BY <2>3
    <3>2. ~first
      BY <2>3, Zenon DEF Answers
    <3>3. rx.pos > start
      <4>1. rx.pos \in Nat /\ start \in Nat
        BY <1>1, <1>2, StringEnds DEF RxTypes
      <4> QED BY <1>1, <3>2, <4>1
    <3>4. s \in rx.has
      BY <1>1, <1>8, <3>3 DEF Body, Given, TextStart, StringParts
    <3>5. r1.has = rx.has
      BY <1>8, <3>4
    <3> QED BY <1>8, <2>1, <3>1, <3>5 DEF Owns
  <2> QED BY <1>8, <2>2, <2>3
<1> HIDE DEF n, first, given, allocated, cause, refused
<1>9. CASE rx.ignore /\ Consumed(n, rx, owned, causes)
  BY <1>1, <1>2, <1>3, <1>4, <1>9, StringStep
<1>10. ASSUME NEW answer \in Answers(s, first), ~rx.ignore
       PROVE  answer = "ERROR" /\ Failed("APPLICATION") => StreamInv'
  BY <1>10, FailedStep
<1>11. ASSUME Consumed(n, refused, owned, causes)
       PROVE  StreamInv'
  <2>1. Owns(refused, owned, causes)
    BY <1>2, <1>5 DEF Owns
  <2> QED BY <1>1, <1>3, <1>4, <1>5, <1>11, <2>1, StringStep
<1>12. ASSUME NEW answer \in Answers(s, first), ~rx.ignore,
              answer \in {"SUCCESS", "NOT_ASKED"}, NEW k \in 1 .. n,
              Consumed(k, written(k), allocated(answer), cause(answer))
       PROVE  StreamInv'
  <2>1. k \in Nat \ {0} /\ k <= Len(wire) /\ rx.pos + k <= end
    BY <1>3, <1>12
  <2>2. written(k) = Written(rx, s, wire, k)
    BY DEF given, Written
  <2> HIDE DEF written
  <2>4. /\ written(k) \in RxTypes /\ Same(rx, written(k))
        /\ Grew(rx, written(k), s, wire, k) /\ written(k).pos = rx.pos
        /\ written(k).topic_len = rx.topic_len /\ written(k).id = rx.id
        /\ written(k).error = "NONE"
    <3>1. k \in Nat
      BY <2>1
    <3> QED BY <1>1, <1>2, <1>12, <2>1, <2>2, <3>1, Writes
  <2>5. written(k).has = rx.has \cup {s}
    BY <2>4 DEF Grew
  <2>6. Owns(written(k), allocated(answer), cause(answer))
    BY <1>8, <1>12, <2>4, <2>5
  <2> QED BY <1>12, <2>1, <2>4, <2>6, StringStep
<1>13. ASSUME NEW answer \in Answers(s, first), ~rx.ignore,
              answer = "SUCCESS",
              rx' = given /\ owned' = allocated(answer)
                /\ causes' = cause(answer)
                /\ UNCHANGED <<tx, wire, queued, sent, got, past>>
       PROVE  StreamInv'
  <2>1. Owns(given, allocated(answer), cause(answer))
    BY <1>1, <1>6, <1>8, <1>13
  <2>2. Ownership'
    BY <1>13, <2>1 DEF Ownership
  <2>3. Taken(0)
    <3>1. SubSeq(wire, 1, Len(wire)) = wire
      BY <1>2, SubSeqFull
    <3> QED BY <1>2, <1>13, <3>1 DEF Taken
  <2>4. Body(q, given, t)
    <3>1. rx.pos >= LenSize /\ q.kind \notin AckKinds
      <4>1. rx.pos \in Nat /\ start \in Nat /\ start >= LenSize
        BY <1>1, <1>2, StringEnds DEF RxTypes
      <4>2. q.kind \notin AckKinds
        BY <1>1, KindsOfPackets
      <4> QED BY <1>1, <4>1, <4>2, Constants
    <3>2. Headed(q, given) /\ BodyRead(q, given)
      BY <1>1, <1>4, <1>6 DEF Body, Headed, BodyRead, Same
    <3>3. Given(q, given)
      <4>1. rx.pos \in Nat
        BY <1>2 DEF RxTypes
      <4> QED BY <1>1, <1>6, <3>1, <4>1, Constants DEF Body, Given
    <3> QED BY <1>1, <1>6, <3>2, <3>3 DEF Body
  <2>5. DecoderInv(q, rx', t + 0)
    <3>1. rx.pos < BodySize(q)
      <4>1. rx.pos \in Nat
        BY <1>2 DEF RxTypes
      <4>2. end <= BodySize(q) /\ end \in Nat /\ BodySize(q) \in Nat
        BY <1>1, StringEnds
      <4> QED BY SMTT(30), <1>1, <4>1, <4>2
    <3> QED BY <1>6, <1>13, <2>4, <3>1 DEF DecoderInv
  <2> QED BY <1>1, <1>6, <1>13, <2>2, <2>3, <2>5, GoesOn
<1> QED BY <1>7, <1>9, <1>10, <1>11, <1>12, <1>13

LEMMA DecodeTopicStep ==
  ASSUME StreamInv, DecodeTopic
  PROVE  StreamInv'
<1>1. /\ Decoding /\ rx.length.finished /\ rx.type = "PUBLISH"
      /\ rx.pos \in LenSize .. TopicEnd(rx) - 1
  BY DEF DecodeTopic
<1>2. PICK available \in 1 .. Len(wire) :
        AllocateWrite("topic", LenSize, TopicEnd(rx), available)
  BY DEF DecodeTopic
<1>3. PICK at \in [Nat -> Int], q \in Frames, t \in Nat :
        /\ Streaming(at) /\ Facing(at, q, t)
        /\ Body(q, rx, t) /\ rx.pos < BodySize(q) /\ t < FrameSize(q)
  BY <1>1, BodyFaces
<1>4. rx \in RxTypes /\ rx.error = "NONE"
  BY <1>1 DEF StreamInv, Decoding
<1>5. q.kind \in PublishKinds
  BY <1>1, <1>3, <1>4, EndsAgree
<1>6. rx.pos \in Nat /\ rx.pos >= LenSize
  BY <1>1, <1>4, Constants DEF RxTypes
<1>7. TopicEnd(rx) = TopicEndOf(q)
  BY <1>3, <1>4, <1>5, <1>6, EndsAgree
<1>8. /\ LenSize = TextStart(q, "topic") /\ TopicEndOf(q) \in Nat
      /\ TopicEnd(rx) = TextStart(q, "topic") + Len(q.text["topic"])
  BY <1>5, <1>7, FrameFacts DEF TextStart, TopicEndOf
<1>9. rx.pos < TopicEnd(rx)
  <2>1. PICK e \in Nat : e = TopicEnd(rx)
    BY <1>7, <1>8
  <2>2. rx.pos \in 2 .. e - 1
    BY <1>1, <2>1, Constants
  <2>3. rx.pos < e
    BY <2>2
  <2> QED BY <2>1, <2>3
<1>10. "topic" \in StringParts
  BY DEF StringParts
<1>11. InString(at, q, t, "topic")
  BY <1>3, <1>4, <1>5, <1>6, <1>8, <1>9 DEF InString
<1> QED BY <1>2, <1>8, <1>10, <1>11, AllocateWriteStep

LEMMA DecodePayloadStep ==
  ASSUME StreamInv, DecodePayload
  PROVE  StreamInv'
<1>1. /\ Decoding /\ rx.length.finished /\ rx.type = "PUBLISH"
      /\ rx.pos >= LenSize /\ rx.pos >= IdEnd(rx)
  BY DEF DecodePayload
<1>2. PICK available \in 1 .. Len(wire) :
        AllocateWrite("payload", IdEnd(rx), rx.length.acc, available)
  BY DEF DecodePayload
<1>3. PICK at \in [Nat -> Int], q \in Frames, t \in Nat :
        /\ Streaming(at) /\ Facing(at, q, t)
        /\ Body(q, rx, t) /\ rx.pos < BodySize(q) /\ t < FrameSize(q)
  BY <1>1, BodyFaces
<1>4. rx \in RxTypes /\ rx.error = "NONE"
  BY <1>1 DEF StreamInv, Decoding
<1>5. q.kind \in PublishKinds
  BY <1>1, <1>3, <1>4, EndsAgree
<1>6. IdEnd(rx) = IdEndOf(q) /\ rx.length.acc = BodySize(q)
  BY <1>1, <1>3, <1>4, <1>5, EndsAgree
<1>7. /\ IdEnd(rx) = TextStart(q, "payload")
      /\ rx.length.acc = TextStart(q, "payload") + Len(q.text["payload"])
  BY <1>6 DEF TextStart, BodySize
<1>8. "payload" \in StringParts
  BY DEF StringParts
<1>9. InString(at, q, t, "payload")
  BY <1>1, <1>3, <1>4, <1>5, <1>6, <1>7 DEF InString
<1> QED BY <1>2, <1>7, <1>8, <1>9, AllocateWriteStep

LEMMA DecodeStep ==
  ASSUME StreamInv, Decode
  PROVE  StreamInv'
BY DecodeHeaderStep, DecodeTopicLengthStep, DecodeTopicStep, DecodeIdStep,
   DecodePayloadStep DEF Decode

-----------------------------------------------------------------------------
(* The encoder's steps: a packet that nothing has been written of, and one *)
(* that something has.                                                     *)

(* What happens in the store behind and before the current packet does not *)
(* matter to the wire, nor what becomes current when nothing was.          *)
LEMMA SameWire ==
  ASSUME StreamInv, NEW at \in [Nat -> Int], Streaming(at),
         UNCHANGED <<wire, rx, sent, got>>, Done' = Done,
         HasCurrent(store) =>
           Sent(Current(store))' = Sent(Current(store))
  PROVE  WireInv'
<1> DEFINE g == Len(got) + 1
           n == Len(sent) + 1
<1>1. /\ wire' = wire /\ rx' = rx /\ sent' = sent /\ got' = got
  OBVIOUS
<1>2. /\ Len(got) \in Nat /\ Len(sent) \in Nat /\ Len(wire) \in Nat
      /\ Len(got) <= Len(sent) /\ rx \in RxTypes
  BY Ranges DEF StreamInv
<1>3. /\ Laid(at) /\ at[g] <= 0 /\ DecoderInv(Frame(g), rx, 0 - at[g])
      /\ at[g] = 0 => rx = FreshRx
  BY DEF Streaming
<1>4. ASSUME NEW i
      PROVE  Encoded(i)' = Encoded(i)
  BY <1>1 DEF Encoded
<1>5. ASSUME NEW i, i <= Len(sent) \/ HasCurrent(store)
      PROVE  Frame(i)' = Frame(i)
  BY <1>1, <1>5 DEF Frame
<1>6. ASSUME NEW i \in g .. n, ~(i <= Len(sent)), ~HasCurrent(store)
      PROVE  Encoded(i) = 0
  BY <1>6 DEF Encoded, Done
<1>7. ASSUME NEW i \in g .. n, NEW j \in 1 .. Encoded(i), at[i] + j >= 1
      PROVE  wire[at[i] + j] = FrameByte(Frame(i)', j)
  <2>1. i <= Len(sent) \/ HasCurrent(store)
    <3> SUFFICES ASSUME ~(i <= Len(sent)), ~HasCurrent(store)
                 PROVE  FALSE
      OBVIOUS
    <3>1. Encoded(i) = 0
      BY <1>6
    <3>2. 1 .. 0 = {}
      OBVIOUS
    <3> QED BY <1>7, <3>1, <3>2
  <2>2. Frame(i)' = Frame(i)
    BY <1>5, <2>1
  <2> QED BY <1>3, <1>7, <2>2 DEF Laid
<1>8. Laid(at)'
  <2>1. /\ \A i \in g .. n : at[i] <= at[n]
        /\ \A i \in g .. Len(sent) : at[i + 1] = at[i] + FrameSize(sent[i])
        /\ Len(wire) = at[n] + Done
    BY <1>3 DEF Laid
  <2>2. \A i \in g .. n : \A j \in 1 .. Encoded(i)' :
          at[i] + j >= 1 => wire[at[i] + j] = FrameByte(Frame(i)', j)
    BY <1>4, <1>7
  <2> QED BY <1>1, <2>1, <2>2 DEF Laid
<1>9. DecoderInv(Frame(g)', rx, 0 - at[g])
  <2>1. CASE g <= Len(sent) \/ HasCurrent(store)
    BY <1>3, <1>5, <2>1
  <2>2. CASE ~(g <= Len(sent)) /\ ~HasCurrent(store)
    <3>1. g = n /\ n \in Nat /\ at[n] \in Int
      BY <1>2, <2>2
    <3>2. Len(wire) = at[n] + Done /\ Done = 0
      BY <1>3, <2>2 DEF Laid, Done
    <3>3. at[g] = 0 /\ 0 - at[g] = 0
      BY <1>2, <1>3, <3>1, <3>2
    <3>4. rx = FreshRx
      BY <1>3, <3>3
    <3> QED BY <3>3, <3>4 DEF DecoderInv
  <2> QED BY <2>1, <2>2
<1>10. Streaming(at)'
  BY <1>1, <1>3, <1>8, <1>9 DEF Streaming
<1> QED BY <1>10 DEF WireInv

(* The numbers of what has been encoded.                                   *)
LEMMA EncodedRange ==
  ASSUME Numbers, queued \in Nat
  PROVE  /\ encoded \subseteq 1 .. queued
         /\ \A k \in 1 .. Len(sent) : sent[k].n \in 1 .. queued
<1>1. /\ sent \in Seq(Frames) /\ sent_before \subseteq 1 .. queued
      /\ encoded = sent_before \cup {sent[k].n : k \in 1 .. Len(sent)}
      /\ \A k \in 1 .. Len(sent) : sent[k].n <= queued
  BY DEF Numbers
<1>2. ASSUME NEW k \in 1 .. Len(sent)
      PROVE  sent[k].n \in 1 .. queued
  <2>1. sent[k] \in Frames
    BY <1>1, ElementOfSeq
  <2>2. sent[k].n \in Nat \ {0}
    BY <2>1 DEF Frames
  <2> QED BY <1>1, <2>2
<1> QED BY <1>1, <1>2

(* The encoder is at the beginning of a packet, if there is one.           *)
AtStart ==
  /\ WellFormed(store, Packets) /\ Numbers /\ queued \in 0 .. NumPackets
  /\ part = 0 /\ offset = 0

LEMMA StartsAnew == AtStart => EncoderInv /\ Done = 0
<1> SUFFICES ASSUME AtStart
             PROVE  EncoderInv /\ Done = 0
  OBVIOUS
<1>1. /\ WellFormed(store, Packets) /\ Numbers /\ queued \in 0 .. NumPackets
      /\ part = 0 /\ offset = 0 /\ part \in Nat /\ offset \in Nat
  BY DEF AtStart
<1>2. CASE ~HasCurrent(store)
  BY <1>1, <1>2 DEF EncoderInv, Done
<1>3. CASE HasCurrent(store)
  <2> DEFINE p == Current(store)
  <2>1. /\ store.entries \in Seq(Packets) /\ store.pos \in Nat
        /\ store.pos + 1 \in 1 .. Len(store.entries)
        /\ p = store.entries[store.pos + 1]
    BY <1>1, <1>3, LenProperties DEF WellFormed, HasCurrent, Current, Count
  <2>2. p \in Packets
    BY <2>1, ElementOfSeq
  <2>3. Fresh(p)
    BY <1>1, <2>1 DEF Fresh, Numbers, Count
  <2>4. /\ Len(Names(p)) \in Nat \ {0} /\ Names(p)[1] = "fixed"
        /\ \A i \in 1 .. Len(Names(p)) : PartOK(p, i)
    BY <2>2, <2>3, PartFacts
  <2> HIDE DEF p
  <2>5. 1 \in 1 .. Len(Names(p)) /\ 0 < Len(Names(p))
    BY <2>4
  <2>6. PartName = "fixed" /\ part < Len(Names(p))
    BY <1>1, <2>4, <2>5 DEF PartName, p
  <2>7. Len(Bytes(p, "fixed")) \in Nat \ {0}
    BY <2>4, <2>5 DEF PartOK, HasBytes
  <2>8. offset < Len(Bytes(p, PartName))
    BY <1>1, <2>6, <2>7
  <2>9. Done = 0
    <3>1. Done = StartOf(p, "fixed") + offset
      BY <1>3, <2>6 DEF Done, p
    <3> QED BY <1>1, <3>1, StartsOf
  <2> QED BY <1>1, <1>3, <2>6, <2>8, <2>9 DEF EncoderInv, p
<1> QED BY <1>2, <1>3

LEMMA QueueStep ==
  ASSUME StreamInv, Queue
  PROVE  StreamInv'
<1>1. PICK kind \in StreamKinds, tl \in TopicLens, pl \in PayloadLens :
        LET packet == [kind |-> kind, n |-> queued + 1,
                       id |-> IF kind = "PUBLISH_0" THEN 0 ELSE queued + 1,
                       topic |-> IF IsPublish(kind) THEN tl ELSE 0,
                       payload |-> IF IsPublish(kind) THEN pl ELSE 0]
        IN /\ IsPublish(kind) => PublishValid(packet)
           /\ store' = Appended(store, packet)
  BY DEF Queue
<1>2. /\ queued < NumPackets /\ queued' = queued + 1
      /\ UNCHANGED <<part, offset, encoded, wire, rx, sent, got, past, owned,
                     causes>>
  BY DEF Queue
<1>3. /\ EncoderInv /\ Numbers /\ WellFormed(store, Packets)
      /\ queued \in Nat /\ queued' \in 0 .. NumPackets /\ queued' \in Nat
      /\ NumPackets \in Nat /\ NumPackets < Base * Base
      /\ Base * Base \in Nat
  BY <1>2, StreamAssumption, Constants DEF StreamInv, EncoderInv
<1> DEFINE p == [kind |-> kind, n |-> queued + 1,
                 id |-> IF kind = "PUBLISH_0" THEN 0 ELSE queued + 1,
                 topic |-> IF IsPublish(kind) THEN tl ELSE 0,
                 payload |-> IF IsPublish(kind) THEN pl ELSE 0]
<1>4. /\ IsPublish(kind) => PublishValid(p)
      /\ store' = Appended(store, p)
  BY <1>1
<1>5. /\ kind \in PacketKinds /\ tl \in Nat /\ pl \in Nat
      /\ IsPublish(kind) <=> kind \in PublishKinds
  <2>1. kind \in PacketKinds /\ tl \in Nat /\ pl \in Nat
    BY StreamAssumption DEF PacketKinds, PublishKinds, AckKinds
  <2> QED BY <2>1 DEF IsPublish, PublishKinds
<1>6. p \in Packets
  <2>1. p \in [kind : PacketKinds, n : Nat \ {0}, id : Nat, topic : Nat,
               payload : Nat]
    BY <1>3, <1>5
  <2>2. p.n < Base * Base
    BY <1>2, <1>3
  <2>3. p.kind \in AckKinds => p.topic = 0 /\ p.payload = 0
    BY <1>5, KindsOfPackets
  <2> QED BY <1>4, <1>5, <2>1, <2>2, <2>3 DEF Packets, GoodPacket
<1>7. p.n = queued + 1 /\ p.kind = kind
  OBVIOUS
<1> HIDE DEF p
<1>8. /\ WellFormed(store', Packets) /\ Count(store') = Count(store) + 1
      /\ store'.pos = store.pos
      /\ \A j \in 1 .. Count(store) : store'.entries[j] = store.entries[j]
      /\ store'.entries[Count(store) + 1] = p
  BY <1>3, <1>4, <1>6, AppendedLemma
<1>9. HasCurrent(store) =>
        HasCurrent(store') /\ Current(store') = Current(store)
  BY <1>3, <1>4, <1>6, AppendedKinds
<1>10. /\ part' = part /\ offset' = offset /\ encoded' = encoded
       /\ wire' = wire /\ rx' = rx /\ sent' = sent /\ got' = got
       /\ sent_before' = sent_before /\ got_before' = got_before
       /\ owned' = owned /\ causes' = causes
  BY <1>2 DEF past
<1>11. Numbers'
  <2>1. Count(store) \in Nat /\ store.pos \in Nat
    BY <1>3, LenProperties DEF WellFormed, Count
  <2>2. encoded \subseteq 1 .. queued
    BY <1>3, EncodedRange
  <2>3. /\ sent \in Seq(Frames) /\ sent_before \subseteq 1 .. queued
        /\ got_before \subseteq sent_before
        /\ encoded = sent_before \cup {sent[k].n : k \in 1 .. Len(sent)}
        /\ \A k \in 1 .. Len(sent) :
             /\ sent[k].n <= queued
             /\ sent[k].kind \in PublishKinds =>
                  (sent[k].dup <=> sent[k].n \in sent_before)
    BY <1>3 DEF Numbers
  <2>4. \A k \in 1 .. Len(sent) : sent[k].n \in 1 .. queued
    BY <2>2, <2>3
  <2>5. \A i \in 1 .. Count(store) : store.entries[i].n \in Nat
    BY SMTT(30), <1>3, ElementOfSeq DEF WellFormed, Count, Packets
  <2>6. ASSUME NEW i \in 1 .. Count(store'), NEW j \in 1 .. Count(store'),
               store'.entries[i].n = store'.entries[j].n
        PROVE  i = j
    <3>1. i \in 1 .. Count(store) \/ i = Count(store) + 1
      BY <1>8, <2>1
    <3>2. j \in 1 .. Count(store) \/ j = Count(store) + 1
      BY <1>8, <2>1
    <3>3. \A x \in 1 .. Count(store) : store'.entries[x].n # queued + 1
      BY <1>3, <1>8, <2>5 DEF Numbers
    <3> QED BY <1>3, <1>7, <1>8, <2>6, <3>1, <3>2, <3>3 DEF Numbers
  <2>7. ASSUME NEW i \in 1 .. Count(store')
        PROVE  /\ store'.entries[i].n <= queued'
               /\ store'.entries[i].kind = "PUBLISH_0" =>
                    store'.entries[i].n \notin encoded
               /\ i > store'.pos =>
                    \A k \in 1 .. Len(sent) : sent[k].n # store'.entries[i].n
    <3>1. CASE i \in 1 .. Count(store)
      <4>1. store'.entries[i] = store.entries[i] /\ store'.pos = store.pos
        BY <1>8, <3>1
      <4>2. /\ store.entries[i].n <= queued
            /\ store.entries[i].kind = "PUBLISH_0" =>
                 store.entries[i].n \notin encoded
            /\ i > store.pos =>
                 \A k \in 1 .. Len(sent) : sent[k].n # store.entries[i].n
        BY <1>3, <3>1 DEF Numbers
      <4>3. store.entries[i].n <= queued'
        <5>1. store.entries[i].n \in Nat
          BY <2>5, <3>1
        <5> QED BY <1>2, <1>3, <4>2, <5>1
      <4> QED BY <4>1, <4>2, <4>3
    <3>2. CASE i = Count(store) + 1
      <4>1. store'.entries[i].n = queued + 1
        BY <1>7, <1>8, <3>2
      <4>2. queued + 1 \notin 1 .. queued
        BY <1>3
      <4> QED BY <1>2, <1>3, <2>2, <2>4, <4>1, <4>2
    <3> QED BY <1>8, <2>1, <3>1, <3>2
  <2>8. sent_before \subseteq 1 .. queued'
    BY <1>2, <1>3, <2>3
  <2>9. \A k \in 1 .. Len(sent) : sent[k].n <= queued'
    BY <1>2, <1>3, <2>4
  <2> QED BY <1>10, <2>3, <2>6, <2>7, <2>8, <2>9 DEF Numbers
<1>12. EncoderInv' /\ Done' = Done
  <2>1. CASE HasCurrent(store)
    <3>1. HasCurrent(store') /\ Current(store') = Current(store)
      BY <1>9, <2>1
    <3>2. \A x, name : Bytes(x, name)' = Bytes(x, name)
      BY <1>10 DEF Bytes
    <3>3. \A x, name : StartOf(x, name)' = StartOf(x, name)
      BY <1>10 DEF StartOf, Sent
    <3>4. EncoderInv'
      BY <1>3, <1>8, <1>10, <2>1, <3>1, <3>2 DEF EncoderInv, PartName
    <3>5. Done' = Done
      BY <1>10, <2>1, <3>1, <3>3 DEF Done, PartName
    <3> QED BY <3>4, <3>5
  <2>2. CASE ~HasCurrent(store)
    <3>1. part' = 0 /\ offset' = 0
      BY <1>3, <1>10, <2>2 DEF EncoderInv
    <3>2. AtStart'
      BY <1>3, <1>8, <1>11, <3>1 DEF AtStart
    <3>3. (EncoderInv /\ Done = 0)'
      BY <3>2, StartsAnew, PTL
    <3>4. Done = 0
      BY <2>2 DEF Done
    <3> QED BY <3>3, <3>4
  <2> QED BY <2>1, <2>2
<1>13. WireInv' \/ rx.error # "NONE"
  <2> SUFFICES ASSUME rx.error = "NONE"
               PROVE  WireInv'
    OBVIOUS
  <2>1. PICK at \in [Nat -> Int] : Streaming(at)
    BY DEF StreamInv, WireInv
  <2>2. HasCurrent(store) => Sent(Current(store))' = Sent(Current(store))
    BY <1>9, <1>10 DEF Sent
  <2>3. UNCHANGED <<wire, rx, sent, got>>
    BY <1>10
  <2> QED BY <1>12, <2>1, <2>2, <2>3, SameWire
<1>14. Matched' /\ Ownership'
  BY <1>10 DEF StreamInv, Matched, ReceivedIsSent, Ownership
<1>15. wire' \in Seq(Octets) /\ rx' \in RxTypes
  BY <1>10 DEF StreamInv
<1> QED BY <1>10, <1>11, <1>12, <1>13, <1>14, <1>15 DEF StreamInv

LEMMA AcknowledgeStep ==
  ASSUME StreamInv, Acknowledge
  PROVE  StreamInv'
<1>1. PICK i \in 1 .. store.pos : store' = PopAt(store, i)
  BY DEF Acknowledge
<1>2. /\ part' = part /\ offset' = offset /\ encoded' = encoded
      /\ wire' = wire /\ rx' = rx /\ sent' = sent /\ got' = got
      /\ sent_before' = sent_before /\ got_before' = got_before
      /\ owned' = owned /\ causes' = causes /\ queued' = queued
  BY DEF Acknowledge, past
<1>3. EncoderInv /\ Numbers /\ WellFormed(store, Packets)
  BY DEF StreamInv, EncoderInv
<1>4. /\ i \in 1 .. Count(store) /\ i \in Nat /\ i <= store.pos
      /\ Count(store) \in Nat /\ store.pos \in Nat
      /\ store.pos <= Count(store)
  BY <1>3, LenProperties DEF WellFormed, Count
<1>5. /\ WellFormed(store', Packets) /\ Count(store') = Count(store) - 1
      /\ store'.pos = store.pos - 1
      /\ \A j \in 1 .. Count(store) - 1 :
           store'.entries[j] =
             IF j < i THEN store.entries[j] ELSE store.entries[j + 1]
  BY <1>1, <1>3, <1>4, PopAtLemma
<1>6. /\ HasCurrent(store) =>
           HasCurrent(store') /\ Current(store') = Current(store)
      /\ ~HasCurrent(store) => ~HasCurrent(store')
  <2>1. HasCurrent(store) =>
          HasCurrent(store') /\ Current(store') = Current(store)
    BY <1>1, <1>3, <1>4, PopAtKinds
  <2>2. ~HasCurrent(store) => ~HasCurrent(store')
    BY <1>4, <1>5 DEF HasCurrent
  <2> QED BY <2>1, <2>2
<1>7. Numbers'
  <2> DEFINE was(j) == IF j < i THEN j ELSE j + 1
  <2>1. ASSUME NEW j \in 1 .. Count(store')
        PROVE  /\ was(j) \in 1 .. Count(store)
               /\ store'.entries[j] = store.entries[was(j)]
               /\ j > store'.pos => was(j) > store.pos
    <3>1. j \in 1 .. Count(store) - 1
      BY <1>5
    <3> QED BY <1>4, <1>5, <3>1
  <2>2. \A j, k \in 1 .. Count(store') : was(j) = was(k) => j = k
    BY <1>4, <1>5
  <2> HIDE DEF was
  <2>3. ASSUME NEW j \in 1 .. Count(store'), NEW k \in 1 .. Count(store'),
               store'.entries[j].n = store'.entries[k].n
        PROVE  j = k
    <3>1. was(j) = was(k)
      BY <1>3, <2>1, <2>3 DEF Numbers
    <3> QED BY <2>2, <3>1
  <2>4. ASSUME NEW j \in 1 .. Count(store')
        PROVE  /\ store'.entries[j].n <= queued
               /\ store'.entries[j].kind = "PUBLISH_0" =>
                    store'.entries[j].n \notin encoded
               /\ j > store'.pos =>
                    \A k \in 1 .. Len(sent) : sent[k].n # store'.entries[j].n
    BY <1>3, <2>1 DEF Numbers
  <2>5. /\ sent \in Seq(Frames) /\ sent_before \subseteq 1 .. queued
        /\ got_before \subseteq sent_before
        /\ encoded = sent_before \cup {sent[k].n : k \in 1 .. Len(sent)}
        /\ \A k \in 1 .. Len(sent) :
             /\ sent[k].n <= queued
             /\ sent[k].kind \in PublishKinds =>
                  (sent[k].dup <=> sent[k].n \in sent_before)
    BY <1>3 DEF Numbers
  <2> QED BY <1>2, <2>3, <2>4, <2>5 DEF Numbers
<1>8. EncoderInv' /\ Done' = Done
  <2>1. /\ \A x, name : Bytes(x, name)' = Bytes(x, name)
        /\ \A x, name : StartOf(x, name)' = StartOf(x, name)
    BY <1>2 DEF Bytes, StartOf, Sent
  <2>2. CASE HasCurrent(store)
    <3>1. HasCurrent(store') /\ Current(store') = Current(store)
      BY <1>6, <2>2
    <3>2. EncoderInv'
      BY <1>2, <1>3, <1>5, <2>1, <2>2, <3>1 DEF EncoderInv, PartName
    <3>3. Done' = Done
      BY <1>2, <2>1, <2>2, <3>1 DEF Done, PartName
    <3> QED BY <3>2, <3>3
  <2>3. CASE ~HasCurrent(store)
    <3>1. ~HasCurrent(store')
      BY <1>6, <2>3
    <3> QED BY <1>2, <1>3, <1>5, <2>3, <3>1 DEF EncoderInv, Done
  <2> QED BY <2>2, <2>3
<1>9. WireInv' \/ rx.error # "NONE"
  <2> SUFFICES ASSUME rx.error = "NONE"
               PROVE  WireInv'
    OBVIOUS
  <2>1. PICK at \in [Nat -> Int] : Streaming(at)
    BY DEF StreamInv, WireInv
  <2>2. HasCurrent(store) => Sent(Current(store))' = Sent(Current(store))
    BY <1>2, <1>6 DEF Sent
  <2>3. UNCHANGED <<wire, rx, sent, got>>
    BY <1>2
  <2> QED BY <1>8, <2>1, <2>2, <2>3, SameWire
<1>10. Matched' /\ Ownership'
  BY <1>2 DEF StreamInv, Matched, ReceivedIsSent, Ownership
<1>11. wire' \in Seq(Octets) /\ rx' \in RxTypes
  BY <1>2 DEF StreamInv
<1> QED BY <1>2, <1>7, <1>8, <1>9, <1>10, <1>11 DEF StreamInv

(* A new connection: nothing in the wire, nothing sent, nothing got.       *)
NewConnection ==
  /\ EncoderInv /\ Numbers /\ Done = 0 /\ wire = <<>> /\ sent = <<>>
  /\ got = <<>> /\ rx = FreshRx /\ Ownership

LEMMA Connected == NewConnection => StreamInv
<1> SUFFICES ASSUME NewConnection
             PROVE  StreamInv
  OBVIOUS
<1>1. /\ EncoderInv /\ Numbers /\ Done = 0 /\ wire = <<>> /\ sent = <<>>
      /\ got = <<>> /\ rx = FreshRx /\ Ownership
  BY DEF NewConnection
<1>2. wire \in Seq(Octets) /\ got \in Seq(Messages)
  BY <1>1, EmptySeq
<1>3. Len(wire) = 0 /\ Len(sent) = 0 /\ Len(got) = 0
  BY <1>1, EmptySeq
<1>4. rx \in RxTypes
  BY <1>1, FreshTypes
<1>5. Matched
  BY <1>2, <1>3 DEF Matched, ReceivedIsSent
<1>6. WireInv
  <2> DEFINE at == [i \in Nat |-> 0]
  <2>1. at \in [Nat -> Int] /\ at[1] = 0 /\ \A i \in Nat : at[i] = 0
    OBVIOUS
  <2> HIDE DEF at
  <2>2. \A i \in 1 .. 1 : i = 1
    OBVIOUS
  <2>3. Encoded(1) = 0
    BY <1>1, <1>3 DEF Encoded
  <2>4. 1 .. 0 = {}
    OBVIOUS
  <2>5. Laid(at)
    <3>1. \A i \in 1 .. 1 : \A j \in 1 .. Encoded(i) :
            at[i] + j >= 1 => wire[at[i] + j] = FrameByte(Frame(i), j)
      BY <2>2, <2>3, <2>4
    <3>2. Len(got) + 1 = 1 /\ Len(sent) + 1 = 1
      BY <1>3
    <3> QED BY <1>1, <1>3, <2>1, <2>2, <2>4, <3>1, <3>2 DEF Laid
  <2>6. DecoderInv(Frame(1), rx, 0)
    BY <1>1 DEF DecoderInv
  <2>7. Len(got) + 1 = 1 /\ 0 - at[1] = 0
    BY <1>3, <2>1
  <2>8. Streaming(at)
    BY <1>1, <2>1, <2>5, <2>6, <2>7 DEF Streaming
  <2> QED BY <2>1, <2>8 DEF WireInv
<1> QED BY <1>1, <1>2, <1>4, <1>5, <1>6 DEF StreamInv

LEMMA InitStream == Init => StreamInv
<1> SUFFICES ASSUME Init
             PROVE  StreamInv
  OBVIOUS
<1>1. /\ store = EmptyStore /\ part = 0 /\ offset = 0 /\ encoded = {}
      /\ wire = <<>> /\ rx = FreshRx /\ queued = 0 /\ sent = <<>> /\ got = <<>>
      /\ sent_before = {} /\ got_before = {}
      /\ owned = [s \in StringParts |-> 0] /\ causes = {}
  BY DEF Init
<1>2. /\ WellFormed(store, Packets) /\ Count(store) = 0
  BY <1>1, EmptySeq DEF WellFormed, Count, EmptyStore
<1>3. Len(sent) = 0 /\ sent \in Seq(Frames)
  BY <1>1, EmptySeq
<1>4. 1 .. 0 = {}
  OBVIOUS
<1>5. Numbers
  BY <1>1, <1>2, <1>3, <1>4 DEF Numbers
<1>6. NumPackets \in Nat
  BY StreamAssumption
<1>7. EncoderInv /\ Done = 0
  BY <1>1, <1>2, <1>5, <1>6, StartsAnew DEF AtStart
<1>8. Ownership
  BY <1>1 DEF Ownership, Owns, FreshRx
<1> QED BY <1>1, <1>5, <1>7, <1>8, Connected DEF NewConnection

LEMMA BreakStep ==
  ASSUME StreamInv, Break
  PROVE  StreamInv'
<1>1. /\ store' = UnmarkAll(store) /\ part' = 0 /\ offset' = 0
      /\ wire' = <<>> /\ rx' = FreshRx
      /\ sent_before' = sent_before \cup {sent[i].n : i \in 1 .. Len(sent)}
      /\ got_before' = got_before \cup Got
      /\ sent' = <<>> /\ got' = <<>>
      /\ causes' = IF rx.has # {} THEN causes \cup {"reset"} ELSE causes
      /\ encoded' = encoded /\ queued' = queued /\ owned' = owned
  BY DEF Break
<1>2. /\ EncoderInv /\ Numbers /\ WellFormed(store, Packets)
      /\ queued \in 0 .. NumPackets /\ queued \in Nat
      /\ NumPackets \in Nat
  BY StreamAssumption DEF StreamInv, EncoderInv
<1>3. /\ WellFormed(store', Packets) /\ Count(store') = Count(store)
      /\ store'.entries = store.entries
  BY <1>1, <1>2 DEF UnmarkAll, WellFormed, Count
<1>4. sent' \in Seq(Frames) /\ Len(sent') = 0 /\ 1 .. 0 = {}
  BY <1>1, EmptySeq
<1>5. /\ encoded \subseteq 1 .. queued
      /\ encoded = sent_before \cup {sent[k].n : k \in 1 .. Len(sent)}
      /\ got_before \subseteq sent_before
      /\ \A i, j \in 1 .. Count(store) :
           store.entries[i].n = store.entries[j].n => i = j
      /\ \A i \in 1 .. Count(store) :
           /\ store.entries[i].n <= queued
           /\ store.entries[i].kind = "PUBLISH_0" =>
                store.entries[i].n \notin encoded
  <2>1. encoded \subseteq 1 .. queued
    BY <1>2, EncodedRange
  <2> QED BY <1>2, <2>1 DEF Numbers
<1>6. sent_before' = encoded
  BY <1>1, <1>5
<1>7. got_before' \subseteq sent_before'
  <2>1. Len(got) \in Nat /\ Len(sent) \in Nat
    BY Ranges
  <2>2. 1 .. Smaller(Len(got), Len(sent)) \subseteq 1 .. Len(sent)
    BY <2>1 DEF Smaller
  <2>3. Got \subseteq {sent[k].n : k \in 1 .. Len(sent)}
    BY <2>2 DEF Got
  <2> QED BY <1>1, <1>5, <2>3
<1>8. {sent'[k].n : k \in 1 .. Len(sent')} = {}
  BY <1>4
<1>9. Numbers'
  BY <1>1, <1>3, <1>4, <1>5, <1>6, <1>7, <1>8 DEF Numbers
<1>10. AtStart'
  BY <1>1, <1>2, <1>3, <1>9 DEF AtStart
<1>11. (EncoderInv /\ Done = 0)'
  BY <1>10, StartsAnew, PTL
<1>12. Ownership'
  BY <1>1 DEF StreamInv, Ownership, Owns, FreshRx
<1>13. NewConnection'
  BY <1>1, <1>9, <1>11, <1>12 DEF NewConnection
<1> QED BY <1>13, Connected, PTL

-----------------------------------------------------------------------------
(* The encoder writes k bytes of the packet q.                             *)

Put(k, q) ==
  /\ k \in Nat /\ wire' \in Seq(Octets) /\ Len(wire') = Len(wire) + k
  /\ \A x \in 1 .. Len(wire) : wire'[x] = wire[x]
  /\ \A x \in 1 .. k : wire'[Len(wire) + x] = FrameByte(q, Done + x)

LEMMA PutFacts ==
  ASSUME wire \in Seq(Octets), NEW bytes \in Seq(Octets),
         NEW d \in Nat, NEW k \in Nat, d + k <= Len(bytes),
         NEW start \in Nat, NEW q, Done = start + d,
         \A x \in 1 .. Len(bytes) : bytes[x] = FrameByte(q, start + x),
         wire' = wire \o SubSeq(bytes, d + 1, d + k)
  PROVE  Put(k, q)
<1> DEFINE more == SubSeq(bytes, d + 1, d + k)
<1>1. /\ more \in Seq(Octets) /\ Len(more) = k
      /\ \A x \in 1 .. k : more[x] = bytes[d + x]
  <2>1. /\ more \in Seq(Octets) /\ Len(more) = (d + k) - d
        /\ \A x \in 1 .. (d + k) - d : more[x] = bytes[d + x]
    <3>1. d <= d + k /\ d + k \in Nat
      OBVIOUS
    <3> QED BY <3>1, Slice
  <2>2. (d + k) - d = k
    OBVIOUS
  <2> HIDE DEF more
  <2> QED BY <2>1, <2>2
<1>2. wire' = wire \o more
  OBVIOUS
<1> HIDE DEF more
<1>3. Len(wire) \in Nat
  BY LenProperties
<1>4. /\ wire' \in Seq(Octets) /\ Len(wire') = Len(wire) + k
      /\ \A x \in 1 .. Len(wire) : wire'[x] = wire[x]
      /\ \A x \in Len(wire) + 1 .. Len(wire) + k :
           wire'[x] = more[x - Len(wire)]
  <2>1. PICK w \in Nat : w = Len(wire)
    BY <1>3
  <2>2. /\ wire \o more \in Seq(Octets) /\ Len(wire \o more) = w + Len(more)
        /\ \A x \in 1 .. w : (wire \o more)[x] = wire[x]
        /\ \A x \in w + 1 .. w + Len(more) :
             (wire \o more)[x] = more[x - w]
    <3>1. wire \in Seq(Octets) /\ more \in Seq(Octets)
      BY <1>1
    <3> QED BY <2>1, <3>1, Joined, ZenonT(30)
  <2> QED BY <1>1, <1>2, <2>1, <2>2
<1>5. ASSUME NEW x \in 1 .. k
      PROVE  wire'[Len(wire) + x] = FrameByte(q, Done + x)
  <2>1. /\ Len(wire) + x \in Len(wire) + 1 .. Len(wire) + k
        /\ (Len(wire) + x) - Len(wire) = x
    BY <1>3
  <2>2. wire'[Len(wire) + x] = more[x]
    BY <1>4, <2>1
  <2>3. d + x \in 1 .. Len(bytes) /\ start + (d + x) = Done + x
    BY LenProperties
  <2>4. more[x] = FrameByte(q, start + (d + x))
    BY <1>1, <2>3
  <2> QED BY <2>2, <2>3, <2>4
<1> QED BY <1>4, <1>5 DEF Put

(* What is in the wire stays there.                                        *)
LEMMA PutKeeps ==
  ASSUME StreamInv, NEW at \in [Nat -> Int], Laid(at), NEW q, NEW k, Put(k, q),
         NEW i \in Len(got) + 1 .. Len(sent) + 1, NEW j \in 1 .. Encoded(i),
         at[i] + j >= 1
  PROVE  wire'[at[i] + j] = FrameByte(Frame(i), j)
<1>1. at[i] \in Int /\ Encoded(i) \in Nat /\ at[i] + Encoded(i) <= Len(wire)
  BY Places
<1>2. Len(wire) \in Nat
  BY Ranges
<1>3. PICK a \in Int : a = at[i]
  BY <1>1
<1>4. PICK e \in Nat : e = Encoded(i)
  BY <1>1
<1>5. a + j \in 1 .. Len(wire)
  <2>1. j \in 1 .. e /\ a + j >= 1 /\ a + e <= Len(wire)
    BY <1>1, <1>3, <1>4
  <2> QED BY <1>2, <2>1
<1>6. wire'[a + j] = wire[a + j]
  BY <1>5 DEF Put
<1>7. wire[at[i] + j] = FrameByte(Frame(i), j)
  BY DEF Laid
<1> QED BY <1>3, <1>6, <1>7

LEMMA Behind ==
  ASSUME NEW d \in Nat, NEW k \in Nat, NEW a \in Int,
         NEW j \in 1 .. d + k, j > d
  PROVE  /\ j - d \in 1 .. k /\ d + (j - d) = j
         /\ (a + d) + (j - d) = a + j
OBVIOUS

(* The packet that is being encoded is the last one.                       *)
LEMMA PutLast ==
  ASSUME StreamInv, NEW at \in [Nat -> Int], Laid(at), NEW q, NEW k, Put(k, q),
         q = Frame(Len(sent) + 1), NEW j \in 1 .. Done + k,
         at[Len(sent) + 1] + j >= 1
  PROVE  wire'[at[Len(sent) + 1] + j] = FrameByte(q, j)
<1> DEFINE n == Len(sent) + 1
<1>1. /\ Len(got) \in Nat /\ Len(sent) \in Nat /\ Len(got) <= Len(sent)
      /\ Len(wire) \in Nat /\ Done \in Nat
  BY Ranges
<1>2. n \in Len(got) + 1 .. Len(sent) + 1 /\ n \in Nat /\ ~(n <= Len(sent))
  BY <1>1
<1>3. k \in Nat /\ \A x \in 1 .. k :
                     wire'[Len(wire) + x] = FrameByte(q, Done + x)
  BY DEF Put
<1>4. Len(wire) = at[n] + Done /\ at[n] \in Int
  BY <1>2 DEF Laid
<1>5. q = Frame(n) /\ at[n] + j >= 1
  OBVIOUS
<1> HIDE DEF n
<1>6. CASE j <= Done
  <2>1. Encoded(n) = Done
    BY <1>2 DEF Encoded
  <2>2. j \in 1 .. Encoded(n)
    BY <1>1, <1>3, <1>6, <2>1
  <2> QED BY <1>2, <1>5, <2>2, PutKeeps DEF n
<1>7. CASE j > Done
  <2>1. PICK a \in Int : a = at[n]
    BY <1>4
  <2>2. /\ j - Done \in 1 .. k /\ Done + (j - Done) = j
        /\ (a + Done) + (j - Done) = a + j
    BY SMTT(30), <1>1, <1>3, <1>7, <2>1, Behind
  <2>3. wire'[Len(wire) + (j - Done)] = FrameByte(q, Done + (j - Done))
    BY <1>3, <2>2
  <2>4. Len(wire) + (j - Done) = at[n] + j
    BY <1>4, <2>1, <2>2
  <2> QED BY <2>2, <2>3, <2>4 DEF n
<1>8. j \in Int
  BY <1>1, <1>3
<1> QED BY <1>1, <1>6, <1>7, <1>8

LEMMA PutGoesOn ==
  ASSUME StreamInv, NEW at \in [Nat -> Int], Streaming(at), NEW q, NEW k,
         Put(k, q), q = Frame(Len(sent) + 1),
         UNCHANGED <<store, encoded, sent, got, rx>>, Done' = Done + k
  PROVE  WireInv'
<1> DEFINE g == Len(got) + 1
           n == Len(sent) + 1
<1>1. /\ Len(got) \in Nat /\ Len(sent) \in Nat /\ Len(got) <= Len(sent)
      /\ Len(wire) \in Nat /\ Done \in Nat
  BY Ranges
<1>2. /\ Laid(at) /\ at[g] <= 0 /\ DecoderInv(Frame(g), rx, 0 - at[g])
      /\ at[g] = 0 => rx = FreshRx
  BY DEF Streaming
<1>3. store' = store /\ encoded' = encoded /\ sent' = sent /\ got' = got
      /\ rx' = rx
  OBVIOUS
<1>4. ASSUME NEW i
      PROVE  Frame(i)' = Frame(i)
  BY <1>3 DEF Frame, Sent
<1>5. ASSUME NEW i
      PROVE  Encoded(i)' = IF i <= Len(sent) THEN Encoded(i) ELSE Done + k
  BY <1>3 DEF Encoded
<1>6. ASSUME NEW i \in g .. n, NEW j \in 1 .. Encoded(i)', at[i] + j >= 1
      PROVE  wire'[at[i] + j] = FrameByte(Frame(i)', j)
  <2>1. CASE i <= Len(sent)
    <3>1. j \in 1 .. Encoded(i)
      BY <1>5, <1>6, <2>1
    <3> QED BY <1>2, <1>4, <1>6, <3>1, PutKeeps
  <2>2. CASE ~(i <= Len(sent))
    <3>1. i = n
      BY <1>1, <2>2
    <3>2. j \in 1 .. Done + k
      BY <1>5, <1>6, <2>2
    <3>3. wire'[at[n] + j] = FrameByte(q, j)
      BY <1>2, <1>6, <3>1, <3>2, PutLast
    <3>4. Frame(i)' = q
      BY <1>4, <3>1
    <3> QED BY <3>1, <3>3, <3>4
  <2> QED BY <2>1, <2>2
<1>7. Len(wire') = at[n] + Done'
  <2>1. Len(wire) = at[n] + Done /\ at[n] \in Int /\ k \in Nat
    BY <1>1, <1>2 DEF Laid, Put
  <2>2. PICK a \in Int : a = at[n]
    BY <2>1
  <2>3. Len(wire') = (a + Done) + k
    BY <2>1, <2>2 DEF Put
  <2>4. (a + Done) + k = a + (Done + k)
    BY <1>1, <2>1
  <2> QED BY <2>2, <2>3, <2>4
<1>8. Laid(at)'
  <2>1. /\ \A i \in g .. n : at[i] <= at[n]
        /\ \A i \in g .. Len(sent) : at[i + 1] = at[i] + FrameSize(sent[i])
    BY <1>2 DEF Laid
  <2> QED BY <1>3, <1>6, <1>7, <2>1 DEF Laid
<1>9. Streaming(at)'
  BY <1>2, <1>3, <1>4, <1>8 DEF Streaming
<1> QED BY <1>9 DEF WireInv

(* The packet q has been sent, too.                                        *)
SentToo(q) ==
  /\ sent' \in Seq(Frames) /\ Len(sent') = Len(sent) + 1
  /\ sent'[Len(sent) + 1] = q
  /\ \A i \in 1 .. Len(sent) : sent'[i] = sent[i]

LEMMA Earlier ==
  ASSUME NEW g \in Nat, NEW n \in Nat, g \in 1 .. n,
         NEW i \in g .. n + 1, i # n + 1
  PROVE  i \in g .. n /\ i \in 1 .. n
OBVIOUS

LEMMA PutEnds ==
  ASSUME StreamInv, NEW at \in [Nat -> Int], Streaming(at),
         NEW q \in Frames, NEW k, Put(k, q), q = Frame(Len(sent) + 1),
         Done + k = FrameSize(q), SentToo(q),
         UNCHANGED <<got, rx>>, Done' = 0
  PROVE  WireInv'
<1>1. /\ Len(got) \in Nat /\ Len(sent) \in Nat /\ Len(got) <= Len(sent)
      /\ Len(wire) \in Nat /\ Done \in Nat /\ sent \in Seq(Frames)
      /\ FrameSize(q) \in Nat /\ k \in Nat
  BY Ranges, FrameFacts DEF StreamInv, Numbers, Put
<1>14. PICK g \in Nat : g = Len(got) + 1
  BY <1>1
<1>15. PICK n \in Nat : n = Len(sent) + 1
  BY <1>1
<1> DEFINE at1 == [at EXCEPT ![n + 1] = at[n] + FrameSize(q)]
<1>2. /\ Laid(at) /\ at[g] <= 0 /\ DecoderInv(Frame(g), rx, 0 - at[g])
      /\ at[g] = 0 => rx = FreshRx
  BY <1>14 DEF Streaming
<1>3. /\ sent' \in Seq(Frames) /\ Len(sent') = n /\ sent'[n] = q
      /\ \A i \in 1 .. Len(sent) : sent'[i] = sent[i]
      /\ got' = got /\ rx' = rx
  BY <1>15 DEF SentToo
<1>4. /\ n \in Nat /\ n + 1 \in Nat /\ g \in Nat /\ g \in 1 .. n
      /\ at[n] \in Int /\ at[n] + FrameSize(q) \in Int
      /\ n \in 1 .. n /\ q = Frame(n)
  <2>1. /\ n \in Nat /\ n + 1 \in Nat /\ g \in Nat /\ g \in 1 .. n
        /\ n \in 1 .. n
    BY SMTT(30), <1>1, <1>14, <1>15
  <2>2. q = Frame(n)
    BY <1>15
  <2>3. at[n] \in Int
    BY <2>1
  <2>4. PICK a \in Int : a = at[n]
    BY <2>3
  <2>5. a + FrameSize(q) \in Int
    BY <1>1
  <2> QED BY <2>1, <2>2, <2>3, <2>4, <2>5
<1>5. /\ at1 \in [Nat -> Int] /\ at1[n + 1] = at[n] + FrameSize(q)
      /\ \A i \in 1 .. n : at1[i] = at[i]
  <2>1. \A i \in 1 .. n : i \in Nat /\ i # n + 1
    BY <1>4
  <2> QED BY <1>4, <2>1
<1> HIDE DEF at1
<1>6. /\ \A i \in g .. n : at[i] <= at[n]
      /\ \A i \in g .. Len(sent) : at[i + 1] = at[i] + FrameSize(sent[i])
      /\ Len(wire) = at[n] + Done
  BY <1>2, <1>14, <1>15 DEF Laid
<1>7. ASSUME NEW i \in 1 .. n
      PROVE  Frame(i)' = Frame(i)
  <2>1. CASE i <= Len(sent)
    <3>1. i \in 1 .. Len(sent) /\ i <= Len(sent')
      BY <1>1, <1>3, <2>1
    <3> QED BY <1>3, <2>1, <3>1 DEF Frame
  <2>2. CASE i = n
    <3>1. i <= Len(sent')
      BY <1>3, <2>2
    <3> QED BY <1>3, <1>4, <2>2, <3>1 DEF Frame
  <2> QED BY <1>1, <1>15, <2>1, <2>2
<1>8. ASSUME NEW i \in g .. n + 1
      PROVE  at1[i] <= at1[n + 1]
  <2>1. CASE i = n + 1
    BY <1>5, <1>4, <2>1
  <2>2. CASE i # n + 1
    <3>1. i \in g .. n /\ i \in 1 .. n
      BY <1>4, <1>8, <2>2, Earlier
    <3>2. at1[i] = at[i] /\ at[i] <= at[n] /\ at[i] \in Int
      BY <1>5, <1>6, <3>1
    <3>3. PICK a \in Int : a = at[n]
      BY <1>4
    <3>4. PICK b \in Int : b = at[i]
      BY <3>2
    <3>5. PICK f \in Nat : f = FrameSize(q)
      BY <1>1
    <3>6. b <= a + f
      BY <3>2, <3>3, <3>4, <3>5
    <3> QED BY <1>5, <3>2, <3>3, <3>4, <3>5, <3>6
  <2> QED BY <2>1, <2>2
<1>9. ASSUME NEW i \in g .. n
      PROVE  at1[i + 1] = at1[i] + FrameSize(sent'[i])
  <2>1. CASE i = n
    <3>1. at1[i + 1] = at[n] + FrameSize(q) /\ at1[i] = at[n]
      BY <1>4, <1>5, <2>1
    <3> QED BY <1>3, <2>1, <3>1
  <2>2. CASE i # n
    <3>1. i \in g .. Len(sent) /\ i \in 1 .. Len(sent) /\ i \in 1 .. n
          /\ i + 1 \in 1 .. n
      BY <1>1, <1>4, <1>15, <2>2
    <3> QED BY <1>3, <1>5, <1>6, <3>1
  <2> QED BY <2>1, <2>2
<1>10. Len(wire') = at1[n + 1] + Done'
  <2>1. PICK a \in Int : a = at[n]
    BY <1>4
  <2>2. Len(wire') = (a + Done) + k
    BY <1>6, <2>1 DEF Put
  <2>3. (a + Done) + k = a + (Done + k)
    BY <1>1
  <2>4. at1[n + 1] + Done' = (a + (Done + k)) + 0
    BY <1>5, <2>1
  <2> QED BY <1>1, <2>2, <2>3, <2>4
<1>11. ASSUME NEW i \in g .. n + 1, NEW j \in 1 .. Encoded(i)', at1[i] + j >= 1
       PROVE  wire'[at1[i] + j] = FrameByte(Frame(i)', j)
  <2>1. CASE i = n + 1
    <3>1. ~(i <= Len(sent'))
      BY <1>3, <1>4, <2>1
    <3>2. Encoded(i)' = 0 /\ 1 .. 0 = {}
      BY <3>1 DEF Encoded
    <3> QED BY <1>11, <3>2
  <2>2. CASE i = n
    <3>1. Encoded(i)' = Done + k
      BY <1>3, <1>4, <2>2 DEF Encoded
    <3>2. at1[i] = at[n] /\ at[n] + j >= 1 /\ j \in 1 .. Done + k
      <4>1. n \in 1 .. n
        BY <1>4
      <4>2. at1[i] = at[n]
        BY <1>5, <2>2, <4>1
      <4> QED BY <1>11, <3>1, <4>2
    <3>3. wire'[at[n] + j] = FrameByte(q, j)
      BY <1>2, <1>15, <3>2, PutLast
    <3>4. Frame(i)' = q
      BY <1>4, <1>7, <2>2
    <3> QED BY <3>2, <3>3, <3>4
  <2>3. CASE i \in g .. Len(sent)
    <3>1. i \in 1 .. Len(sent) /\ i \in 1 .. n /\ i <= Len(sent)
          /\ i <= Len(sent') /\ i \in g .. n
      BY <1>1, <1>3, <1>4, <1>15, <2>3
    <3>2. Encoded(i)' = Encoded(i)
      BY <1>3, <3>1 DEF Encoded
    <3>3. at1[i] = at[i] /\ at[i] + j >= 1 /\ j \in 1 .. Encoded(i)
      BY <1>5, <1>11, <3>1, <3>2
    <3>4. wire'[at[i] + j] = FrameByte(Frame(i), j)
      BY <1>2, <1>14, <1>15, <3>1, <3>3, PutKeeps
    <3> QED BY <1>7, <3>1, <3>3, <3>4
  <2>4. i = n + 1 \/ i = n \/ i \in g .. Len(sent)
    <3>1. i \in g .. n + 1
      BY <1>11
    <3>2. PICK l \in Nat : l = Len(sent)
      BY <1>1
    <3>3. n = l + 1 /\ g \in Nat
      BY <1>4, <1>15, <3>2
    <3>4. i = n + 1 \/ i = n \/ i \in g .. l
      BY <3>1, <3>3
    <3> QED BY <3>2, <3>4
  <2> QED BY <2>1, <2>2, <2>3, <2>4
<1>12. Laid(at1)'
  <2>1. Len(got') + 1 = g /\ Len(sent') = n
    BY <1>3, <1>14
  <2> QED BY <1>8, <1>9, <1>10, <1>11, <2>1 DEF Laid
<1>13. Streaming(at1)'
  <2>1. at1[g] = at[g]
    BY <1>4, <1>5
  <2>6. Frame(g)' = Frame(g)
    BY <1>4, <1>7
  <2>2. Len(got') + 1 = g
    BY <1>3, <1>14
  <2>3. /\ at1[g] <= 0
        /\ at1[g] = 0 => rx' = FreshRx
    BY <1>2, <1>3, <2>1
  <2>4. DecoderInv(Frame(g)', rx', 0 - at1[g])
    BY <1>2, <1>3, <2>1, <2>6
  <2>5. Frame(Len(got) + 1)' = Frame(g)'
    BY <2>2 DEF Frame
  <2> QED BY <1>12, <2>2, <2>3, <2>4, <2>5 DEF Streaming
<1> QED BY <1>5, <1>13 DEF WireInv

-----------------------------------------------------------------------------
(* A step of the encoder, in its three ways to end.                        *)

PartSize == Len(Bytes(Current(store), PartName))
InPart(k) ==
  /\ offset + k < PartSize /\ offset' = offset + k
  /\ UNCHANGED <<store, part, encoded, sent>>
AtNextPart(k) ==
  /\ offset + k = PartSize /\ part + 1 < Len(Names(Current(store)))
  /\ offset' = 0 /\ part' = part + 1
  /\ UNCHANGED <<store, encoded, sent>>
AtEnd(k) ==
  /\ offset + k = PartSize /\ part + 1 = Len(Names(Current(store)))
  /\ offset' = 0 /\ part' = 0
  /\ encoded' = EncodeCount(Current(store).n)
  /\ sent' = Append(sent, Sent(Current(store)))
  /\ store' = IF ExpectsResponse(Current(store).kind) THEN MarkCurrent(store)
              ELSE DropCurrent(store)
Rest == UNCHANGED <<rx, queued, got, past, owned, causes>>

LEMMA EncodePuts ==
  ASSUME StreamInv, Encode
  PROVE  /\ HasCurrent(store) /\ Rest
         /\ \E k \in Nat \ {0} :
              /\ Put(k, Sent(Current(store)))
              /\ offset + k <= PartSize
              /\ InPart(k) \/ AtNextPart(k) \/ AtEnd(k)
<1> DEFINE p == Current(store)
           bytes == Bytes(p, PartName)
           start == StartOf(p, PartName)
<1>1. HasCurrent(store) /\ Rest
  BY DEF Encode, Rest
<1>2. PICK room \in 1 .. WireCapacity - Len(wire) :
        \E k \in Encodable(PartName, Len(bytes), room) :
          /\ wire' = wire \o SubSeq(bytes, offset + 1, offset + k)
          /\ InPart(k) \/ AtNextPart(k) \/ AtEnd(k)
  BY Zenon DEF Encode, PartName, InPart, AtNextPart, AtEnd, PartSize
<1>3. PICK k \in Encodable(PartName, Len(bytes), room) :
        /\ wire' = wire \o SubSeq(bytes, offset + 1, offset + k)
        /\ InPart(k) \/ AtNextPart(k) \/ AtEnd(k)
  BY <1>2
<1>4. EncoderInv /\ Numbers /\ wire \in Seq(Octets)
  BY DEF StreamInv
<1>5. /\ PartOK(p, part + 1) /\ Done = start + offset /\ start \in Nat
      /\ Len(bytes) \in Nat \ {0} /\ offset \in 0 .. Len(bytes) - 1
  BY <1>1, <1>4, CurrentFacts
<1>6. HasBytes(p, PartName, Len(bytes))
  BY <1>5 DEF PartOK, PartName
<1>7. /\ bytes \in Seq(Octets)
      /\ \A x \in 1 .. Len(bytes) : bytes[x] = FrameByte(Sent(p), start + x)
  BY <1>6 DEF HasBytes
<1>8. room \in Nat
  BY StreamAssumption, Ranges
<1>9. PartSize = Len(bytes)
  BY DEF PartSize
<1> HIDE DEF p, bytes, start
<1>10. k \in 1 .. Len(bytes) - offset
  <2>1. offset \in Nat /\ offset < Len(bytes) /\ Len(bytes) \in Nat
    BY <1>5
  <2> QED BY <1>8, <2>1, EncodableFacts
<1>11. k \in Nat \ {0} /\ offset \in Nat /\ offset + k <= Len(bytes)
  BY <1>5, <1>10
<1>12. Put(k, Sent(p))
  BY <1>3, <1>4, <1>5, <1>7, <1>11, PutFacts
<1> QED BY <1>1, <1>3, <1>9, <1>11, <1>12 DEF p

(* Within a packet.                                                        *)
LEMMA EncodeWithin ==
  ASSUME StreamInv, HasCurrent(store), Rest, NEW k \in Nat \ {0},
         Put(k, Sent(Current(store))), offset + k <= PartSize,
         InPart(k) \/ AtNextPart(k)
  PROVE  StreamInv'
<1> DEFINE p == Current(store)
           start == StartOf(p, PartName)
<1>1. EncoderInv /\ Numbers /\ sent \in Seq(Frames)
  BY DEF StreamInv, Numbers
<1>2. /\ p \in Packets /\ Fresh(p) /\ Len(Names(p)) \in Nat \ {0}
      /\ part + 1 \in 1 .. Len(Names(p)) /\ PartOK(p, part + 1)
      /\ Done = start + offset /\ start \in Nat
      /\ PartSize \in Nat \ {0} /\ offset \in 0 .. PartSize - 1
  BY <1>1, CurrentFacts DEF PartSize
<1>3. /\ \A i \in 1 .. Len(Names(p)) : PartOK(p, i)
      /\ part \in Nat
  BY <1>1, <1>2, PartFacts DEF EncoderInv
<1>4. /\ store' = store /\ encoded' = encoded /\ sent' = sent
      /\ rx' = rx /\ queued' = queued /\ got' = got
      /\ sent_before' = sent_before /\ got_before' = got_before
      /\ owned' = owned /\ causes' = causes
  BY DEF InPart, AtNextPart, Rest, past
<1>5. /\ \A x, name : Bytes(x, name)' = Bytes(x, name)
      /\ \A x, name : StartOf(x, name)' = StartOf(x, name)
  BY <1>4 DEF Bytes, StartOf, Sent
<1>6. HasCurrent(store)' /\ Current(store)' = p
  BY <1>4
<1>7. PartName = Names(p)[part + 1] /\ PartName' = Names(p)[part' + 1]
  BY <1>4 DEF PartName
<1>8. Done' = StartOf(p, PartName') + offset'
  <2>1. Done' = StartOf(p, PartName)' + offset'
    BY <1>6 DEF Done
  <2> QED BY <1>4, <2>1 DEF StartOf, Sent
<1>9. /\ part' \in Nat /\ offset' \in Nat /\ part' < Len(Names(p))
      /\ offset' < Len(Bytes(p, PartName')) /\ Done' = Done + k
  <2>1. CASE InPart(k)
    <3>1. /\ part' = part /\ offset' = offset + k /\ offset + k < PartSize
          /\ PartName' = PartName
      BY <1>7, <2>1 DEF InPart
    <3>2. Len(Bytes(p, PartName')) = PartSize
      BY <3>1 DEF PartSize
    <3>3. Done' = start + (offset + k)
      BY <1>8, <3>1
    <3> HIDE DEF start, p
    <3>4. Done' = Done + k
      BY <1>2, <3>3
    <3> QED BY <1>2, <1>3, <3>1, <3>2, <3>4
  <2>2. CASE AtNextPart(k)
    <3>1. /\ part' = part + 1 /\ offset' = 0 /\ offset + k = PartSize
          /\ part + 1 < Len(Names(p))
      BY <2>2 DEF AtNextPart
    <3>2. (part + 1) + 1 \in 1 .. Len(Names(p))
      BY <1>2, <1>3, <3>1
    <3>3. /\ PartOK(p, (part + 1) + 1)
          /\ PartName' = Names(p)[(part + 1) + 1]
      BY <1>3, <1>7, <3>1, <3>2
    <3>4. HasBytes(p, PartName', Len(Bytes(p, PartName')))
      BY <3>3 DEF PartOK
    <3>5. Len(Bytes(p, PartName')) \in Nat \ {0}
      BY <3>4 DEF HasBytes
    <3>6. StartOf(p, PartName') = start + PartSize
      BY <1>2, <1>7, <3>1, <3>3 DEF PartOK, PartSize
    <3>7. Done' = (start + (offset + k)) + 0
      BY <1>8, <3>1, <3>6
    <3> HIDE DEF start, p
    <3>8. Done' = Done + k
      BY <1>2, <3>7
    <3> QED BY <1>2, <1>3, <3>1, <3>5, <3>8
  <2> QED BY <2>1, <2>2
<1>10. EncoderInv'
  <2>1. Bytes(p, PartName)' = Bytes(p, PartName')
    BY <1>4 DEF Bytes
  <2>2. /\ WellFormed(store, Packets) /\ queued \in 0 .. NumPackets
    BY <1>1 DEF EncoderInv
  <2> QED BY <1>4, <1>6, <1>9, <2>1, <2>2 DEF EncoderInv
<1>11. Numbers'
  BY <1>1, <1>4 DEF Numbers
<1>12. WireInv' \/ rx.error # "NONE"
  <2> SUFFICES ASSUME rx.error = "NONE"
               PROVE  WireInv'
    OBVIOUS
  <2>1. PICK at \in [Nat -> Int] : Streaming(at)
    BY DEF StreamInv, WireInv
  <2>2. Sent(p) = Frame(Len(sent) + 1)
    <3>1. ~(Len(sent) + 1 <= Len(sent))
      BY <1>1, LenProperties
    <3> QED BY <3>1 DEF Frame
  <2>3. UNCHANGED <<store, encoded, sent, got, rx>>
    BY <1>4
  <2> QED BY <1>9, <2>1, <2>2, <2>3, PutGoesOn
<1>13. Matched' /\ Ownership'
  BY <1>4 DEF StreamInv, Matched, ReceivedIsSent, Ownership
<1>14. wire' \in Seq(Octets) /\ rx' \in RxTypes
  BY <1>4 DEF StreamInv, Put
<1> QED BY <1>4, <1>10, <1>11, <1>12, <1>13, <1>14 DEF StreamInv

(* The packet is sent, and marked or dropped.                              *)
LEMMA StoreAdvances ==
  ASSUME EncoderInv, Numbers, HasCurrent(store), NEW k, AtEnd(k)
  PROVE  /\ WellFormed(store', Packets)
         /\ \E was \in [Nat -> Nat] :
              /\ \A i, j \in 1 .. Count(store') : was[i] = was[j] => i = j
              /\ \A i \in 1 .. Count(store') :
                   /\ was[i] \in 1 .. Count(store)
                   /\ store'.entries[i] = store.entries[was[i]]
                   /\ i > store'.pos => was[i] > store.pos
                   /\ i > store'.pos \/ Current(store).kind = "PUBLISH_0" =>
                        was[i] # store.pos + 1
<1>1. /\ WellFormed(store, Packets) /\ store.pos \in Nat
      /\ Count(store) \in Nat /\ store.pos + 1 \in 1 .. Count(store)
  BY LenProperties DEF EncoderInv, WellFormed, HasCurrent, Count
<1>2. CASE ExpectsResponse(Current(store).kind)
  <2> DEFINE was == [i \in Nat |-> i]
  <2>1. store' = MarkCurrent(store)
    BY <1>2 DEF AtEnd
  <2>2. /\ WellFormed(store', Packets) /\ store'.entries = store.entries
        /\ store'.pos = store.pos + 1
    BY <1>1, <2>1, MarkCurrentLemma
  <2>3. Current(store).kind # "PUBLISH_0"
    BY <1>2 DEF ExpectsResponse
  <2>4. was \in [Nat -> Nat] /\ \A i \in 1 .. Count(store) : was[i] = i
    BY <1>1
  <2>5. Count(store') = Count(store)
    BY <2>2 DEF Count
  <2> HIDE DEF was
  <2>6. \A i, j \in 1 .. Count(store') : was[i] = was[j] => i = j
    BY <2>4, <2>5
  <2>7. ASSUME NEW i \in 1 .. Count(store')
        PROVE  /\ was[i] \in 1 .. Count(store)
               /\ store'.entries[i] = store.entries[was[i]]
               /\ i > store'.pos => was[i] > store.pos
               /\ i > store'.pos \/ Current(store).kind = "PUBLISH_0" =>
                    was[i] # store.pos + 1
    <3>1. was[i] = i /\ i \in 1 .. Count(store)
      BY <2>4, <2>5
    <3> QED BY <1>1, <2>2, <2>3, <3>1
  <2> QED BY <2>2, <2>4, <2>6, <2>7
<1>3. CASE ~ExpectsResponse(Current(store).kind)
  <2> DEFINE c == store.pos + 1
             was == [i \in Nat |-> IF i < c THEN i ELSE i + 1]
  <2>1. store' = PopAt(store, c)
    BY <1>3 DEF AtEnd, DropCurrent
  <2>2. /\ WellFormed(store', Packets)
        /\ Count(store') = Count(store) - 1
        /\ store'.pos = IF store.pos >= c THEN store.pos - 1 ELSE store.pos
        /\ \A j \in 1 .. Count(store) - 1 :
             store'.entries[j] =
               IF j < c THEN store.entries[j] ELSE store.entries[j + 1]
    BY <1>1, <2>1, PopAtLemma
  <2>3. store'.pos = store.pos
    BY <1>1, <2>2
  <2>4. /\ was \in [Nat -> Nat]
        /\ \A i \in Nat : was[i] = IF i < c THEN i ELSE i + 1
    OBVIOUS
  <2> HIDE DEF was
  <2>5. \A i, j \in 1 .. Count(store') : was[i] = was[j] => i = j
    BY <1>1, <2>2, <2>4
  <2>6. ASSUME NEW i \in 1 .. Count(store')
        PROVE  /\ was[i] \in 1 .. Count(store)
               /\ store'.entries[i] = store.entries[was[i]]
               /\ i > store'.pos => was[i] > store.pos
               /\ i > store'.pos \/ Current(store).kind = "PUBLISH_0" =>
                    was[i] # store.pos + 1
    <3>1. i \in 1 .. Count(store) - 1 /\ i \in Nat
      BY <1>1, <2>2
    <3>2. was[i] = IF i < c THEN i ELSE i + 1
      BY <2>4, <3>1
    <3>3. store'.entries[i] = store.entries[was[i]]
      BY <2>2, <3>1, <3>2
    <3> QED BY <1>1, <2>3, <3>1, <3>2, <3>3
  <2> QED BY <2>2, <2>4, <2>5, <2>6
<1> QED BY <1>2, <1>3

LEMMA PacketSent ==
  ASSUME StreamInv, NEW q \in Frames, sent' = Append(sent, q)
  PROVE  SentToo(q)
<1>1. sent \in Seq(Frames)
  BY DEF StreamInv, Numbers
<1>2. /\ Append(sent, q) \in Seq(Frames)
      /\ Len(Append(sent, q)) = Len(sent) + 1
      /\ Append(sent, q)[Len(sent) + 1] = q
      /\ \A i \in 1 .. Len(sent) : Append(sent, q)[i] = sent[i]
  BY <1>1, AppendProperties
<1> QED BY <1>2 DEF SentToo

LEMMA NumbersAdvance ==
  ASSUME StreamInv, HasCurrent(store), Rest, NEW k, AtEnd(k)
  PROVE  Numbers' /\ SentToo(Sent(Current(store)))
<1> DEFINE p == Current(store)
           q == Sent(p)
           c == store.pos + 1
<1>1. EncoderInv /\ Numbers /\ sent \in Seq(Frames) /\ queued \in Nat
  BY DEF StreamInv, Numbers, EncoderInv
<1>2. /\ p \in Packets /\ Fresh(p) /\ q \in Frames
      /\ q.n = p.n /\ q.kind = p.kind
      /\ q.dup = (p.kind \in PublishKinds /\ p.n \in encoded)
  <2>1. p \in Packets /\ Fresh(p)
    BY <1>1, CurrentFacts
  <2> QED BY <2>1, SentFacts
<1>3. sent' = Append(sent, q) /\ encoded' = encoded \cup {p.n}
  BY DEF AtEnd, EncodeCount
<1>4. SentToo(q)
  BY <1>2, <1>3, PacketSent
<1>5. queued' = queued /\ sent_before' = sent_before
      /\ got_before' = got_before
  BY DEF Rest, past
<1>6. c \in 1 .. Count(store) /\ c > store.pos /\ p = store.entries[c]
  BY <1>1, LenProperties
     DEF EncoderInv, WellFormed, HasCurrent, Count, Current
<1> HIDE DEF p, q, c
<1>7. /\ p.n <= queued
      /\ \A i \in 1 .. Len(sent) : sent[i].n # p.n
      /\ p.kind = "PUBLISH_0" => p.n \notin encoded
  BY <1>1, <1>6 DEF Numbers
<1>8. /\ sent_before \subseteq 1 .. queued /\ got_before \subseteq sent_before
      /\ encoded = sent_before \cup {sent[i].n : i \in 1 .. Len(sent)}
      /\ \A i \in 1 .. Len(sent) :
           /\ sent[i].n <= queued
           /\ sent[i].kind \in PublishKinds =>
                (sent[i].dup <=> sent[i].n \in sent_before)
  BY <1>1 DEF Numbers
<1>9. /\ sent' \in Seq(Frames) /\ Len(sent') = Len(sent) + 1
      /\ sent'[Len(sent) + 1] = q /\ Len(sent) \in Nat
      /\ \A i \in 1 .. Len(sent) : sent'[i] = sent[i]
  BY <1>1, <1>4, LenProperties DEF SentToo
<1>10. ASSUME NEW i \in 1 .. Len(sent')
       PROVE  i \in 1 .. Len(sent) \/ sent'[i] = q
  BY <1>9
<1>11. ASSUME NEW i \in 1 .. Len(sent')
       PROVE  /\ sent'[i].n <= queued
              /\ sent'[i].kind \in PublishKinds =>
                   (sent'[i].dup <=> sent'[i].n \in sent_before)
  <2>1. CASE i \in 1 .. Len(sent)
    BY <1>8, <1>9, <2>1
  <2>2. CASE sent'[i] = q
    <3>1. p.n \in encoded <=> p.n \in sent_before
      BY <1>7, <1>8
    <3> QED BY <1>2, <1>7, <2>2, <3>1
  <2> QED BY <1>10, <2>1, <2>2
<1>12. encoded' = sent_before \cup {sent'[i].n : i \in 1 .. Len(sent')}
  <2>1. {sent'[i].n : i \in 1 .. Len(sent')}
          = {sent[i].n : i \in 1 .. Len(sent)} \cup {p.n}
    <3>1. Len(sent) + 1 \in 1 .. Len(sent')
      BY <1>9
    <3>2. \A i \in 1 .. Len(sent) :
            i \in 1 .. Len(sent') /\ sent'[i] = sent[i]
      BY <1>9
    <3> QED BY <1>2, <1>9, <1>10, <3>1, <3>2
  <2> QED BY <1>3, <1>8, <2>1
<1>13. PICK was \in [Nat -> Nat] :
         /\ \A i, j \in 1 .. Count(store') : was[i] = was[j] => i = j
         /\ \A i \in 1 .. Count(store') :
              /\ was[i] \in 1 .. Count(store)
              /\ store'.entries[i] = store.entries[was[i]]
              /\ i > store'.pos => was[i] > store.pos
              /\ i > store'.pos \/ p.kind = "PUBLISH_0" => was[i] # c
  BY <1>1, StoreAdvances DEF p, c
<1>14. ASSUME NEW i \in 1 .. Count(store'), NEW j \in 1 .. Count(store'),
              store'.entries[i].n = store'.entries[j].n
       PROVE  i = j
  <2>1. store.entries[was[i]].n = store.entries[was[j]].n
    BY <1>13, <1>14
  <2>2. was[i] = was[j]
    BY <1>1, <1>13, <2>1 DEF Numbers
  <2> QED BY <1>13, <2>2
<1>15. ASSUME NEW i \in 1 .. Count(store')
       PROVE  /\ store'.entries[i].n <= queued
              /\ store'.entries[i].kind = "PUBLISH_0" =>
                   store'.entries[i].n \notin encoded'
              /\ i > store'.pos => \A j \in 1 .. Len(sent') :
                                     sent'[j].n # store'.entries[i].n
  <2>1. PICK o \in 1 .. Count(store) :
          /\ o = was[i] /\ store'.entries[i] = store.entries[o]
          /\ i > store'.pos => o > store.pos
          /\ i > store'.pos \/ p.kind = "PUBLISH_0" => o # c
    BY <1>13
  <2>2. /\ store.entries[o].n <= queued
        /\ store.entries[o].kind = "PUBLISH_0" =>
             store.entries[o].n \notin encoded
        /\ o > store.pos =>
             \A j \in 1 .. Len(sent) : sent[j].n # store.entries[o].n
    BY <1>1 DEF Numbers
  <2>3. o # c => store.entries[o].n # p.n
    BY <1>1, <1>6 DEF Numbers
  <2>4. ASSUME store.entries[o].kind = "PUBLISH_0"
        PROVE  o # c
    BY <1>6, <2>1, <2>4
  <2>5. ASSUME i > store'.pos, NEW j \in 1 .. Len(sent')
        PROVE  sent'[j].n # store.entries[o].n
    BY <1>2, <1>9, <1>10, <2>1, <2>2, <2>3, <2>5
  <2> QED BY <1>3, <2>1, <2>2, <2>3, <2>4, <2>5
<1>16. Numbers'
  BY <1>5, <1>8, <1>9, <1>11, <1>12, <1>14, <1>15 DEF Numbers
<1> QED BY <1>4, <1>16 DEF p, q

LEMMA EncodeEnds ==
  ASSUME StreamInv, HasCurrent(store), Rest, NEW k \in Nat \ {0},
         Put(k, Sent(Current(store))), AtEnd(k)
  PROVE  StreamInv'
<1> DEFINE p == Current(store)
           q == Sent(p)
<1>1. EncoderInv /\ Numbers /\ sent \in Seq(Frames)
  BY DEF StreamInv, Numbers
<1>2. /\ q \in Frames /\ PartOK(p, part + 1)
      /\ Done = StartOf(p, PartName) + offset /\ StartOf(p, PartName) \in Nat
      /\ offset \in Nat
  <2>1. /\ q \in Frames /\ PartOK(p, part + 1)
        /\ Done = StartOf(p, PartName) + offset
        /\ StartOf(p, PartName) \in Nat
    BY <1>1, CurrentFacts
  <2> QED BY <1>1, <2>1 DEF EncoderInv
<1>3. Numbers' /\ SentToo(q)
  BY NumbersAdvance
<1>4. /\ rx' = rx /\ queued' = queued /\ got' = got
      /\ owned' = owned /\ causes' = causes
  BY DEF Rest
<1>5. (EncoderInv /\ Done = 0)'
  <2>1. WellFormed(store', Packets)
    BY <1>1, StoreAdvances
  <2>2. part' = 0 /\ offset' = 0
    BY DEF AtEnd
  <2>3. queued \in 0 .. NumPackets
    BY <1>1 DEF EncoderInv
  <2>4. AtStart'
    BY <1>3, <1>4, <2>1, <2>2, <2>3 DEF AtStart
  <2> QED BY <2>4, StartsAnew, PTL
<1>6. Done + k = FrameSize(q)
  <2>1. StartOf(p, PartName) + PartSize = FrameSize(q)
    <3>1. part + 1 = Len(Names(p))
      BY DEF AtEnd
    <3> QED BY <1>2, <3>1 DEF PartOK, PartSize, PartName
  <2>2. offset + k = PartSize
    BY DEF AtEnd
  <2>3. Done + k = StartOf(p, PartName) + (offset + k)
    <3>1. PICK s \in Nat : s = StartOf(p, PartName)
      BY <1>2
    <3>2. Done = s + offset
      BY <1>2, <3>1
    <3>3. (s + offset) + k = s + (offset + k)
      BY <1>2
    <3> QED BY <3>1, <3>2, <3>3
  <2> QED BY <2>1, <2>2, <2>3
<1>7. WireInv' \/ rx.error # "NONE"
  <2> SUFFICES ASSUME rx.error = "NONE"
               PROVE  WireInv'
    OBVIOUS
  <2>1. PICK at \in [Nat -> Int] : Streaming(at)
    BY DEF StreamInv, WireInv
  <2>2. q = Frame(Len(sent) + 1)
    <3>1. ~(Len(sent) + 1 <= Len(sent))
      BY <1>1, LenProperties
    <3> QED BY <3>1 DEF Frame
  <2>3. UNCHANGED <<got, rx>> /\ Done' = 0
    BY <1>4, <1>5
  <2>4. Put(k, q)
    OBVIOUS
  <2> HIDE DEF q, p
  <2> QED BY <1>2, <1>3, <1>6, <2>1, <2>2, <2>3, <2>4, PutEnds
<1> HIDE DEF q, p
<1>8. Matched'
  <2>1. /\ Len(sent') = Len(sent) + 1 /\ Len(sent) \in Nat
        /\ \A i \in 1 .. Len(sent) : sent'[i] = sent[i]
    BY <1>1, <1>3, LenProperties DEF SentToo
  <2>2. got \in Seq(Messages) /\ ReceivedIsSent /\ Len(got) \in Nat
    BY LenProperties DEF StreamInv, Matched
  <2>3. Len(got) <= Len(sent')
    BY <2>1, <2>2 DEF ReceivedIsSent
  <2>4. \A i \in 1 .. Len(got) : sent'[i] = sent[i]
    BY <2>1, <2>2 DEF ReceivedIsSent
  <2> QED BY <1>4, <2>2, <2>3, <2>4 DEF Matched, ReceivedIsSent
<1>9. Ownership' /\ wire' \in Seq(Octets) /\ rx' \in RxTypes
  BY <1>4 DEF StreamInv, Ownership, Put
<1> QED BY <1>3, <1>4, <1>5, <1>7, <1>8, <1>9 DEF StreamInv

LEMMA EncodeStep ==
  ASSUME StreamInv, Encode
  PROVE  StreamInv'
<1>1. /\ HasCurrent(store) /\ Rest
      /\ \E k \in Nat \ {0} :
           /\ Put(k, Sent(Current(store))) /\ offset + k <= PartSize
           /\ InPart(k) \/ AtNextPart(k) \/ AtEnd(k)
  BY EncodePuts
<1>2. PICK k \in Nat \ {0} :
        /\ Put(k, Sent(Current(store))) /\ offset + k <= PartSize
        /\ InPart(k) \/ AtNextPart(k) \/ AtEnd(k)
  BY <1>1
<1>3. CASE InPart(k) \/ AtNextPart(k)
  BY <1>1, <1>2, <1>3, EncodeWithin
<1>4. CASE AtEnd(k)
  BY <1>1, <1>2, <1>4, EncodeEnds
<1> QED BY <1>2, <1>3, <1>4

-----------------------------------------------------------------------------
(* The theorems.                                                           *)

LEMMA NextStream == StreamInv /\ [Next]_vars => StreamInv'
<1> SUFFICES ASSUME StreamInv, [Next]_vars
             PROVE  StreamInv'
  OBVIOUS
<1>1. CASE Queue
  BY <1>1, QueueStep
<1>2. CASE Encode
  BY <1>2, EncodeStep
<1>3. CASE Acknowledge
  BY <1>3, AcknowledgeStep
<1>4. CASE Decode
  BY <1>4, DecodeStep
<1>5. CASE Break
  BY <1>5, BreakStep
<1>6. CASE UNCHANGED vars
  <2>1. /\ UNCHANGED <<tx, queued, sent, past>>
        /\ wire' = wire /\ rx' = rx /\ got' = got /\ sent' = sent
        /\ owned' = owned /\ causes' = causes
    BY <1>6 DEF vars
  <2>2. store' = store /\ part' = part /\ offset' = offset
        /\ encoded' = encoded
    BY <2>1 DEF tx
  <2>3. EncoderInv' /\ Numbers'
    BY <2>1, EncoderRests DEF StreamInv
  <2>4. WireInv' \/ rx.error # "NONE"
    <3> SUFFICES ASSUME rx.error = "NONE"
                 PROVE  WireInv'
      OBVIOUS
    <3>1. PICK at \in [Nat -> Int] : Streaming(at)
      BY DEF StreamInv, WireInv
    <3>2. Sent(Current(store))' = Sent(Current(store))
      BY <2>2 DEF Sent
    <3>3. Done' = Done
      BY <2>2 DEF Done, PartName, StartOf, Sent
    <3>4. UNCHANGED <<wire, rx, sent, got>>
      BY <2>1
    <3> QED BY <3>1, <3>2, <3>3, <3>4, SameWire
  <2>5. Matched' /\ Ownership'
    BY <2>1 DEF StreamInv, Matched, ReceivedIsSent, Ownership
  <2>6. wire' \in Seq(Octets) /\ rx' \in RxTypes
    BY <2>1 DEF StreamInv
  <2> QED BY <2>1, <2>3, <2>4, <2>5, <2>6 DEF StreamInv
<1> QED BY <1>1, <1>2, <1>3, <1>4, <1>5, <1>6 DEF Next

(* Wherever the bytes are cut and whatever the strings and the application *)
(* answer, every byte in the wire is that byte of that packet, and encoder *)
(* and decoder are where their states say.                                 *)
THEOREM StreamInvariant == Spec => []StreamInv
BY InitStream, NextStream, PTL DEF Spec

(* lmqtt_rx_buffer_decode gives the application the packets that           *)
(* lmqtt_tx_buffer_encode was given, in that order and byte for byte.      *)
THEOREM StreamIsFaithful == Spec => []ReceivedIsSent
<1>1. StreamInv => ReceivedIsSent
  BY DEF StreamInv, Matched
<1> QED BY <1>1, StreamInvariant, PTL

(* fixed_header_decode and rx_buffer_decode_publish find no fault with     *)
(* what the encoder has written.                                           *)
THEOREM NoFaultFound == Spec => []NoDecodeError
<1>1. StreamInv => NoDecodeError
  BY DEF StreamInv, RxTypes, NoDecodeError
<1> QED BY <1>1, StreamInvariant, PTL

(* A message that comes again has DUP, which tx_buffer_finder_publish      *)
(* takes from encode_count, and one that has never been sent in full over  *)
(* an earlier connection has not.                                          *)
THEOREM DupIsExact == Spec => []DupIsHonest
<1>1. StreamInv => DupIsHonest
  <2> SUFFICES ASSUME StreamInv, NEW i \in 1 .. Smaller(Len(got), Len(sent)),
                      IsPublish(got[i].kind)
               PROVE  /\ sent[i].n \in got_before => got[i].dup
                      /\ got[i].dup => sent[i].n \in sent_before
    BY DEF DupIsHonest
  <2>1. i \in 1 .. Len(got) /\ i \in 1 .. Len(sent)
    BY Ranges DEF Smaller
  <2>2. got[i].kind = sent[i].kind /\ got[i].dup = sent[i].dup
    BY <2>1 DEF StreamInv, Matched, ReceivedIsSent
  <2>3. sent[i].kind \in PublishKinds
    BY <2>2, KindsOfPackets
  <2>4. /\ got_before \subseteq sent_before
        /\ sent[i].dup <=> sent[i].n \in sent_before
    BY <2>1, <2>3 DEF StreamInv, Numbers
  <2> QED BY <2>2, <2>4
<1> QED BY <1>1, StreamInvariant, PTL

(* The string that rx_buffer_allocate_write has taken of the application   *)
(* is one at most, and is given back (on_publish_deallocate) before the    *)
(* next packet begins or when decoding fails, unless one of the three      *)
(* exceptions has happened: again, ignored, reset.                         *)
THEOREM StringsComeBack == Spec => []OwnedIsReturned
<1>1. StreamInv => OwnedIsReturned
  <2> SUFFICES ASSUME StreamInv, causes = {}
               PROVE  /\ \A s \in StringParts : owned[s] \in 0 .. 1
                      /\ ~rx.started \/ rx.error # "NONE" =>
                           \A s \in StringParts : owned[s] = 0
    BY DEF OwnedIsReturned
  <2>1. /\ rx.error # "NONE" => rx.has = {}
        /\ \A s \in StringParts : owned[s] = (IF s \in rx.has THEN 1 ELSE 0)
    BY DEF StreamInv, Ownership, Owns
  <2>2. ASSUME ~rx.started, rx.error = "NONE"
        PROVE  rx.has = {}
    <3>1. PICK at \in [Nat -> Int] : Streaming(at)
      BY <2>2 DEF StreamInv, WireInv
    <3>2. rx = FreshRx
      BY <2>2, <3>1 DEF Streaming, DecoderInv, Body, Headed
    <3> QED BY <3>2 DEF FreshRx
  <2>3. \A s \in StringParts : owned[s] = 0 \/ owned[s] = 1
    BY <2>1
  <2>4. \A s \in StringParts : owned[s] \in 0 .. 1
    BY <2>3
  <2>5. rx.has = {} => \A s \in StringParts : owned[s] = 0
    BY <2>1
  <2> QED BY <2>1, <2>2, <2>4, <2>5
<1> QED BY <1>1, StreamInvariant, PTL
=============================================================================
