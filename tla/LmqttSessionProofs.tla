------------------------- MODULE LmqttSessionProofs -------------------------
(***************************************************************************)
(* The client, its broker and the connections between them: what a session *)
(* that outlives its connections promises, for every number of messages,   *)
(* packet ids, breaks and losses of the broker's memory, and every size of *)
(* the stores.                                                             *)
(*                                                                         *)
(* Every step is first shown to be one of the few things that SessionStep  *)
(* says of the stores, the queues of the network and the broker; the       *)
(* invariants below are preserved by these, and never look at the actions. *)
(***************************************************************************)
EXTENDS LmqttSession, LmqttRequestProofs

-----------------------------------------------------------------------------
(* Packets in a queue: one of a set S is in it; none of S precedes one of  *)
(* T.                                                                      *)
Has(q, S) == \E i \in 1 .. Len(q) : q[i] \in S
NoneBefore(q, S, T) ==
  \A i, j \in 1 .. Len(q) : i < j /\ q[i] \in S => q[j] \notin T

LEMMA TailFacts ==
  ASSUME NEW E, NEW q \in Seq(E), q # <<>>
  PROVE  /\ Tail(q) \in Seq(E) /\ Len(q) \in Nat /\ Len(q) >= 1
         /\ Len(Tail(q)) = Len(q) - 1
         /\ \A i \in 1 .. Len(q) - 1 : Tail(q)[i] = q[i + 1]
         /\ Head(q) = q[1] /\ Head(q) \in E
OBVIOUS

LEMMA AppendFacts ==
  ASSUME NEW E, NEW q \in Seq(E), NEW e \in E
  PROVE  /\ Append(q, e) \in Seq(E) /\ Len(q) \in Nat
         /\ Len(Append(q, e)) = Len(q) + 1
         /\ \A i \in 1 .. Len(q) : Append(q, e)[i] = q[i]
         /\ Append(q, e)[Len(q) + 1] = e
OBVIOUS

LEMMA HasEmpty ==
  ASSUME NEW S, NEW T
  PROVE  ~Has(<<>>, S) /\ NoneBefore(<<>>, S, T)
BY DEF Has, NoneBefore

LEMMA HasTail ==
  ASSUME NEW E, NEW q \in Seq(E), q # <<>>, NEW S
  PROVE  Has(q, S) <=> Head(q) \in S \/ Has(Tail(q), S)
<1>1. /\ Len(q) \in Nat /\ Len(q) >= 1 /\ Len(Tail(q)) = Len(q) - 1
      /\ \A i \in 1 .. Len(q) - 1 : Tail(q)[i] = q[i + 1]
      /\ Head(q) = q[1]
  BY TailFacts
<1>2. ASSUME NEW i \in 1 .. Len(q), q[i] \in S
      PROVE  Head(q) \in S \/ Has(Tail(q), S)
  <2>1. CASE i = 1
    BY <1>1, <1>2, <2>1
  <2>2. CASE i # 1
    <3>1. i - 1 \in 1 .. Len(Tail(q)) /\ Tail(q)[i - 1] = q[i]
      BY <1>1, <2>2
    <3> QED BY <1>2, <3>1 DEF Has
  <2> QED BY <2>1, <2>2
<1>3. ASSUME NEW i \in 1 .. Len(Tail(q)), Tail(q)[i] \in S
      PROVE  Has(q, S)
  <2>1. i + 1 \in 1 .. Len(q) /\ q[i + 1] \in S
    BY <1>1, <1>3
  <2> QED BY <2>1 DEF Has
<1>4. Head(q) \in S => Has(q, S)
  BY <1>1 DEF Has
<1> QED BY <1>2, <1>3, <1>4, Zenon DEF Has

LEMMA HasAppend ==
  ASSUME NEW E, NEW q \in Seq(E), NEW e \in E, NEW S
  PROVE  Has(Append(q, e), S) <=> Has(q, S) \/ e \in S
<1>1. /\ Len(q) \in Nat /\ Len(Append(q, e)) = Len(q) + 1
      /\ \A i \in 1 .. Len(q) : Append(q, e)[i] = q[i]
      /\ Append(q, e)[Len(q) + 1] = e
  BY AppendFacts
<1> DEFINE p == Append(q, e)
<1> HIDE DEF p
<1>2. /\ Len(q) \in Nat /\ Len(p) = Len(q) + 1
      /\ \A i \in 1 .. Len(q) : p[i] = q[i]
      /\ p[Len(q) + 1] = e
  BY <1>1 DEF p
<1>3. Has(p, S) <=> Has(q, S) \/ e \in S
  BY <1>2 DEF Has
<1> QED BY <1>3 DEF p

LEMMA NoneBeforeTail ==
  ASSUME NEW E, NEW q \in Seq(E), q # <<>>, NEW S, NEW T
  PROVE  /\ NoneBefore(q, S, T) => NoneBefore(Tail(q), S, T)
         /\ NoneBefore(q, S, T) /\ Head(q) \in S => ~Has(Tail(q), T)
<1> DEFINE p == Tail(q)
<1>1. /\ Len(q) \in Nat /\ Len(q) >= 1 /\ Len(p) = Len(q) - 1
      /\ \A i \in 1 .. Len(q) - 1 : p[i] = q[i + 1]
      /\ Head(q) = q[1]
  BY TailFacts
<1> HIDE DEF p
<1>2. ASSUME NoneBefore(q, S, T),
             NEW i \in 1 .. Len(p), NEW j \in 1 .. Len(p),
             i < j, p[i] \in S
      PROVE  p[j] \notin T
  <2>1. /\ i + 1 \in 1 .. Len(q) /\ j + 1 \in 1 .. Len(q) /\ i + 1 < j + 1
        /\ q[i + 1] = p[i] /\ q[j + 1] = p[j]
    BY <1>1, <1>2
  <2> QED BY <1>2, <2>1, Zenon DEF NoneBefore
<1>3. ASSUME NoneBefore(q, S, T), Head(q) \in S, NEW j \in 1 .. Len(p)
      PROVE  p[j] \notin T
  <2>1. /\ 1 \in 1 .. Len(q) /\ j + 1 \in 1 .. Len(q) /\ 1 < j + 1
        /\ q[1] \in S /\ q[j + 1] = p[j]
    BY <1>1, <1>3
  <2> QED BY <1>3, <2>1, Zenon DEF NoneBefore
<1> QED BY <1>2, <1>3, Zenon DEF NoneBefore, Has, p

LEMMA NoneBeforeAppend ==
  ASSUME NEW E, NEW q \in Seq(E), NEW e \in E, NEW S, NEW T,
         NoneBefore(q, S, T), ~(Has(q, S) /\ e \in T)
  PROVE  NoneBefore(Append(q, e), S, T)
<1> DEFINE p == Append(q, e)
<1>1. /\ Len(q) \in Nat /\ Len(p) = Len(q) + 1
      /\ \A i \in 1 .. Len(q) : p[i] = q[i]
      /\ p[Len(q) + 1] = e
  BY AppendFacts
<1> HIDE DEF p
<1>2. ASSUME NEW i \in 1 .. Len(p), NEW j \in 1 .. Len(p), i < j, p[i] \in S,
             p[j] \in T
      PROVE  FALSE
  <2>1. i \in 1 .. Len(q) /\ q[i] \in S
    BY <1>1, <1>2
  <2>2. CASE j \in 1 .. Len(q)
    BY <1>1, <1>2, <2>1, <2>2 DEF NoneBefore
  <2>3. CASE j = Len(q) + 1
    BY <1>1, <1>2, <2>1, <2>3 DEF Has
  <2> QED BY <1>1, <2>2, <2>3
<1> QED BY <1>2, Zenon DEF NoneBefore, p

-----------------------------------------------------------------------------
(* What the stores and the queues hold.                                    *)
AckKinds == {"PUBACK", "PUBREC", "PUBCOMP"}
ConnectEntry == Entry("CONNECT", 0, None)

(* The entries of main_store: requests, and acknowledgements.              *)
CarriedEntries ==
  {e \in Entries :
     \/ e.kind \in RequestCarriers /\ e.id \in Ids /\ e.val \in Requests
     \/ e.kind \in AckKinds /\ e.id \in InboundIds /\ e.val = None}
Outgoing == CarriedEntries \cup {ConnectEntry}

Responses ==
  [type: {"response"}, kind: ResponseKinds \ {"CONNECT"}, id: Ids, msg: {None}]
    \cup {Response(ConnectEntry)}
Incoming ==
  Responses
    \cup [type: {"publish"}, kind: {1, 2}, id: InboundIds, msg: Inbound]
    \cup [type: {"pubrel"}, kind: {2}, id: InboundIds, msg: Inbound]

Awaited(e) == e.kind \in ResponseKinds \ {"CONNECT"}
AnswersRequest(p) == p.type = "response" /\ p.kind # "CONNECT"

Stages == {"new", "sent", "released", "done", "lost"}
OnItsWay(m) == out[m].st \in {"sent", "released"}

OutTypes ==
  /\ out \in [Inbound -> [st: Stages, qos: 0 .. 2, id: Nat]]
  /\ \A m \in Inbound :
       /\ out[m].st # "new" =>
            out[m].qos \in {1, 2} /\ out[m].id \in InboundIds
       /\ out[m].st = "released" => out[m].qos = 2
  /\ \A m, n \in Inbound :
       m # n /\ OnItsWay(m) /\ OnItsWay(n) => out[m].id # out[n].id

QueueTypes ==
  /\ WellFormed(main_store, CarriedEntries)
  /\ WellFormed(connect_store, {ConnectEntry})
  /\ write_buf \in Seq(Outgoing) /\ c2b \in Seq(Outgoing)
  /\ b2c \in Seq(Incoming)
  /\ ~up => c2b = <<>> /\ b2c = <<>>

BrokerTypes ==
  /\ up \in BOOLEAN /\ greeted \in BOOLEAN
  /\ srv_ids \subseteq Ids /\ on_wire \subseteq Inbound
  /\ log \in Seq(Requests) /\ forgets \in Nat
  /\ stale \subseteq InboundIds
  /\ got \in [Inbound -> Nat]
  /\ kind_of \in [Requests -> SessionKinds \cup {"NONE"}]

(* No session is clean, no client is finalized, and of a connection that   *)
(* is up the decoder holds a CONNECT or a SUBSCRIBE at most: the one whose *)
(* CONNACK or SUBACK has only begun.                                       *)
Halves ==
  {NoEntry, ConnectEntry} \cup {e \in CarriedEntries : e.kind = "SUBSCRIBE"}
ClientFlags ==
  /\ ~clean_session /\ ~connect_clean /\ error # "CLOSED"
  /\ ~closed => rx_value \in Halves /\ ~tx_closed
  /\ requests_enabled => ~closed

(* A connection begins with nothing but its CONNECT, which is encoded,     *)
(* sent and answered before anything else is.                              *)
Dialing == up /\ current = "connect" /\ ~closed
JustConnect(w, c, b, pos) ==
  /\ connect_store.entries = <<ConnectEntry>> /\ connect_store.pos = pos
  /\ write_buf = w /\ c2b = c /\ b2c = b /\ ~greeted
AwaitingConnack ==
  /\ connect_store.entries = <<ConnectEntry>> /\ connect_store.pos = 1
  /\ write_buf = <<>> /\ c2b = <<>> /\ greeted
  /\ b2c # <<>> /\ Head(b2c) = Response(ConnectEntry)
  /\ ~Has(Tail(b2c), Responses)
HalfConnack ==
  /\ connect_store = EmptyStore
  /\ write_buf = <<>> /\ c2b = <<>> /\ greeted
  /\ ~Has(b2c, Responses)
DialPhase ==
  \/ JustConnect(<<>>, <<>>, <<>>, 0)
  \/ JustConnect(<<ConnectEntry>>, <<>>, <<>>, 1)
  \/ JustConnect(<<>>, <<ConnectEntry>>, <<>>, 1)
  \/ AwaitingConnack
  \/ HalfConnack
Greeted ==
  /\ greeted
  /\ write_buf \in Seq(CarriedEntries) /\ c2b \in Seq(CarriedEntries)
  /\ ~Has(b2c, {Response(ConnectEntry)})
Phases ==
  /\ Dialing => DialPhase
  /\ up /\ current = "main" => Greeted

(* The requests under way, as packets to the broker or as responses to the *)
(* client, are marked entries of main_store, in the same order: a packet   *)
(* is linked to the position of its entry, others to 0.                    *)
LinkedTo(q, f, s) ==
  \A i \in 1 .. Len(q) :
    /\ f[i] # 0 => f[i] <= s.pos /\ q[i] = s.entries[f[i]]
    /\ Awaited(q[i]) => f[i] # 0
AnswersTo(q, f, s) ==
  \A i \in 1 .. Len(q) :
    /\ f[i] # 0 => /\ f[i] <= s.pos
                   /\ q[i].kind = s.entries[f[i]].kind
                   /\ q[i].id = s.entries[f[i]].id
    /\ AnswersRequest(q[i]) => f[i] # 0
Rising(f) ==
  \A i, j \in 1 .. Len(f) : i < j /\ f[i] # 0 /\ f[j] # 0 => f[i] < f[j]
Below(f, g) ==
  \A i \in 1 .. Len(f), j \in 1 .. Len(g) :
    f[i] # 0 /\ g[j] # 0 => f[i] < g[j]
Links(b, c, w, s, fb, fc, fw) ==
  /\ fb \in Seq(Nat) /\ fc \in Seq(Nat) /\ fw \in Seq(Nat)
  /\ Len(fb) = Len(b) /\ Len(fc) = Len(c) /\ Len(fw) = Len(w)
  /\ AnswersTo(b, fb, s) /\ LinkedTo(c, fc, s) /\ LinkedTo(w, fw, s)
  /\ Rising(fb) /\ Rising(fc) /\ Rising(fw)
  /\ Below(fb, fc) /\ Below(fb, fw) /\ Below(fc, fw)
LinkedBy(b, c, w, s) == \E fb, fc, fw : Links(b, c, w, s, fb, fc, fw)
Linked == up => LinkedBy(b2c, c2b, write_buf, main_store)

SessionInv ==
  /\ RequestInv /\ ClientFlags /\ QueueTypes /\ OutTypes /\ BrokerTypes
  /\ Phases /\ Linked

-----------------------------------------------------------------------------
(* What a step may do.                                                     *)
Ours  == <<main_store, write_buf, id_set, calls, accepted>>
Where == <<current, closed, connect_store>>
Wires == <<up, c2b, b2c>>

(* The application opens a connection, makes a request, or gives up; the   *)
(* client notices a break, or believes that there is one; or the rest of a *)
(* SUBACK arrives, and the callback it has waited for is called.           *)
Halved == IF ~closed /\ rx_value.kind = "SUBSCRIBE" THEN {rx_value.val} ELSE {}

Opens ==
  /\ current = "connect" /\ current' = "connect" /\ closed' = FALSE
  /\ connect_store' = [entries |-> <<ConnectEntry>>, pos |-> 0]
  /\ write_buf' = <<>> /\ up' = TRUE /\ c2b' = <<>> /\ b2c' = <<>>
  /\ greeted' = FALSE /\ on_wire' = {}
  /\ UNCHANGED <<main_store, id_set, calls, accepted, srv_ids, out, log,
                 lost, got, kind_of>>

Accepts(e) ==
  /\ current = "main" /\ ~closed
  /\ accepted < NumRequests /\ accepted' = accepted + 1
  /\ e \in CarriedEntries /\ e.kind \in SessionKinds /\ e.val = accepted + 1
  /\ main_store' = Appended(main_store, e)
  /\ kind_of' = [kind_of EXCEPT ![accepted + 1] = e.kind]
  /\ UNCHANGED <<write_buf, id_set, calls, Where, Wires, broker, got>>

Stops ==
  /\ UNCHANGED <<main_store, write_buf, id_set, accepted, Wires, broker, got,
                 kind_of>>
  /\ calls' \in {calls, Reported(calls, Halved, TRUE)}
  /\ \/ UNCHANGED Where
     \/ /\ closed' = TRUE /\ current' \in {current, "connect"}
        /\ connect_store' \in {connect_store, EmptyStore}

(* The client encodes a packet and writes it to the network.               *)
EncodesConnect ==
  /\ current = "connect" /\ ~closed /\ HasCurrent(connect_store)
  /\ Current(connect_store) = ConnectEntry
  /\ write_buf' = Append(write_buf, ConnectEntry)
  /\ connect_store' = MarkCurrent(connect_store)
  /\ UNCHANGED <<main_store, id_set, calls, accepted, current, closed,
                 Wires, broker, got, kind_of>>

Encodes(e) ==
  /\ current = "main" /\ ~closed
  /\ HasCurrent(main_store) /\ e = Current(main_store)
  /\ write_buf' = Append(write_buf, e)
  /\ main_store' = IF Awaited(e) THEN MarkCurrent(main_store)
                                 ELSE DropCurrent(main_store)
  /\ calls' = IF e.kind = "PUBLISH_0" THEN Reported(calls, {e.val}, TRUE)
                                      ELSE calls
  /\ UNCHANGED <<id_set, accepted, current, connect_store, Wires, broker,
                 got, kind_of>>

Sends ==
  /\ up /\ ~closed /\ write_buf # <<>>
  /\ write_buf' = Tail(write_buf) /\ c2b' = Append(c2b, Head(write_buf))
  /\ UNCHANGED <<main_store, id_set, calls, accepted, Where, up, b2c,
                 broker, got, kind_of>>

(* The client receives a packet.                                           *)
Takes(p) ==
  /\ up /\ ~closed /\ b2c # <<>> /\ p = Head(b2c) /\ b2c' = Tail(b2c)
  /\ UNCHANGED <<write_buf, accepted, up, c2b, broker, kind_of>>

TakesConnack ==
  /\ Takes(Response(ConnectEntry)) /\ AwaitingConnack
  /\ current = "connect" /\ current' = "main"
  /\ main_store' = UnmarkAll(main_store) /\ connect_store' = EmptyStore
  /\ UNCHANGED <<id_set, calls, got>>

(* It may arrive in two parts.                                             *)
BeginsConnack ==
  /\ Takes(Response(ConnectEntry)) /\ AwaitingConnack
  /\ current = "connect" /\ current' = "connect"
  /\ connect_store' = EmptyStore
  /\ UNCHANGED <<main_store, id_set, calls, closed, got>>
EndsConnack ==
  /\ up /\ ~closed /\ HalfConnack
  /\ current = "connect" /\ current' = "main"
  /\ main_store' = UnmarkAll(main_store) /\ connect_store' = EmptyStore
  /\ UNCHANGED <<write_buf, id_set, calls, accepted, Wires, broker, got,
                 kind_of>>

(* An answer takes the entry of its request out of the store; the callback *)
(* of a message waits for the PUBCOMP, that of a SUBSCRIBE perhaps for the *)
(* rest of the SUBACK.                                                     *)
Settled(s, k) ==
  IF s.entries[k].kind = "PUBLISH_2"
    THEN Appended(PopAt(s, k), PubrelFor(s.entries[k])) ELSE PopAt(s, k)
IsAnswer(s, k, p) ==
  /\ k \in 1 .. s.pos /\ s.entries[k].kind = p.kind /\ s.entries[k].id = p.id
  /\ \A j \in 1 .. s.pos :
       s.entries[j].kind = p.kind /\ s.entries[j].id = p.id => k <= j
GetsResponse(p, k) ==
  /\ Takes(p) /\ current = "main" /\ current' = "main"
  /\ AnswersRequest(p) /\ IsAnswer(main_store, k, p)
  /\ main_store' = Settled(main_store, k)
  /\ calls' \in {calls, Reported(calls, {main_store.entries[k].val}, TRUE)}
  /\ UNCHANGED <<connect_store, id_set, got>>

Acknowledging(kind, id) ==
  IF IsQueueable(main_store, Capacity)
    THEN Appended(main_store, Entry(kind, id, None)) ELSE main_store
GetsPublish(p) ==
  /\ Takes(p) /\ current = "main" /\ current' = "main" /\ p.type = "publish"
  /\ main_store' =
       Acknowledging(IF p.kind = 1 THEN "PUBACK" ELSE "PUBREC", p.id)
  /\ id_set' = IF Delivers(p.kind, p.id) /\ p.kind = 2
                 THEN id_set \cup {p.id} ELSE id_set
  /\ got' = IF Delivers(p.kind, p.id)
              THEN [got EXCEPT ![p.msg] = @ + 1] ELSE got
  /\ UNCHANGED <<connect_store, calls>>
GetsPubrel(p) ==
  /\ Takes(p) /\ current = "main" /\ current' = "main" /\ p.type = "pubrel"
  /\ main_store' = Acknowledging("PUBCOMP", p.id)
  /\ id_set' = id_set \ {p.id}
  /\ UNCHANGED <<connect_store, calls, got>>

(* The network, and the broker's memory.                                   *)
Breaks ==
  /\ up /\ up' = FALSE /\ c2b' = <<>> /\ b2c' = <<>>
  /\ UNCHANGED <<Ours, Where, broker, got, kind_of>>

Forgets ==
  /\ ~up /\ forgets' = forgets + 1 /\ srv_ids' = {}
  /\ out' = [m \in Inbound |->
               IF OnItsWay(m) THEN [out[m] EXCEPT !.st = "lost"] ELSE out[m]]
  /\ stale' = stale \cup id_set \cup StalePubrecs
  /\ UNCHANGED <<Ours, Where, Wires, greeted, on_wire, log, got, kind_of>>

(* The broker receives a packet ...                                        *)
BrokerTakes(p) ==
  /\ up /\ c2b # <<>> /\ p = Head(c2b) /\ c2b' = Tail(c2b)
  /\ log' = IF Publishes(p) THEN Append(log, p.val) ELSE log
  /\ srv_ids' = IF p.kind = "PUBLISH_2" THEN srv_ids \cup {p.id}
                ELSE IF p.kind = "PUBREL" THEN srv_ids \ {p.id} ELSE srv_ids
  /\ greeted' = (greeted \/ p.kind = "CONNECT")
  /\ UNCHANGED <<Ours, Where, up, on_wire, lost, got, kind_of>>

BrokerAnswers(p) ==
  /\ BrokerTakes(p) /\ p.kind \in ResponseKinds
  /\ b2c' = Append(b2c, Response(p)) /\ UNCHANGED out

(* ... which may acknowledge one of its own messages ...                   *)
Concerns(p, m) ==
  /\ out[m].id = p.id
  /\ \/ p.kind = "PUBACK" /\ out[m].st = "sent" /\ out[m].qos = 1
     \/ p.kind = "PUBREC" /\ out[m].st = "sent" /\ out[m].qos = 2
     \/ p.kind = "PUBCOMP" /\ out[m].st = "released" /\ out[m].qos = 2

BrokerIgnores(p) ==
  /\ BrokerTakes(p) /\ p.kind \notin ResponseKinds
  /\ \A m \in Inbound : ~Concerns(p, m)
  /\ UNCHANGED <<b2c, out>>

BrokerReleases(p, m) ==
  /\ BrokerTakes(p) /\ p.kind = "PUBREC" /\ Concerns(p, m)
  /\ out' = [out EXCEPT ![m].st = "released"]
  /\ b2c' = Append(b2c, PubrelTo(m, out[m]))

BrokerCompletes(p, m) ==
  /\ BrokerTakes(p) /\ p.kind \in {"PUBACK", "PUBCOMP"}
  /\ Concerns(p, m)
  /\ out' = [out EXCEPT ![m].st = "done"]
  /\ UNCHANGED b2c

(* ... and sends one, or a PUBREL.                                         *)
BrokerWrites(m, p) ==
  /\ up /\ greeted /\ m \notin on_wire /\ on_wire' = on_wire \cup {m}
  /\ b2c' = Append(b2c, p)
  /\ UNCHANGED <<Ours, Where, up, c2b, greeted, srv_ids, log, lost, got,
                 kind_of>>

SendsFirst(m, qos, id) ==
  /\ BrokerWrites(m, Packet("publish", qos, id, m)) /\ out[m].st = "new"
  /\ qos \in InboundQos /\ id \in InboundIds
  /\ \A n \in Inbound : OnItsWay(n) => out[n].id # id
  /\ out' = [out EXCEPT ![m] = [st |-> "sent", qos |-> qos, id |-> id]]
SendsAgain(m) ==
  /\ BrokerWrites(m, PublishTo(m, out[m])) /\ out[m].st = "sent"
  /\ UNCHANGED out
SendsPubrel(m) ==
  /\ BrokerWrites(m, PubrelTo(m, out[m])) /\ out[m].st = "released"
  /\ UNCHANGED out

ClientStep ==
  \/ Opens \/ Stops \/ EncodesConnect \/ Sends
  \/ TakesConnack \/ BeginsConnack \/ EndsConnack
  \/ \E e \in CarriedEntries : Accepts(e) \/ Encodes(e)
  \/ \E p \in Incoming : \/ \E k \in Nat : GetsResponse(p, k)
                         \/ GetsPublish(p) \/ GetsPubrel(p)
BrokerStep ==
  \/ \E p \in Outgoing :
       \/ BrokerAnswers(p) \/ BrokerIgnores(p)
       \/ \E m \in Inbound : BrokerReleases(p, m) \/ BrokerCompletes(p, m)
  \/ \E m \in Inbound :
       \/ \E qos \in {1, 2}, id \in InboundIds : SendsFirst(m, qos, id)
       \/ SendsAgain(m) \/ SendsPubrel(m)
SessionStep == ClientStep \/ Breaks \/ Forgets \/ BrokerStep

-----------------------------------------------------------------------------
(* A store without entries of some kinds loses nothing when they are       *)
(* deleted.                                                                *)
WholePrefix(k, s, i) ==
  /\ k[i] \in Seq(Entries) /\ Len(k[i]) = i
  /\ \A j \in 1 .. i : k[i][j] = s.entries[j]

LEMMA KeptWhole ==
  ASSUME NEW s, WellFormed(s, Entries), NEW kinds,
         \A i \in 1 .. Count(s) : s.entries[i].kind \notin kinds
  PROVE  \A i \in 0 .. Count(s) : WholePrefix(Kept(s, kinds), s, i)
<1> DEFINE k == Kept(s, kinds)
           n == Count(s)
           Bad == {i \in 0 .. n : ~WholePrefix(k, s, i)}
<1>0. /\ n \in Nat /\ \A i \in 1 .. n : s.entries[i] \in Entries
  BY LenProperties, ElementOfSeq DEF WellFormed, Count
<1>1. \A i \in 0 .. n :
        k[i] = IF i = 0 THEN <<>> ELSE KeptStep(s, kinds, i, k[i - 1])
  BY KeptEquation
<1> HIDE DEF k
<1>2. SUFFICES ASSUME Bad # {} PROVE FALSE
  BY DEF k
<1>3. PICK m \in Bad : \A y \in Bad : m <= y
  <2>1. Bad \subseteq Nat
    BY <1>0
  <2> HIDE DEF Bad
  <2> QED BY <2>1, <1>2, NatMinimum
<1>4. m \in 0 .. n /\ ~WholePrefix(k, s, m)
  OBVIOUS
<1>5. CASE m = 0
  <2>1. k[0] = <<>>
    BY <1>0, <1>1
  <2>2. k[0] \in Seq(Entries) /\ Len(k[0]) = 0
    BY <2>1, EmptySeq
  <2> QED BY <1>4, <1>5, <2>2 DEF WholePrefix
<1>6. CASE m # 0
  <2>1. m - 1 \in 0 .. n /\ m \in 1 .. n
    BY <1>0, <1>4, <1>6
  <2>2. WholePrefix(k, s, m - 1)
    <3>1. ~(m <= m - 1)
      BY <1>0, <2>1
    <3>2. m - 1 \notin Bad
      BY <1>3, <3>1
    <3> QED BY <2>1, <3>2
  <2>3. k[m] = Append(k[m - 1], s.entries[m])
    BY <1>1, <1>4, <1>6, <2>1 DEF KeptStep
  <2>4. s.entries[m] \in Entries /\ k[m - 1] \in Seq(Entries)
    BY <1>0, <2>1, <2>2 DEF WholePrefix
  <2>5. /\ k[m] \in Seq(Entries) /\ Len(k[m]) = Len(k[m - 1]) + 1
        /\ \A j \in 1 .. Len(k[m - 1]) : k[m][j] = k[m - 1][j]
        /\ k[m][Len(k[m - 1]) + 1] = s.entries[m]
    BY <2>3, <2>4, AppendFacts
  <2>6. WholePrefix(k, s, m)
    BY <1>0, <2>1, <2>2, <2>5 DEF WholePrefix
  <2> QED BY <1>4, <2>6
<1> QED BY <1>5, <1>6

LEMMA DeleteNothing ==
  ASSUME NEW s, WellFormed(s, Entries), NEW kinds,
         \A i \in 1 .. Count(s) : s.entries[i].kind \notin kinds
  PROVE  DeleteKinds(s, kinds) = s
<1> DEFINE k == Kept(s, kinds)
<1>1. \A i \in 0 .. Count(s) : WholePrefix(k, s, i)
  BY KeptWhole
<1>2. /\ s.entries \in Seq(Entries) /\ Count(s) = Len(s.entries)
      /\ s.pos \in 0 .. Count(s) /\ Count(s) \in 0 .. Count(s)
      /\ s = [entries |-> s.entries, pos |-> s.pos]
  BY LenProperties DEF WellFormed, Count
<1> HIDE DEF k
<1>3. WholePrefix(k, s, Count(s)) /\ WholePrefix(k, s, s.pos)
  BY <1>1, <1>2
<1>4. k[Count(s)] = s.entries
  BY <1>2, <1>3, SeqEqual DEF WholePrefix
<1>5. Len(k[s.pos]) = s.pos
  BY <1>3 DEF WholePrefix
<1> QED BY <1>2, <1>4, <1>5 DEF DeleteKinds, k

-----------------------------------------------------------------------------
(* Every action is one of these steps.                                     *)
LEMMA SessionFacts ==
  /\ CleanSessions = {FALSE} /\ SessionKinds \subseteq RequestKinds
  /\ SessionKinds \subseteq RequestCarriers
  /\ InboundQos \subseteq {1, 2} /\ Inbound \subseteq Nat
BY SessionAssumption DEF Inbound, RequestCarriers

LEMMA CarriedFacts ==
  ASSUME NEW e \in CarriedEntries
  PROVE  /\ e \in Entries /\ e \in Outgoing
         /\ e.kind \in RequestCarriers \cup AckKinds
         /\ e.kind \notin {"CONNECT", "PINGREQ", "DISCONNECT"}
         /\ Awaited(e) <=> ExpectsResponse(e.kind)
         /\ e.kind \in ResponseKinds <=> Awaited(e)
         /\ e.kind \in RequestCarriers =>
              /\ e.id \in Ids /\ e.val \in Requests /\ RequestOf(e) = {e.val}
         /\ Awaited(e) => e.kind \in RequestCarriers
         /\ e.kind \in AckKinds =>
              e.id \in InboundIds /\ e = Entry(e.kind, e.id, None)
         /\ e.kind = "PUBLISH_0" => ~Awaited(e)
<1>1. /\ e \in Entries
      /\ \/ e.kind \in RequestCarriers /\ e.id \in Ids /\ e.val \in Requests
         \/ e.kind \in AckKinds /\ e.id \in InboundIds /\ e.val = None
  BY DEF CarriedEntries
<1>2. /\ RequestCarriers \cap AckKinds = {}
      /\ \A kind \in RequestCarriers \cup AckKinds :
           /\ kind \notin {"CONNECT", "PINGREQ", "DISCONNECT"}
           /\ kind \in ResponseKinds <=> ExpectsResponse(kind)
           /\ ExpectsResponse(kind) => kind \in RequestCarriers
           /\ kind = "PUBLISH_0" => ~ExpectsResponse(kind)
  BY DEF RequestCarriers, RequestKinds, AckKinds, ResponseKinds,
         ExpectsResponse
<1>3. e.val \in Requests => RequestOf(e) = {e.val}
  BY <1>1, ValueType, SizeFacts DEF Requests, None
<1>4. e.kind \in AckKinds => e = Entry(e.kind, e.id, None)
  BY <1>1, <1>2 DEF Entry, Entries
<1> QED BY <1>1, <1>2, <1>3, <1>4 DEF Outgoing, Awaited

LEMMA ConnectFacts ==
  /\ ConnectEntry \in Entries /\ ConnectEntry \in Outgoing
  /\ ConnectEntry \notin CarriedEntries
  /\ ConnectEntry.kind = "CONNECT" /\ ConnectEntry.id = 0
  /\ Response(ConnectEntry) \in Responses
  /\ Response(ConnectEntry).type = "response"
  /\ Response(ConnectEntry).kind = "CONNECT"
  /\ Response(ConnectEntry).id = 0
  /\ ~Awaited(ConnectEntry)
<1>1. ConnectEntry \in Entries
  BY SizeFacts DEF ConnectEntry, Entry, Entries, Kinds
<1>2. ConnectEntry.kind = "CONNECT" /\ ConnectEntry.id = 0
  BY DEF ConnectEntry, Entry
<1> QED
  BY <1>1, <1>2, CarriedFacts
     DEF Outgoing, Responses, Response, Packet, Awaited

LEMMA IncomingFacts ==
  ASSUME NEW p \in Incoming
  PROVE  /\ p.type \in {"response", "publish", "pubrel"}
         /\ p.type = "response" <=> p \in Responses
         /\ p.type = "response" =>
              \/ p = Response(ConnectEntry)
              \/ /\ AnswersRequest(p) /\ p.kind \in ResponseKinds
                 /\ p.id \in Ids
         /\ p.type = "response" => p.kind \in ResponseKinds /\ p.id \in Ids
         /\ AnswersRequest(p) => p.type = "response" /\ p.kind # "CONNECT"
         /\ p.type = "publish" =>
              p.kind \in {1, 2} /\ p.id \in InboundIds /\ p.msg \in Inbound
         /\ p.type = "pubrel" =>
              p.kind = 2 /\ p.id \in InboundIds /\ p.msg \in Inbound
BY SizeFacts, ConnectFacts
   DEF Incoming, Responses, AnswersRequest, Response, Packet, ResponseKinds

LEMMA MainKept ==
  ASSUME SessionInv
  PROVE  /\ KeptStore = main_store
         /\ WellFormed(main_store, CarriedEntries)
         /\ WellFormed(main_store, Entries)
         /\ main_store.entries \in Seq(CarriedEntries)
         /\ Count(main_store) = Len(main_store.entries)
         /\ Count(main_store) \in Nat /\ main_store.pos \in Nat
         /\ main_store.pos <= Count(main_store)
         /\ \A i \in 1 .. Count(main_store) :
              main_store.entries[i] \in CarriedEntries
<1>1. /\ WellFormed(main_store, CarriedEntries)
      /\ WellFormed(main_store, Entries)
  BY SafeShapes DEF SessionInv, QueueTypes, RequestInv
<1>2. /\ main_store.entries \in Seq(CarriedEntries)
      /\ main_store.pos \in Nat /\ main_store.pos <= Count(main_store)
      /\ Count(main_store) = Len(main_store.entries)
      /\ Count(main_store) \in Nat
      /\ \A i \in 1 .. Count(main_store) :
              main_store.entries[i] \in CarriedEntries
  BY <1>1, LenProperties, ElementOfSeq DEF WellFormed, Count
<1>3. \A i \in 1 .. Count(main_store) :
        main_store.entries[i].kind \notin {"PINGREQ", "DISCONNECT"}
  BY <1>2, CarriedFacts
<1>4. KeptStore = main_store
  BY <1>1, <1>3, DeleteNothing DEF KeptStore
<1> QED BY <1>1, <1>2, <1>4

(* What the steps of the client need to know of it.                        *)
LEMMA ClientNow ==
  ASSUME SessionInv
  PROVE  /\ TypeOK /\ SafeInv
         /\ clean_session = FALSE /\ connect_clean = FALSE
         /\ error # "CLOSED"
         /\ closed \in BOOLEAN /\ current \in {"connect", "main"}
         /\ ~closed => rx_value \in Halves /\ tx_closed = FALSE
         /\ ~closed => IF current = "connect"
                         THEN rx_value.kind \in {"NONE", "CONNECT"}
                         ELSE rx_value.kind # "CONNECT"
         /\ ~closed /\ current = "connect" /\ rx_value.kind = "CONNECT" =>
              Count(connect_store) = 0
         /\ ~closed /\ current = "connect" /\ rx_value.kind # "CONNECT" =>
              Count(connect_store) = 1
         /\ requests_enabled => ~closed /\ current = "main"
         /\ Running <=> ~closed
         /\ connect_enabled =>
              closed /\ current = "connect" /\ Count(connect_store) = 0
BY Zenon DEF SessionInv, RequestInv, SafeInv, TypeOK, ConnectPhase,
             ClientFlags,
             Running

LEMMA OpenStep ==
  ASSUME SessionInv, Open
  PROVE  Opens
<1>1. /\ Connect(FALSE) /\ up' = TRUE /\ c2b' = <<>> /\ b2c' = <<>>
      /\ greeted' = FALSE /\ on_wire' = {}
      /\ UNCHANGED <<breaks, srv_ids, out, log, lost, got, kind_of>>
  BY DEF Open
<1>2. /\ connect_enabled
      /\ connect_store' = Appended(connect_store, ConnectEntry)
      /\ closed' = FALSE /\ write_buf' = <<>>
      /\ UNCHANGED <<current, main_store, id_set, calls, accepted>>
  BY <1>1 DEF Connect, SetStateConnecting, ConnectEntry, history
<1>3. /\ current = "connect" /\ Count(connect_store) = 0
      /\ WellFormed(connect_store, {ConnectEntry})
  BY <1>2, ClientNow DEF SessionInv, QueueTypes
<1>4. connect_store = [entries |-> <<>>, pos |-> 0]
  <2>1. /\ connect_store.entries \in Seq({ConnectEntry})
        /\ Len(connect_store.entries) = 0
        /\ connect_store \in [entries: Seq({ConnectEntry}), pos: Nat]
        /\ connect_store.pos <= 0
    BY <1>3 DEF WellFormed, Count
  <2>2. connect_store.entries = <<>>
    BY <2>1, EmptySeq
  <2> QED BY <2>1, <2>2
<1>5. Count(connect_store) = 0 /\ connect_store.pos = 0
  BY <1>3, <1>4
<1>6. Appended(connect_store, ConnectEntry)
        = [entries |-> <<ConnectEntry>>, pos |-> 0]
  <2> DEFINE t == Appended(connect_store, ConnectEntry)
  <2>1. /\ WellFormed(t, {ConnectEntry}) /\ Count(t) = 1 /\ t.pos = 0
        /\ t.entries[1] = ConnectEntry
    BY <1>3, <1>5, AppendedLemma
  <2> HIDE DEF t
  <2>2. /\ t = [entries |-> t.entries, pos |-> t.pos]
        /\ t.entries \in Seq({ConnectEntry}) /\ Len(t.entries) = 1
    BY <2>1 DEF WellFormed, Count
  <2>3. t.entries = <<ConnectEntry>>
    BY <2>1, <2>2
  <2> QED BY <2>1, <2>2, <2>3 DEF t
<1> QED BY <1>1, <1>2, <1>3, <1>6 DEF Opens

LEMMA AskStep ==
  ASSUME SessionInv, Ask
  PROVE  Stops \/ \E e \in CarriedEntries : Accepts(e)
<1>1. PICK kind \in SessionKinds :
        /\ Request(kind)
        /\ kind_of' = IF accepted' > accepted
                    THEN [kind_of EXCEPT ![accepted'] = kind] ELSE kind_of
        /\ Internal
  BY DEF Ask
<1> DEFINE e == Entry(kind, IF TakesId(kind) THEN next_packet_id ELSE 0,
                      accepted + 1)
<1>2. /\ current = "main" /\ ~closed /\ accepted < NumRequests
      /\ accepted \in Nat /\ next_packet_id \in Ids
      /\ UNCHANGED <<write_buf, id_set, calls, Where>>
      /\ IF IsQueueable(main_store, Capacity)
           THEN accepted' = accepted + 1
                /\ main_store' = Appended(main_store, e)
           ELSE UNCHANGED <<accepted, main_store>>
  BY <1>1, ClientNow
     DEF Request, TypeOK, state, session, txs, Where
<1>3. UNCHANGED <<Wires, broker, got>>
  BY <1>1 DEF Internal, net, Wires
<1>4. CASE IsQueueable(main_store, Capacity)
  <2>1. /\ kind \in RequestKinds /\ kind \in RequestCarriers
        /\ kind \in Kinds
    BY SessionFacts DEF RequestKinds, RequestCarriers, Kinds
  <2>2. accepted + 1 \in Requests
    BY <1>2, SizeFacts DEF Requests
  <2>3. e \in Entries
    BY <1>2, <2>1, <2>2, SizeFacts, EntryType
  <2>4. e \in CarriedEntries /\ e.kind = kind /\ e.val = accepted + 1
    BY <1>2, <2>1, <2>2, <2>3, SizeFacts DEF CarriedEntries, Entry
  <2>5. kind_of' = [kind_of EXCEPT ![accepted + 1] = kind]
    BY <1>1, <1>2, <1>4
  <2>6. Accepts(e)
    BY <1>2, <1>3, <1>4, <2>4, <2>5, Zenon DEF Accepts
  <2> QED BY <2>4, <2>6
<1>5. CASE ~IsQueueable(main_store, Capacity)
  <2>1. kind_of' = kind_of
    BY <1>1, <1>2, <1>5
  <2> QED BY <1>2, <1>3, <1>5, <2>1 DEF Stops, Ours
<1> QED BY <1>4, <1>5

LEMMA InitialStep ==
  ASSUME SessionInv, SetStateInitial, UNCHANGED <<write_buf, accepted>>,
         Internal, UNCHANGED kind_of
  PROVE  Stops
<1>1. KeptStore = main_store /\ clean_session = FALSE
  BY MainKept, ClientNow
<1>2. /\ closed' = TRUE /\ current' = "connect"
      /\ CleanupStores(~clean_session, FALSE, KeptStore, calls)
  BY DEF SetStateInitial
<1>3. /\ connect_store' = EmptyStore /\ main_store' = main_store
      /\ calls' = calls /\ id_set' = id_set
  BY <1>1, <1>2 DEF CleanupStores
<1> QED
  BY <1>2, <1>3 DEF Stops, Ours, Internal, net, Wires

LEMMA FailedStep ==
  ASSUME SessionInv, NEW e, SetStateFailed(e),
         UNCHANGED <<stores, session, txs, history, current>>,
         UNCHANGED <<Wires, broker, got, kind_of>>
  PROVE  Stops
BY DEF SetStateFailed, Stops, Ours, Where, stores, session, txs, history

LEMMA EncodeStep ==
  ASSUME SessionInv, Encode, Internal, UNCHANGED kind_of
  PROVE  EncodesConnect \/ \E e \in CarriedEntries : Encodes(e)
<1> DEFINE e == Current(CurrentStore)
<1>1. /\ Running /\ HasCurrent(CurrentStore)
      /\ write_buf' = Append(write_buf, e)
      /\ UpdateCurrent(IF ExpectsResponse(e.kind)
                         THEN MarkCurrent(CurrentStore)
                         ELSE DropCurrent(CurrentStore))
      /\ UNCHANGED <<id_set, accepted, current>>
      /\ IF e.kind = "PUBLISH_0"
           THEN calls' = Reported(calls, RequestOf(e), TRUE)
           ELSE UNCHANGED <<calls, state>>
  BY DEF Encode, Encoding, session
<1>2. ~closed /\ current \in {"connect", "main"}
  BY <1>1, ClientNow
<1>3. UNCHANGED <<Wires, broker, got>>
  BY DEF Internal, net, Wires
<1>4. CASE current = "connect"
  <2>1. CurrentStore = connect_store
    BY <1>4 DEF CurrentStore
  <2>2. WellFormed(connect_store, {ConnectEntry})
    BY DEF SessionInv, QueueTypes
  <2>3. e = ConnectEntry
    <3>1. HasCurrent(connect_store) /\ e = Current(connect_store)
      BY <1>1, <2>1
    <3>2. Current(connect_store) \in {ConnectEntry}
      BY <2>2, <3>1, MarkCurrentLemma
    <3> QED BY <3>1, <3>2
  <2>4. ExpectsResponse(e.kind) /\ e.kind # "PUBLISH_0"
    BY <2>3, ConnectFacts DEF ExpectsResponse
  <2>5. /\ connect_store' = MarkCurrent(connect_store)
        /\ main_store' = main_store /\ calls' = calls /\ closed' = closed
    BY <1>1, <1>4, <2>1, <2>4 DEF UpdateCurrent, state
  <2> QED
    BY <1>1, <1>2, <1>3, <1>4, <2>1, <2>3, <2>5 DEF EncodesConnect
<1>5. CASE current = "main"
  <2>1. CurrentStore = main_store
    BY <1>5 DEF CurrentStore
  <2>2. WellFormed(main_store, CarriedEntries)
    BY MainKept
  <2>3. e \in CarriedEntries
    BY <1>1, <2>1, <2>2, MarkCurrentLemma
  <2>4. /\ Awaited(e) <=> ExpectsResponse(e.kind)
        /\ e.kind = "PUBLISH_0" => RequestOf(e) = {e.val}
    <3>1. "PUBLISH_0" \in RequestCarriers
      BY DEF RequestCarriers, RequestKinds
    <3> QED BY <2>3, <3>1, CarriedFacts
  <2>5. /\ main_store' = IF Awaited(e) THEN MarkCurrent(main_store)
                                       ELSE DropCurrent(main_store)
        /\ connect_store' = connect_store
    BY <1>1, <1>5, <2>1, <2>4 DEF UpdateCurrent
  <2>6. calls' = IF e.kind = "PUBLISH_0" THEN Reported(calls, {e.val}, TRUE)
                                         ELSE calls
    BY <1>1, <2>4
  <2>7. Encodes(e)
    BY <1>1, <1>2, <1>3, <1>5, <2>1, <2>5, <2>6, Zenon DEF Encodes
  <2> QED BY <2>3, <2>7
<1> QED BY <1>2, <1>4, <1>5

LEMMA SendStep ==
  ASSUME SessionInv, Send
  PROVE  Sends
BY DEF Send, Write, Sends, state, stores, session, history, Where

LEMMA PrepareStep ==
  ASSUME SessionInv, Prepare
  PROVE  Stops \/ EncodesConnect \/ \E e \in CarriedEntries : Encodes(e)
<1>1. CASE Encode
  BY <1>1, EncodeStep DEF Prepare
<1>2. CASE Reset
  BY <1>2, InitialStep DEF Prepare, Reset
<1> QED BY <1>1, <1>2 DEF Prepare

LEMMA NoticeStep ==
  ASSUME SessionInv, NoticeBreak \/ LateAnswer
  PROVE  Stops
<1>1. CASE NoticeBreak
  <2>1. CASE Eof
    BY <1>1, <2>1, InitialStep DEF NoticeBreak, Eof
  <2>2. CASE Fail
    <3>1. UNCHANGED <<Wires, broker, got, kind_of>>
      BY <1>1 DEF NoticeBreak, Internal, net, Wires
    <3> QED BY <2>2, <3>1, FailedStep DEF Fail
  <2> QED BY <1>1, <2>1, <2>2 DEF NoticeBreak
<1>2. CASE LateAnswer
  <2>1. UNCHANGED <<Wires, broker, got, kind_of>>
    BY <1>2 DEF LateAnswer, Wires
  <2> QED BY <1>2, <2>1, FailedStep DEF LateAnswer, Timeout
<1> QED BY <1>1, <1>2

-----------------------------------------------------------------------------
(* Receiving.  A response that is no CONNACK finds its request, since the  *)
(* packets under way are linked to marked entries.                         *)
LEMMA FoundFirst ==
  ASSUME NEW s, WellFormed(s, Entries), NEW kind, NEW id,
         Matching(s, kind, id) # {}
  PROVE  LET k == Found(s, kind, id) IN
         /\ k \in Matching(s, kind, id) /\ k \in 1 .. Count(s)
         /\ \A j \in Matching(s, kind, id) : k <= j
<1>1. Matching(s, kind, id) \subseteq Nat
  BY DEF Matching
<1>2. \E k \in Matching(s, kind, id) :
        \A j \in Matching(s, kind, id) : k <= j
  BY <1>1, NatMinimum
<1>3. /\ Found(s, kind, id) \in Matching(s, kind, id)
      /\ \A j \in Matching(s, kind, id) : Found(s, kind, id) <= j
  <2> DEFINE P(k) == k \in Matching(s, kind, id)
                       /\ \A j \in Matching(s, kind, id) : k <= j
  <2>1. \E k : P(k)
    BY <1>2
  <2>2. P(CHOOSE k : P(k))
    BY <2>1, Zenon
  <2>3. Found(s, kind, id) = CHOOSE k \in Matching(s, kind, id) :
                               \A j \in Matching(s, kind, id) : k <= j
    BY DEF Found
  <2>4. P(Found(s, kind, id))
    BY <1>2, <2>3, Zenon
  <2> QED BY <2>4
<1>4. Found(s, kind, id) \in 1 .. Count(s)
  BY FoundLemma
<1> QED BY <1>3, <1>4

LEMMA ReceiveFacts ==
  ASSUME SessionInv, Receive \/ ReceivePart
  PROVE  LET p == Head(b2c) IN
         /\ up /\ b2c # <<>> /\ b2c' = Tail(b2c)
         /\ p \in Incoming
         /\ UNCHANGED <<breaks, c2b, up, broker, kind_of>>
         /\ ~closed /\ rx_value = NoEntry
<1>1. /\ b2c # <<>> /\ b2c' = Tail(b2c)
      /\ UNCHANGED <<up, breaks, c2b, broker, kind_of>>
  BY DEF Receive, ReceivePart
<1>1a. ~closed /\ rx_value = NoEntry
  BY DEF Receive, ReceivePart, Respond, BeginResponse, Unexpected,
         ReceivePublish, ReceivePubrel, Receiving, Running
<1>2. b2c \in Seq(Incoming) /\ up \in BOOLEAN /\ (~up => b2c = <<>>)
  BY DEF SessionInv, QueueTypes, BrokerTypes
<1>3. Head(b2c) \in Incoming
  BY <1>1, <1>2, TailFacts
<1> QED BY <1>1, <1>1a, <1>2, <1>3

(* The CONNECT in its store is what a CONNACK answers.                     *)
LEMMA ConnackFound ==
  ASSUME SessionInv, Receive \/ ReceivePart, current = "connect"
  PROVE  /\ AwaitingConnack /\ Head(b2c) = Response(ConnectEntry)
         /\ CurrentStore = connect_store
         /\ Matching(connect_store, "CONNECT", 0) # {}
         /\ connect_store.entries[Found(connect_store, "CONNECT", 0)]
              = ConnectEntry
         /\ PopMarkedBy(connect_store, "CONNECT", 0) = EmptyStore
<1>1. up /\ b2c # <<>> /\ ~closed /\ rx_value = NoEntry
  BY ReceiveFacts
<1>2. DialPhase
  BY <1>1 DEF SessionInv, Phases, Dialing
<1>3. Count(connect_store) = 1
  BY <1>1, ClientNow DEF NoEntry
<1>4. ~HalfConnack
  BY <1>3 DEF HalfConnack, EmptyStore, Count
<1>5. AwaitingConnack
  BY <1>1, <1>2, <1>4, Zenon DEF DialPhase, JustConnect
<1>6. /\ CurrentStore = connect_store /\ connect_store.pos = 1
      /\ connect_store.entries[1] = ConnectEntry
      /\ WellFormed(connect_store, Entries)
      /\ WellFormed(connect_store, {ConnectEntry})
  BY <1>5, SafeShapes
     DEF AwaitingConnack, CurrentStore, SessionInv, RequestInv, QueueTypes
<1>7. Matching(connect_store, "CONNECT", 0) = {1}
  <2>1. 1 .. connect_store.pos = {1}
    BY <1>6
  <2> QED BY <1>6, <2>1, ConnectFacts DEF Matching
<1>8. Found(connect_store, "CONNECT", 0) = 1
  BY <1>6, <1>7, FoundFirst
<1>9. PopAt(connect_store, 1) = EmptyStore
  <2> DEFINE t == PopAt(connect_store, 1)
  <2>1. 1 \in 1 .. Count(connect_store)
    BY <1>3
  <2>2. WellFormed(t, {ConnectEntry}) /\ Count(t) = 0
    BY <1>3, <1>6, <2>1, PopAtLemma
  <2> HIDE DEF t
  <2>3. /\ t = [entries |-> t.entries, pos |-> t.pos]
        /\ t.entries \in Seq({ConnectEntry}) /\ Len(t.entries) = 0
        /\ t.pos = 0
    BY <2>2 DEF WellFormed, Count
  <2>4. t.entries = <<>>
    BY <2>3, EmptySeq
  <2> QED BY <2>3, <2>4 DEF t, EmptyStore
<1> QED BY <1>5, <1>6, <1>7, <1>8, <1>9 DEF AwaitingConnack, PopMarkedBy

LEMMA RespondConnect ==
  ASSUME SessionInv, Receive, current = "connect"
  PROVE  TakesConnack
<1> DEFINE p == Head(b2c)
<1>1. /\ up /\ b2c # <<>> /\ b2c' = Tail(b2c) /\ p \in Incoming
      /\ UNCHANGED <<up, c2b, broker, kind_of>> /\ ~closed
  BY ReceiveFacts
<1>3. AwaitingConnack /\ p = Response(ConnectEntry)
  BY ConnackFound
<1>5. p.type = "response" /\ p.kind = "CONNECT" /\ p.id = 0
  BY <1>3, ConnectFacts
<1>6. /\ Respond("CONNECT", 0) \/ Unexpected("CONNECT", 0)
      /\ UNCHANGED got
  BY <1>5 DEF Receive
<1>9. Respond("CONNECT", 0)
  BY <1>6, ConnackFound DEF Unexpected
<1>11. /\ Finish(ConnectEntry, PopMarkedBy(connect_store, "CONNECT", 0))
       /\ UNCHANGED <<connect_clean, txs, accepted>>
  BY <1>9, ConnackFound DEF Respond
<1>12. SetStateConnected(connect_clean)
  BY <1>11, ConnectFacts DEF Finish
<1>13. /\ connect_clean = FALSE /\ KeptStore = main_store
  BY ClientNow, MainKept
<1>14. /\ current' = "main" /\ connect_store' = EmptyStore
       /\ main_store' = UnmarkAll(main_store)
       /\ calls' = calls /\ id_set' = id_set
  BY <1>12, <1>13 DEF SetStateConnected, CleanupStores
<1>15. write_buf' = write_buf
  BY <1>11 DEF txs
<1>16. Takes(Response(ConnectEntry))
  BY <1>1, <1>3, <1>11, <1>15 DEF Takes
<1> QED BY <1>3, <1>6, <1>14, <1>16 DEF TakesConnack

(* Any other response answers the first entry of its kind and id.          *)
LEMMA AnswerFound ==
  ASSUME SessionInv, Receive \/ ReceivePart, current = "main",
         Head(b2c).type = "response"
  PROVE  LET p == Head(b2c)
             s == main_store
             k == Found(s, p.kind, p.id)
             e == s.entries[k]
         IN /\ AnswersRequest(p) /\ p.kind \in ResponseKinds
            /\ CurrentStore = s /\ Matching(s, p.kind, p.id) # {}
            /\ PopMarkedBy(s, p.kind, p.id) = PopAt(s, k)
            /\ k \in Nat /\ k \in 1 .. Count(s) /\ IsAnswer(s, k, p)
            /\ e \in CarriedEntries /\ e.kind = p.kind
            /\ e.kind \in ResponseKinds /\ e.kind # "CONNECT"
            /\ RequestOf(e) = {e.val}
<1> DEFINE p == Head(b2c)
           s == main_store
           k == Found(s, p.kind, p.id)
           e == s.entries[k]
<1>1. /\ up /\ b2c # <<>> /\ b2c' = Tail(b2c) /\ p \in Incoming
  BY ReceiveFacts
<1>2. /\ b2c \in Seq(Incoming) /\ Len(b2c) \in Nat /\ Len(b2c) >= 1
      /\ p = b2c[1]
  BY <1>1, TailFacts DEF SessionInv, QueueTypes
<1>3. AnswersRequest(p) /\ p.kind \in ResponseKinds
  <2>1. Greeted
    BY <1>1 DEF SessionInv, Phases
  <2>2. p # Response(ConnectEntry)
    BY <1>2, <2>1 DEF Greeted, Has
  <2> QED BY <1>1, <2>2, IncomingFacts
<1>4. Matching(s, p.kind, p.id) # {}
  <2>1. PICK fb, fc, fw : Links(b2c, c2b, write_buf, main_store, fb, fc, fw)
    BY <1>1 DEF SessionInv, Linked, LinkedBy
  <2>2. /\ fb \in Seq(Nat) /\ Len(fb) = Len(b2c)
        /\ AnswersTo(b2c, fb, main_store)
    BY <2>1 DEF Links
  <2>3. 1 \in 1 .. Len(b2c) /\ fb[1] \in Nat
    BY <1>2, <2>2
  <2>4. /\ fb[1] # 0 /\ fb[1] <= s.pos
        /\ p.kind = s.entries[fb[1]].kind /\ p.id = s.entries[fb[1]].id
    BY <1>2, <1>3, <2>2, <2>3 DEF AnswersTo
  <2>5. s.pos \in Nat
    BY MainKept
  <2>6. fb[1] \in 1 .. s.pos
    BY <2>3, <2>4, <2>5
  <2> QED BY <2>4, <2>6 DEF Matching
<1>5. CurrentStore = s /\ WellFormed(s, Entries)
  BY MainKept DEF CurrentStore
<1>7. /\ k \in 1 .. s.pos /\ e.kind = p.kind /\ e.id = p.id
      /\ k \in 1 .. Count(s) /\ k \in Nat
      /\ \A j \in 1 .. s.pos :
           s.entries[j].kind = p.kind /\ s.entries[j].id = p.id => k <= j
  BY <1>4, <1>5, FoundFirst DEF Matching
<1>8. e \in CarriedEntries /\ e.kind \in ResponseKinds /\ e.kind # "CONNECT"
  BY <1>3, <1>7, MainKept DEF AnswersRequest
<1>9. RequestOf(e) = {e.val}
  BY <1>8, CarriedFacts DEF Awaited
<1>10. IsAnswer(s, k, p) /\ PopMarkedBy(s, p.kind, p.id) = PopAt(s, k)
  BY <1>7 DEF IsAnswer, PopMarkedBy
<1> QED BY <1>3, <1>4, <1>5, <1>7, <1>8, <1>9, <1>10

LEMMA RespondMain ==
  ASSUME SessionInv, Receive, current = "main", Head(b2c).type = "response"
  PROVE  \E k \in Nat : GetsResponse(Head(b2c), k)
<1> DEFINE p == Head(b2c)
           s == main_store
           k == Found(s, p.kind, p.id)
           e == s.entries[k]
<1>1. /\ up /\ b2c # <<>> /\ b2c' = Tail(b2c) /\ p \in Incoming
      /\ UNCHANGED <<up, c2b, broker, kind_of>> /\ ~closed
  BY ReceiveFacts
<1>2. /\ AnswersRequest(p)
      /\ CurrentStore = s /\ Matching(s, p.kind, p.id) # {}
      /\ PopMarkedBy(s, p.kind, p.id) = PopAt(s, k)
      /\ k \in Nat /\ IsAnswer(s, k, p)
      /\ e.kind = p.kind
      /\ e.kind \in ResponseKinds /\ e.kind # "CONNECT"
      /\ RequestOf(e) = {e.val}
  BY AnswerFound
<1>6. /\ Respond(p.kind, p.id) /\ UNCHANGED got
  BY <1>2 DEF Receive, Unexpected
<1>10. /\ Finish(e, PopAt(s, k))
       /\ UNCHANGED <<connect_clean, txs, accepted>>
  BY <1>2, <1>6 DEF Respond
<1> HIDE DEF k
<1>11. /\ main_store' = Settled(s, k) /\ connect_store' = connect_store
       /\ calls' \in {calls, Reported(calls, {e.val}, TRUE)}
       /\ id_set' = id_set /\ current' = current
  <2>1. CASE e.kind = "PUBLISH_2"
    <3>1. /\ UpdateCurrent(Appended(PopAt(s, k), PubrelFor(e)))
          /\ UNCHANGED <<current, id_set, calls>>
      BY <1>2, <1>10, <2>1 DEF Finish
    <3> QED BY <2>1, <3>1 DEF Settled, UpdateCurrent
  <2>2. CASE e.kind # "PUBLISH_2"
    <3>1. /\ UpdateCurrent(PopAt(s, k))
          /\ calls' = Reported(calls, RequestOf(e), TRUE)
          /\ UNCHANGED <<current, id_set>>
      BY <1>2, <1>10, <2>2 DEF Finish
    <3> QED BY <1>2, <2>2, <3>1 DEF Settled, UpdateCurrent
  <2> QED BY <2>1, <2>2
<1>12. Takes(p)
  BY <1>1, <1>10 DEF Takes, txs
<1>14. GetsResponse(p, k)
  BY <1>2, <1>6, <1>11, <1>12, Zenon DEF GetsResponse
<1> QED BY <1>2, <1>14

LEMMA PublishStep ==
  ASSUME SessionInv, Receive, current = "main",
         Head(b2c).type = "publish"
  PROVE  GetsPublish(Head(b2c))
<1> DEFINE p == Head(b2c)
<1>1. /\ up /\ b2c # <<>> /\ b2c' = Tail(b2c) /\ p \in Incoming
      /\ UNCHANGED <<up, c2b, broker, kind_of>> /\ ~closed
  BY ReceiveFacts
<1>2. /\ ReceivePublish(p.kind, p.id, TRUE)
      /\ got' = IF Delivers(p.kind, p.id)
                  THEN [got EXCEPT ![p.msg] = @ + 1] ELSE got
  BY DEF Receive
<1>3. p.kind \in {1, 2}
  BY <1>1, IncomingFacts
<1>4. CurrentStore = main_store /\ CurrentCapacity = Capacity
  BY DEF CurrentStore, CurrentCapacity
<1>5. Answered(p.kind, p.id) =
        Acknowledging(IF p.kind = 1 THEN "PUBACK" ELSE "PUBREC", p.id)
  BY <1>3, <1>4 DEF Answered, Acknowledged, Acknowledging
<1>6. /\ UpdateCurrent(Answered(p.kind, p.id))
      /\ \/ Duplicate(p.kind, p.id) /\ UNCHANGED id_set
         \/ NoRoomFor(p.kind, p.id) /\ UNCHANGED id_set
         \/ /\ Delivers(p.kind, p.id)
            /\ id_set' = IF p.kind = 2 THEN id_set \cup {p.id} ELSE id_set
      /\ UNCHANGED <<txs, history, current>>
  BY <1>2, Zenon DEF ReceivePublish
<1>7. id_set' = IF Delivers(p.kind, p.id) /\ p.kind = 2
                  THEN id_set \cup {p.id} ELSE id_set
  BY <1>6, Zenon DEF Delivers
<1>8. main_store' = Answered(p.kind, p.id) /\ connect_store' = connect_store
  BY <1>6 DEF UpdateCurrent
<1>9. Takes(p) /\ calls' = calls /\ current' = current
  BY <1>1, <1>6 DEF Takes, txs, history
<1> QED BY <1>2, <1>5, <1>7, <1>8, <1>9, Zenon DEF GetsPublish

LEMMA PubrelStep ==
  ASSUME SessionInv, Receive, current = "main",
         Head(b2c).type = "pubrel"
  PROVE  GetsPubrel(Head(b2c))
<1> DEFINE p == Head(b2c)
<1>1. /\ up /\ b2c # <<>> /\ b2c' = Tail(b2c) /\ p \in Incoming
      /\ UNCHANGED <<up, c2b, broker, kind_of>> /\ ~closed
  BY ReceiveFacts
<1>2. ReceivePubrel(p.id) /\ UNCHANGED got
  BY DEF Receive
<1>3. CurrentStore = main_store /\ CurrentCapacity = Capacity
  BY DEF CurrentStore, CurrentCapacity
<1>4. /\ UpdateCurrent(Acknowledging("PUBCOMP", p.id))
      /\ id_set' = id_set \ {p.id}
      /\ UNCHANGED <<txs, history, current>>
  BY <1>2, <1>3 DEF ReceivePubrel, Acknowledged, Acknowledging
<1>5. /\ main_store' = Acknowledging("PUBCOMP", p.id)
      /\ connect_store' = connect_store
  BY <1>4 DEF UpdateCurrent
<1>6. Takes(p) /\ calls' = calls /\ current' = current
  BY <1>1, <1>4 DEF Takes, txs, history
<1> QED BY <1>2, <1>4, <1>5, <1>6, Zenon DEF GetsPubrel

LEMMA ReceiveStep ==
  ASSUME SessionInv, Receive
  PROVE  \/ TakesConnack
         \/ \E p \in Incoming : \/ \E k \in Nat : GetsResponse(p, k)
                                \/ GetsPublish(p) \/ GetsPubrel(p)
<1> DEFINE p == Head(b2c)
<1>1. p \in Incoming /\ p.type \in {"response", "publish", "pubrel"}
  BY ReceiveFacts, IncomingFacts
<1>3. current \in {"connect", "main"}
  BY ClientNow
<1> QED
  BY <1>1, <1>3, RespondConnect, RespondMain, PublishStep, PubrelStep

(* The beginning of a response, and the rest of it.                        *)
LEMMA PartStep ==
  ASSUME SessionInv, ReceivePart
  PROVE  \/ BeginsConnack /\ rx_value' = ConnectEntry
         \/ \E p \in Incoming, k \in Nat :
              /\ GetsResponse(p, k)
              /\ k \in 1 .. Count(main_store)
              /\ rx_value' = main_store.entries[k]
              /\ rx_value'.kind = "SUBSCRIBE"
<1> DEFINE p == Head(b2c)
           s == main_store
           k == Found(s, p.kind, p.id)
<1>1. /\ up /\ b2c # <<>> /\ b2c' = Tail(b2c) /\ p \in Incoming
      /\ UNCHANGED <<up, c2b, broker, kind_of>> /\ ~closed
  BY ReceiveFacts
<1>2. /\ BeginResponse(p.kind, p.id) /\ p.type = "response"
      /\ UNCHANGED got
  BY DEF ReceivePart
<1>3. /\ p.kind \in SplitKinds
      /\ rx_value' = CurrentStore.entries[Found(CurrentStore, p.kind, p.id)]
      /\ UpdateCurrent(PopMarkedBy(CurrentStore, p.kind, p.id))
      /\ UNCHANGED <<closed, id_set, write_buf, accepted, calls, current>>
  BY <1>2 DEF BeginResponse, state, session, txs, history
<1>4. Takes(p)
  BY <1>1, <1>3 DEF Takes
<1>5. CASE current = "connect"
  <2>1. p = Response(ConnectEntry) /\ p.kind = "CONNECT" /\ p.id = 0
    BY <1>5, ConnackFound, ConnectFacts
  <2>2. rx_value' = ConnectEntry /\ UpdateCurrent(EmptyStore)
    BY <1>3, <1>5, <2>1, ConnackFound
  <2>3. connect_store' = EmptyStore /\ main_store' = main_store
    BY <1>5, <2>2 DEF UpdateCurrent
  <2>4. AwaitingConnack
    BY <1>5, ConnackFound
  <2> QED
    BY <1>2, <1>3, <1>4, <1>5, <2>1, <2>2, <2>3, <2>4 DEF BeginsConnack
<1>6. CASE current = "main"
  <2>1. /\ AnswersRequest(p)
        /\ CurrentStore = s /\ PopMarkedBy(s, p.kind, p.id) = PopAt(s, k)
        /\ k \in Nat /\ k \in 1 .. Count(s) /\ IsAnswer(s, k, p)
        /\ s.entries[k].kind = p.kind /\ p.kind # "CONNECT"
    BY <1>2, <1>6, AnswerFound
  <2>2. p.kind = "SUBSCRIBE"
    BY <1>3, <2>1, SessionAssumption
  <2>3. rx_value' = s.entries[k] /\ UpdateCurrent(PopAt(s, k))
    BY <1>3, <2>1
  <2> HIDE DEF k
  <2>4. main_store' = Settled(s, k) /\ connect_store' = connect_store
    BY <1>6, <2>1, <2>2, <2>3 DEF Settled, UpdateCurrent
  <2>5. GetsResponse(p, k)
    BY <1>2, <1>3, <1>4, <1>6, <2>1, <2>4, Zenon DEF GetsResponse
  <2> QED BY <1>1, <2>1, <2>2, <2>3, <2>5
<1> QED BY <1>5, <1>6, ClientNow

LEMMA RestStep ==
  ASSUME SessionInv, ReceiveRest
  PROVE  EndsConnack \/ Stops
<1>1. /\ up /\ ~closed /\ rx_value.kind \in {"CONNECT", "SUBSCRIBE"}
      /\ Finish(rx_value, CurrentStore)
      /\ UNCHANGED <<Wires, broker, got, kind_of, write_buf, accepted>>
  BY DEF ReceiveRest, FinishResponse, Internal, net, Wires, Running, txs
<1>2. current \in {"connect", "main"} /\ rx_value \in Halves
  BY <1>1, ClientNow
<1>3. CASE rx_value.kind = "CONNECT"
  <2>1. current = "connect" /\ Count(connect_store) = 0
    BY <1>1, <1>2, <1>3, ClientNow
  <2>2. DialPhase
    BY <1>1, <2>1 DEF SessionInv, Phases, Dialing
  <2>3. HalfConnack
    <3>1. connect_store.entries # <<ConnectEntry>>
      BY <2>1 DEF Count
    <3> QED BY <2>2, <3>1, Zenon DEF DialPhase, JustConnect, AwaitingConnack
  <2>4. SetStateConnected(connect_clean)
    BY <1>1, <1>3 DEF Finish
  <2>5. connect_clean = FALSE /\ KeptStore = main_store
    BY ClientNow, MainKept
  <2>6. /\ current' = "main" /\ connect_store' = EmptyStore
        /\ main_store' = UnmarkAll(main_store)
        /\ calls' = calls /\ id_set' = id_set
    BY <2>4, <2>5 DEF SetStateConnected, CleanupStores
  <2> QED BY <1>1, <2>1, <2>3, <2>6 DEF EndsConnack
<1>4. CASE rx_value.kind = "SUBSCRIBE"
  <2>1. /\ current = "main" /\ CurrentStore = main_store
    BY <1>1, <1>2, <1>4, ClientNow DEF CurrentStore
  <2>2. RequestOf(rx_value) = {rx_value.val}
    <3>1. rx_value \in CarriedEntries
      BY <1>2, <1>4, ConnectFacts DEF Halves, NoEntry
    <3> QED BY <1>4, <3>1, CarriedFacts DEF RequestCarriers, RequestKinds
  <2>3. /\ UpdateCurrent(main_store) /\ CallBack(rx_value)
        /\ calls' = Reported(calls, {rx_value.val}, TRUE)
        /\ current' = current /\ id_set' = id_set
    BY <1>1, <1>4, <2>1, <2>2 DEF Finish
  <2>4. main_store' = main_store /\ connect_store' = connect_store
    BY <2>1, <2>3 DEF UpdateCurrent
  <2>5. closed' = closed \/ closed' = TRUE
    BY <1>4, <2>3 DEF CallBack, SetStateFailed, state
  <2>6. calls' = Reported(calls, Halved, TRUE)
    BY <1>1, <1>4, <2>3 DEF Halved
  <2> QED BY <1>1, <2>3, <2>4, <2>5, <2>6 DEF Stops, Where
<1> QED BY <1>1, <1>3, <1>4

-----------------------------------------------------------------------------
(* The network and the broker.                                             *)
LEMMA BreakStep ==
  ASSUME SessionInv, Break
  PROVE  Breaks
BY DEF Break, Breaks, vars, stores, txs, session, history, state, Ours, Where

LEMMA ForgetStep ==
  ASSUME SessionInv, Forget
  PROVE  Forgets
<1>1. /\ ~up /\ forgets' = forgets + 1 /\ srv_ids' = {}
      /\ out' = Advanced({m \in Inbound : out[m].st \in {"sent", "released"}},
                         "lost")
      /\ stale' = stale \cup id_set \cup StalePubrecs
      /\ UNCHANGED <<Ours, Where, Wires, greeted, on_wire, log, got, kind_of>>
  BY DEF Forget, vars, stores, txs, session, history, state, net, Ours, Where,
         Wires
<1>2. Advanced({m \in Inbound : out[m].st \in {"sent", "released"}}, "lost")
        = [m \in Inbound |->
             IF OnItsWay(m) THEN [out[m] EXCEPT !.st = "lost"] ELSE out[m]]
  BY Zenon DEF Advanced, OnItsWay
<1> QED BY <1>1, <1>2 DEF Forgets

(* A set of at most one message, as the broker's answer.                   *)
LEMMA OneOrNone ==
  ASSUME NEW x
  PROVE  SetToSeq({}) = <<>> /\ SetToSeq({x}) = <<x>>
<1> DEFINE P(S, f) == f \in [1 .. Cardinality(S) -> S] /\ IsInjective(f)
<1>1. \A S : (\E f : P(S, f)) => P(S, SetToSeq(S))
  <2>1. TAKE S
  <2>2. HAVE \E f : P(S, f)
  <2>3. P(S, CHOOSE f : P(S, f))
    BY <2>2, Zenon
  <2>4. SetToSeq(S) = CHOOSE f \in [1 .. Cardinality(S) -> S] : IsInjective(f)
    BY DEF SetToSeq
  <2> QED BY <2>2, <2>4, Zenon
<1>2. Cardinality({}) = 0 /\ Cardinality({x}) = 1
  BY FS_EmptySet, FS_Singleton
<1>3. P({}, <<>>)
  BY <1>2 DEF IsInjective
<1>4. P({x}, <<x>>)
  BY <1>2 DEF IsInjective
<1>5. P({}, SetToSeq({})) /\ P({x}, SetToSeq({x}))
  BY <1>1, <1>3, <1>4, Zenon
<1>6. SetToSeq({}) = <<>>
  BY <1>2, <1>5
<1>7. SetToSeq({x}) = <<x>>
  <2>1. ASSUME NEW f \in [1 .. 1 -> {x}]
        PROVE  f = <<x>>
    <3>1. f = [i \in 1 .. 1 |-> f[i]] /\ f[1] = x
      OBVIOUS
    <3>2. 1 .. 1 = {1}
      OBVIOUS
    <3> QED BY <3>1, <3>2
  <2>2. SetToSeq({x}) \in [1 .. 1 -> {x}]
    BY <1>2, <1>5
  <2> QED BY <2>1, <2>2
<1> QED BY <1>6, <1>7

LEMMA ConcatOne ==
  ASSUME NEW E, NEW q \in Seq(E), NEW e \in E
  PROVE  q \o <<>> = q /\ q \o <<e>> = Append(q, e)
OBVIOUS

(* The messages that an acknowledgement is about: one, or none.            *)
About(p) == {m \in Inbound : Concerns(p, m)}

LEMMA AboutOne ==
  ASSUME SessionInv, NEW p
  PROVE  About(p) = {} \/ \E m \in Inbound : About(p) = {m} /\ Concerns(p, m)
<1>1. ASSUME NEW m \in Inbound, Concerns(p, m), NEW n \in Inbound,
             Concerns(p, n)
      PROVE  m = n
  <2>1. OnItsWay(m) /\ OnItsWay(n) /\ out[m].id = out[n].id
    BY <1>1 DEF Concerns, OnItsWay
  <2> QED BY <2>1 DEF SessionInv, OutTypes
<1>2. ASSUME About(p) # {}
      PROVE  \E m \in Inbound : About(p) = {m} /\ Concerns(p, m)
  <2>1. PICK m \in Inbound : Concerns(p, m)
    BY <1>2 DEF About
  <2>2. About(p) = {m}
    BY <1>1, <2>1 DEF About
  <2> QED BY <2>1, <2>2
<1> QED BY <1>2

LEMMA AdvancedOne ==
  ASSUME SessionInv, NEW st, NEW m \in Inbound
  PROVE  /\ Advanced({}, st) = out
         /\ Advanced({m}, st) = [out EXCEPT ![m].st = st]
<1>1. out \in [Inbound -> [st: Stages, qos: 0 .. 2, id: Nat]]
  BY DEF SessionInv, OutTypes
<1>2. out = [n \in Inbound |-> out[n]]
  BY <1>1
<1>3. Advanced({}, st) = [n \in Inbound |-> out[n]]
  BY DEF Advanced
<1>4. Advanced({m}, st) = [out EXCEPT ![m].st = st]
  BY <1>1 DEF Advanced
<1> QED BY <1>2, <1>3, <1>4

LEMMA BrokerReceiveStep ==
  ASSUME SessionInv, BrokerReceive
  PROVE  \E p \in Outgoing :
           \/ BrokerAnswers(p) \/ BrokerIgnores(p)
           \/ \E m \in Inbound : BrokerReleases(p, m) \/ BrokerCompletes(p, m)
<1> DEFINE p == Head(c2b)
<1>1. /\ c2b # <<>> /\ c2b \in Seq(Outgoing) /\ b2c \in Seq(Incoming)
      /\ p \in Outgoing
  BY TailFacts DEF BrokerReceive, SessionInv, QueueTypes
<1>2. BrokerTakes(p)
  <2>1. /\ up /\ c2b # <<>> /\ c2b' = Tail(c2b)
        /\ log' = (IF Publishes(p) THEN Append(log, p.val) ELSE log)
        /\ srv_ids' = CASE p.kind = "PUBLISH_2" -> srv_ids \cup {p.id}
                        [] p.kind = "PUBREL" -> srv_ids \ {p.id}
                        [] OTHER -> srv_ids
        /\ greeted' = (greeted \/ p.kind = "CONNECT")
        /\ UNCHANGED <<vars, up, breaks, on_wire, lost, got, kind_of>>
    BY DEF BrokerReceive
  <2>2. srv_ids' = IF p.kind = "PUBLISH_2" THEN srv_ids \cup {p.id}
                   ELSE IF p.kind = "PUBREL" THEN srv_ids \ {p.id}
                   ELSE srv_ids
    BY <2>1
  <2>3. UNCHANGED <<Ours, Where, up, on_wire, lost, got, kind_of>>
    BY <2>1 DEF vars, stores, txs, session, history, state, Ours, Where
  <2> QED BY <2>1, <2>2, <2>3, Zenon DEF BrokerTakes
<1>3. /\ "PUBREC" \notin ResponseKinds /\ "PUBACK" \notin ResponseKinds
      /\ "PUBCOMP" \notin ResponseKinds /\ "PUBLISH_0" \notin ResponseKinds
  BY DEF ResponseKinds
<1>4. \/ /\ p.kind \in ResponseKinds
         /\ b2c' = Append(b2c, Response(p))
         /\ UNCHANGED out
      \/ p.kind = "PUBLISH_0" /\ UNCHANGED <<b2c, out>>
      \/ /\ p.kind \in {"PUBACK", "PUBCOMP"}
         /\ LET st == IF p.kind = "PUBACK" THEN "sent" ELSE "released"
                qos == IF p.kind = "PUBACK" THEN 1 ELSE 2
            IN out' = Advanced({m \in InFlight(p.id, st) :
                                  out[m].qos = qos}, "done")
         /\ UNCHANGED b2c
      \/ /\ p.kind = "PUBREC"
         /\ LET ms == {m \in InFlight(p.id, "sent") : out[m].qos = 2} IN
              /\ out' = Advanced(ms, "released")
              /\ b2c' = b2c \o SetToSeq({PubrelTo(m, out[m]) : m \in ms})
  BY DEF BrokerReceive
<1> HIDE DEF p
<1>5. CASE p.kind \in ResponseKinds
  BY <1>1, <1>2, <1>3, <1>4, <1>5 DEF BrokerAnswers
<1>6. CASE p.kind = "PUBLISH_0"
  <2>1. \A m \in Inbound : ~Concerns(p, m)
    BY <1>6 DEF Concerns
  <2> QED BY <1>1, <1>2, <1>3, <1>4, <1>6, <2>1 DEF BrokerIgnores
<1>7. CASE p.kind \in {"PUBACK", "PUBCOMP"}
  <2>1. out' = Advanced(About(p), "done") /\ UNCHANGED b2c
    <3>1. CASE p.kind = "PUBACK"
      <4>1. About(p) = {m \in InFlight(p.id, "sent") : out[m].qos = 1}
        BY <3>1 DEF About, Concerns, InFlight
      <4> QED BY <1>3, <1>4, <3>1, <4>1
    <3>2. CASE p.kind = "PUBCOMP"
      <4>1. About(p) = {m \in InFlight(p.id, "released") : out[m].qos = 2}
        BY <3>2 DEF About, Concerns, InFlight
      <4> QED BY <1>3, <1>4, <3>2, <4>1
    <3> QED BY <1>7, <3>1, <3>2
  <2>2. CASE About(p) = {}
    <3>1. \A m \in Inbound : ~Concerns(p, m)
      BY <2>2 DEF About
    <3>2. out' = out
      <4>1. CASE Inbound = {}
        BY <2>1, <4>1 DEF SessionInv, OutTypes, Advanced
      <4>2. CASE Inbound # {}
        BY <2>1, <2>2, <4>2, AdvancedOne
      <4> QED BY <4>1, <4>2
    <3> QED BY <1>1, <1>2, <1>3, <1>7, <2>1, <3>1, <3>2 DEF BrokerIgnores
  <2>3. CASE \E m \in Inbound : About(p) = {m} /\ Concerns(p, m)
    <3>1. PICK m \in Inbound : About(p) = {m} /\ Concerns(p, m)
      BY <2>3
    <3>2. out' = [out EXCEPT ![m].st = "done"]
      BY <2>1, <3>1, AdvancedOne
    <3> QED BY <1>1, <1>2, <1>7, <2>1, <3>1, <3>2 DEF BrokerCompletes
  <2> QED BY <2>2, <2>3, AboutOne
<1>8. CASE p.kind = "PUBREC"
  <2>0. About(p) = {m \in InFlight(p.id, "sent") : out[m].qos = 2}
    BY <1>8 DEF About, Concerns, InFlight
  <2>1. /\ out' = Advanced(About(p), "released")
        /\ b2c' = b2c \o SetToSeq({PubrelTo(m, out[m]) : m \in About(p)})
    BY <1>3, <1>4, <1>8, <2>0
  <2>2. CASE About(p) = {}
    <3>1. \A m \in Inbound : ~Concerns(p, m)
      BY <2>2 DEF About
    <3>2. out' = out
      <4>1. CASE Inbound = {}
        BY <2>1, <4>1 DEF SessionInv, OutTypes, Advanced
      <4>2. CASE Inbound # {}
        BY <2>1, <2>2, <4>2, AdvancedOne
      <4> QED BY <4>1, <4>2
    <3>3. {PubrelTo(m, out[m]) : m \in About(p)} = {}
      BY <2>2
    <3>4. b2c' = b2c \o <<>>
      BY <2>1, <3>3, OneOrNone
    <3>5. b2c' = b2c
      BY <1>1, <3>4
    <3> QED BY <1>1, <1>2, <1>3, <1>8, <3>1, <3>2, <3>5 DEF BrokerIgnores
  <2>3. CASE \E m \in Inbound : About(p) = {m} /\ Concerns(p, m)
    <3>1. PICK m \in Inbound : About(p) = {m} /\ Concerns(p, m)
      BY <2>3
    <3>2. out' = [out EXCEPT ![m].st = "released"]
      BY <2>1, <3>1, AdvancedOne
    <3>3. {PubrelTo(n, out[n]) : n \in About(p)} = {PubrelTo(m, out[m])}
      BY <3>1
    <3>4. b2c' = b2c \o <<PubrelTo(m, out[m])>>
      BY <2>1, <3>3, OneOrNone
    <3>5. PubrelTo(m, out[m]) \in Incoming
      <4>1. out[m].qos = 2 /\ out[m].id \in InboundIds
        BY <1>3, <1>8, <3>1 DEF Concerns, SessionInv, OutTypes
      <4> QED BY <4>1 DEF PubrelTo, Packet, Incoming
    <3>6. b2c' = Append(b2c, PubrelTo(m, out[m]))
      BY <1>1, <3>4, <3>5, ConcatOne
    <3> QED BY <1>1, <1>2, <1>8, <3>1, <3>2, <3>6 DEF BrokerReleases
  <2> QED BY <2>2, <2>3, AboutOne
<1> QED BY <1>4, <1>5, <1>6, <1>7, <1>8

LEMMA BrokerSendStep ==
  ASSUME SessionInv, NEW m \in Inbound, BrokerSend(m)
  PROVE  \/ \E qos \in {1, 2}, id \in InboundIds : SendsFirst(m, qos, id)
         \/ SendsAgain(m) \/ SendsPubrel(m)
<1>1. /\ up /\ greeted /\ m \notin on_wire /\ on_wire' = on_wire \cup {m}
      /\ UNCHANGED <<vars, up, breaks, c2b, greeted, srv_ids, log, lost>>
      /\ UNCHANGED <<got, kind_of>>
  BY DEF BrokerSend
<1>2. UNCHANGED <<Ours, Where, up, c2b, greeted, srv_ids, log, lost, got,
                  kind_of>>
  BY <1>1 DEF vars, stores, txs, session, history, state, Ours, Where
<1>3. \A p : b2c' = Append(b2c, p) => BrokerWrites(m, p)
  BY <1>1, <1>2, Zenon DEF BrokerWrites
<1>4. CASE /\ out[m].st = "new"
           /\ \E qos \in InboundQos, id \in InboundIds :
                /\ InFlight(id, "sent") \cup InFlight(id, "released") = {}
                /\ out' = [out EXCEPT ![m] =
                             [st |-> "sent", qos |-> qos, id |-> id]]
           /\ b2c' = Append(b2c, PublishTo(m, out'[m]))
  <2>1. PICK qos \in InboundQos, id \in InboundIds :
                /\ InFlight(id, "sent") \cup InFlight(id, "released") = {}
                /\ out' = [out EXCEPT ![m] =
                             [st |-> "sent", qos |-> qos, id |-> id]]
    BY <1>4
  <2>2. out'[m] = [st |-> "sent", qos |-> qos, id |-> id]
    BY <2>1 DEF SessionInv, OutTypes
  <2>3. PublishTo(m, out'[m]) = Packet("publish", qos, id, m)
    BY <2>2 DEF PublishTo
  <2>4. BrokerWrites(m, Packet("publish", qos, id, m))
    BY <1>3, <1>4, <2>3
  <2>5. \A n \in Inbound : OnItsWay(n) => out[n].id # id
    BY <2>1 DEF InFlight, OnItsWay
  <2>6. qos \in {1, 2}
    BY SessionFacts
  <2>7. SendsFirst(m, qos, id)
    BY <1>4, <2>1, <2>4, <2>5, Zenon DEF SendsFirst
  <2> QED BY <2>6, <2>7
<1>5. CASE /\ out[m].st = "sent"
           /\ b2c' = Append(b2c, PublishTo(m, out[m]))
           /\ UNCHANGED out
  BY <1>3, <1>5 DEF SendsAgain
<1>6. CASE /\ out[m].st = "released"
           /\ b2c' = Append(b2c, PubrelTo(m, out[m]))
           /\ UNCHANGED out
  BY <1>3, <1>6 DEF SendsPubrel
<1> QED BY <1>4, <1>5, <1>6, Zenon DEF BrokerSend

-----------------------------------------------------------------------------
(* The client's own invariants, in the composed system.                    *)
LEMMA SessionSteps ==
  ASSUME SessionInv, SNext
  PROVE  SessionStep
<1>1. CASE Open
  BY <1>1, OpenStep DEF SessionStep, ClientStep
<1>2. CASE Ask
  BY <1>2, AskStep DEF SessionStep, ClientStep
<1>3. CASE Prepare
  BY <1>3, PrepareStep DEF SessionStep, ClientStep
<1>4. CASE Send
  BY <1>4, SendStep DEF SessionStep, ClientStep
<1>5. CASE Receive
  BY <1>5, ReceiveStep DEF SessionStep, ClientStep
<1>5a. CASE ReceivePart
  BY <1>5a, PartStep, Zenon DEF SessionStep, ClientStep
<1>5b. CASE ReceiveRest
  BY <1>5b, RestStep DEF SessionStep, ClientStep
<1>6. CASE NoticeBreak \/ LateAnswer
  BY <1>6, NoticeStep DEF SessionStep, ClientStep
<1>7. CASE Break
  BY <1>7, BreakStep DEF SessionStep
<1>8. CASE Forget
  BY <1>8, ForgetStep DEF SessionStep
<1>9. CASE BrokerReceive
  BY <1>9, BrokerReceiveStep DEF SessionStep, BrokerStep
<1>10. CASE \E m \in Inbound : BrokerSend(m)
  BY <1>10, BrokerSendStep DEF SessionStep, BrokerStep
<1> QED
  BY <1>1, <1>2, <1>3, <1>4, <1>5, <1>5a, <1>5b, <1>6, <1>7, <1>8, <1>9,
     <1>10, Zenon DEF SNext

LEMMA ReceiveIsInput ==
  ASSUME SessionInv, Receive
  PROVE  Input
<1> DEFINE p == Head(b2c)
<1>1. p \in Incoming
  BY ReceiveFacts
<1>2. CASE p.type = "response"
  <2>1. Respond(p.kind, p.id) \/ Unexpected(p.kind, p.id)
    BY <1>2 DEF Receive
  <2>2. p.kind \in ResponseKinds /\ p.id \in Ids
    BY <1>1, <1>2, IncomingFacts
  <2> QED BY <2>1, <2>2 DEF Input
<1>3. CASE p.type = "publish"
  <2>1. ReceivePublish(p.kind, p.id, TRUE)
    BY <1>3 DEF Receive
  <2>2. p.kind \in {1, 2} /\ p.id \in InboundIds /\ TRUE \in Results
    BY <1>1, <1>3, IncomingFacts DEF Results
  <2>3. p.kind \in 0 .. 2
    BY <2>2
  <2> QED BY <2>1, <2>2, <2>3 DEF Input
<1>4. CASE p.type = "pubrel"
  <2>1. ReceivePubrel(p.id)
    BY <1>4 DEF Receive
  <2>2. p.id \in InboundIds
    BY <1>1, <1>4, IncomingFacts
  <2> QED BY <2>1, <2>2 DEF Input
<1> QED BY <1>1, <1>2, <1>3, <1>4, IncomingFacts

LEMMA SessionRefinesClient ==
  ASSUME SessionInv, [SNext]_svars
  PROVE  [Next]_vars
<1>1. CASE Open
  BY <1>1, SessionFacts DEF Open, Next, Application
<1>2. CASE Ask
  BY <1>2, SessionFacts DEF Ask, Next, Application
<1>3. CASE Prepare
  BY <1>3 DEF Prepare, Next, Application, Output
<1>4. CASE Send
  BY <1>4 DEF Send, Next, Output
<1>5. CASE Receive
  BY <1>5, ReceiveIsInput DEF Next
<1>5a. CASE ReceivePart
  <2>1. /\ Head(b2c) \in Incoming /\ Head(b2c).type = "response"
        /\ BeginResponse(Head(b2c).kind, Head(b2c).id)
    BY <1>5a, ReceiveFacts DEF ReceivePart
  <2>2. Head(b2c).kind \in ResponseKinds /\ Head(b2c).id \in Ids
    BY <2>1, IncomingFacts
  <2> QED BY <2>1, <2>2 DEF Next, Input
<1>5b. CASE ReceiveRest
  BY <1>5b DEF ReceiveRest, Next, Input
<1>6. CASE NoticeBreak
  BY <1>6 DEF NoticeBreak, Next
<1>7. CASE LateAnswer
  BY <1>7 DEF LateAnswer, Next, KeepAlive
<1>8. CASE Break
  BY <1>8 DEF Break
<1>9. CASE Forget
  BY <1>9 DEF Forget
<1>10. CASE BrokerReceive
  BY <1>10 DEF BrokerReceive
<1>11. ASSUME NEW m \in Inbound, BrokerSend(m)
       PROVE  UNCHANGED vars
  BY <1>11 DEF BrokerSend
<1>12. CASE UNCHANGED svars
  BY <1>12 DEF svars
<1> QED
  BY <1>1, <1>2, <1>3, <1>4, <1>5, <1>5a, <1>5b, <1>6, <1>7, <1>8, <1>9,
     <1>10, <1>11, <1>12, Zenon DEF SNext

(* The step keeps the client running or not; the decoder of a running      *)
(* client is empty, as it was, or takes what ReceivePart gives it.         *)
RunsOn ==
  /\ error' # "CLOSED" /\ (requests_enabled' => ~closed')
  /\ ~closed' =>
       /\ ~tx_closed'
       /\ rx_value' = NoEntry \/ (~closed /\ UNCHANGED rx_value) \/ ReceivePart

LEMMA FinishRuns ==
  ASSUME ~closed, ~tx_closed, UNCHANGED txs, requests_enabled => ~closed,
         error # "CLOSED", NEW e, NEW s, Finish(e, s)
  PROVE  RunsOn
<1>1. CallBack(e) \/ (rx_value' = NoEntry /\ UNCHANGED state)
  BY DEF Finish
<1>2. ~tx_closed'
  BY DEF txs
<1>3. CASE CallBack(e)
  <2>1. PICK ok \in BOOLEAN :
          /\ rx_value' = IF ok THEN NoEntry ELSE e
          /\ IF e.kind = "CONNECT" /\ ok
               THEN /\ closed' = FALSE /\ error' = "NONE"
                    /\ requests_enabled' = TRUE
                    /\ UNCHANGED connect_enabled
               ELSE IF ok THEN UNCHANGED state
               ELSE SetStateFailed("FAILED")
    BY <1>3 DEF CallBack, Results
  <2>2. CASE ok /\ e.kind = "CONNECT"
    BY <1>2, <2>1, <2>2 DEF RunsOn
  <2>3. CASE ok /\ e.kind # "CONNECT"
    BY <1>2, <2>1, <2>3 DEF RunsOn, state
  <2>4. CASE ~ok
    BY <2>1, <2>4 DEF RunsOn, SetStateFailed
  <2> QED BY <2>2, <2>3, <2>4
<1>4. CASE rx_value' = NoEntry /\ UNCHANGED state
  BY <1>2, <1>4 DEF RunsOn, state
<1> QED BY <1>1, <1>3, <1>4

LEMMA StepRuns ==
  ASSUME SessionInv, SNext
  PROVE  RunsOn
<1>0. /\ error # "CLOSED" /\ tx_closed \in BOOLEAN
      /\ ~closed => tx_closed = FALSE
      /\ requests_enabled => ~closed
  BY ClientNow DEF TypeOK
<1>a. UNCHANGED <<state, rx_value, tx_closed>> => RunsOn
  BY <1>0 DEF state, RunsOn
<1>b. \A e \in {"FAILED", "TIMEOUT"} : SetStateFailed(e) => RunsOn
  BY DEF SetStateFailed, RunsOn
<1>c. SetStateInitial => RunsOn
  <2>1. SetStateInitial => error' = "NONE" /\ closed' /\ ~requests_enabled'
    BY DEF SetStateInitial
  <2> QED BY <2>1 DEF RunsOn
<1>1. CASE Open
  BY <1>0, <1>1 DEF Open, Connect, SetStateConnecting, RunsOn
<1>2. CASE Ask
  BY <1>a, <1>2 DEF Ask, Request, txs
<1>3. CASE Prepare
  <2>1. CASE Encode
    <3>1. Current(CurrentStore).kind # "DISCONNECT"
      <4>1. Internal /\ UNCHANGED kind_of
        BY <1>3 DEF Prepare
      <4>2. CASE EncodesConnect
        <5>1. Current(CurrentStore) = ConnectEntry
          BY <4>2 DEF EncodesConnect, CurrentStore
        <5> QED BY <5>1, ConnectFacts
      <4>3. ASSUME NEW e \in CarriedEntries, Encodes(e)
            PROVE  Current(CurrentStore).kind # "DISCONNECT"
        <5>1. Current(CurrentStore) = e
          BY <4>3 DEF Encodes, CurrentStore
        <5> QED BY <5>1, CarriedFacts
      <4> QED BY <2>1, <4>1, <4>2, <4>3, EncodeStep
    <3>2. /\ tx_closed' = FALSE /\ rx_value' = rx_value /\ ~closed
          /\ SetStateFailed("FAILED") \/ UNCHANGED state
      BY <2>1, <3>1 DEF Encode, Encoding, Running
    <3> QED BY <1>0, <1>b, <3>2 DEF RunsOn, state
  <2>2. CASE Reset
    BY <1>c, <2>2 DEF Reset
  <2> QED BY <1>3, <2>1, <2>2 DEF Prepare
<1>4. CASE Send
  BY <1>a, <1>4 DEF Send, Write
<1>5. CASE Receive
  <2>0. ~closed
    BY <1>5, ReceiveFacts
  <2>1. CASE \E kind, id : Respond(kind, id)
    BY <1>0, <2>0, <2>1, FinishRuns DEF Respond
  <2>2. CASE \E kind, id : Unexpected(kind, id)
    BY <1>b, <2>2 DEF Unexpected, Fail
  <2>3. CASE \E qos, id : ReceivePublish(qos, id, TRUE)
    <3>1. /\ UNCHANGED state \/ SetStateFailed("FAILED")
          /\ UNCHANGED <<tx_closed, rx_value>>
      BY <2>3 DEF ReceivePublish, txs
    <3> QED BY <1>a, <1>b, <3>1
  <2>4. CASE \E id : ReceivePubrel(id)
    <3>1. /\ UNCHANGED state \/ SetStateFailed("FAILED")
          /\ UNCHANGED <<tx_closed, rx_value>>
      BY <2>4 DEF ReceivePubrel, txs
    <3> QED BY <1>a, <1>b, <3>1
  <2> QED BY <1>5, <2>1, <2>2, <2>3, <2>4 DEF Receive
<1>5a. CASE ReceivePart
  <2>1. UNCHANGED <<state, tx_closed>> /\ ~closed
    BY <1>5a, ReceiveFacts DEF ReceivePart, BeginResponse, txs
  <2> QED BY <1>0, <1>5a, <2>1 DEF RunsOn, state
<1>5b. CASE ReceiveRest
  BY <1>0, <1>5b, FinishRuns DEF ReceiveRest, FinishResponse, Running
<1>6. CASE NoticeBreak
  BY <1>b, <1>c, <1>6 DEF NoticeBreak, Eof, Fail
<1>7. CASE LateAnswer
  BY <1>b, <1>7 DEF LateAnswer, Timeout
<1>8. CASE UNCHANGED vars
  BY <1>a, <1>8 DEF vars, txs
<1> QED
  BY <1>1, <1>2, <1>3, <1>4, <1>5, <1>5a, <1>5b, <1>6, <1>7, <1>8
     DEF SNext, Break, Forget, BrokerReceive, BrokerSend

LEMMA FlagsKept ==
  ASSUME SessionInv, SNext, RequestInv'
  PROVE  ClientFlags'
<1>1. AllKept
  BY SessionFacts DEF AllKept
<1>2. ~clean_session' /\ ~connect_clean'
  BY <1>1 DEF RequestInv, Sessions
<1>3. RunsOn
  BY StepRuns
<1>4. ASSUME ~closed'
      PROVE  rx_value' \in Halves
  <2>1. CASE ReceivePart
    <3>1. CASE rx_value' = ConnectEntry
      BY <3>1 DEF Halves
    <3>2. ASSUME NEW k \in 1 .. Count(main_store),
                 rx_value' = main_store.entries[k],
                 rx_value'.kind = "SUBSCRIBE"
          PROVE  rx_value' \in Halves
      BY <3>2, MainKept DEF Halves
    <3> QED BY <2>1, <3>1, <3>2, PartStep
  <2>2. CASE ~closed /\ UNCHANGED rx_value
    BY <2>2, ClientNow
  <2> QED BY <1>3, <1>4, <2>1, <2>2 DEF RunsOn, Halves
<1> QED BY <1>2, <1>3, <1>4 DEF ClientFlags, RunsOn

-----------------------------------------------------------------------------
(* What the stores and the queues hold stays what it should be.            *)
LEMMA AckEntryType ==
  ASSUME NEW kind \in AckKinds, NEW id \in InboundIds
  PROVE  /\ Entry(kind, id, None) \in CarriedEntries
         /\ Entry(kind, id, None).kind = kind
         /\ Entry(kind, id, None).id = id
<1>1. kind \in Kinds
  BY DEF AckKinds, Kinds
<1>2. Entry(kind, id, None) \in Entries
  BY <1>1, EntryType
<1> QED BY <1>2 DEF CarriedEntries, Entry

LEMMA PubrelType ==
  ASSUME NEW e \in CarriedEntries, e.kind = "PUBLISH_2"
  PROVE  /\ PubrelFor(e) \in CarriedEntries /\ PubrelFor(e).kind = "PUBREL"
         /\ PubrelFor(e).id = e.id /\ PubrelFor(e).val = e.val
<1>1. e.kind \in RequestCarriers /\ "PUBREL" \in RequestCarriers
      /\ "PUBREL" \in Kinds
  BY DEF RequestCarriers, RequestKinds, Kinds
<1>2. e.id \in Ids /\ e.val \in Requests
  BY <1>1, CarriedFacts
<1>3. PubrelFor(e) \in Entries
  BY <1>1, <1>2, EntryType DEF PubrelFor
<1> QED BY <1>1, <1>2, <1>3 DEF CarriedEntries, PubrelFor, Entry

LEMMA AcknowledgingType ==
  ASSUME SessionInv, NEW kind \in AckKinds, NEW id \in InboundIds
  PROVE  /\ WellFormed(Acknowledging(kind, id), CarriedEntries)
         /\ Acknowledging(kind, id).pos = main_store.pos
BY MainKept, AckEntryType, AppendedLemma DEF Acknowledging

LEMMA SettledType ==
  ASSUME NEW s, WellFormed(s, CarriedEntries), NEW k \in 1 .. Count(s)
  PROVE  WellFormed(Settled(s, k), CarriedEntries)
<1>1. WellFormed(PopAt(s, k), CarriedEntries)
  BY PopAtLemma
<1>2. s.entries[k] \in CarriedEntries
  BY ElementOfSeq DEF WellFormed, Count
<1> QED BY <1>1, <1>2, PubrelType, AppendedLemma DEF Settled

LEMMA EncodedStore ==
  ASSUME NEW s, WellFormed(s, CarriedEntries), HasCurrent(s)
  PROVE  /\ Current(s) \in CarriedEntries
         /\ WellFormed(MarkCurrent(s), CarriedEntries)
         /\ WellFormed(DropCurrent(s), CarriedEntries)
         /\ s.pos \in Nat /\ s.pos + 1 \in 1 .. Count(s)
<1>1. s.pos \in Nat /\ Count(s) \in Nat /\ s.pos + 1 \in 1 .. Count(s)
  BY LenProperties DEF WellFormed, Count, HasCurrent
<1>2. WellFormed(DropCurrent(s), CarriedEntries)
  BY <1>1, PopAtLemma DEF DropCurrent
<1> QED BY <1>1, <1>2, MarkCurrentLemma

LEMMA UnmarkedStore ==
  ASSUME NEW E, NEW s, WellFormed(s, E)
  PROVE  /\ WellFormed(UnmarkAll(s), E) /\ UnmarkAll(s).pos = 0
         /\ UnmarkAll(s).entries = s.entries
         /\ Count(UnmarkAll(s)) = Count(s)
<1>1. s \in [entries: Seq(E), pos: Nat] /\ Len(s.entries) \in Nat
  BY LenProperties DEF WellFormed
<1>2. UnmarkAll(s) = [entries |-> s.entries, pos |-> 0]
  BY <1>1 DEF UnmarkAll
<1> QED BY <1>1, <1>2 DEF WellFormed, Count

LEMMA ResponseType ==
  ASSUME NEW p \in Outgoing, p.kind \in ResponseKinds
  PROVE  /\ Response(p) \in Incoming /\ Response(p) \in Responses
         /\ Response(p).kind = p.kind /\ Response(p).id = p.id
         /\ Response(p).type = "response"
         /\ AnswersRequest(Response(p)) <=> Awaited(p)
         /\ p \in CarriedEntries => Awaited(p)
         /\ p \in CarriedEntries => Response(p) # Response(ConnectEntry)
<1>1. /\ Response(p).kind = p.kind /\ Response(p).id = p.id
      /\ Response(p).type = "response" /\ Response(p).msg = None
  BY DEF Response, Packet
<1>2. AnswersRequest(Response(p)) <=> Awaited(p)
  BY <1>1 DEF AnswersRequest, Awaited
<1>3. CASE p = ConnectEntry
  BY <1>1, <1>2, <1>3, ConnectFacts DEF Incoming
<1>4. CASE p \in CarriedEntries
  <2>1. Awaited(p) /\ p.id \in Ids /\ p.kind # "CONNECT"
    BY <1>4, CarriedFacts
  <2>2. Response(p) \in Responses
    BY <2>1 DEF Responses, Response, Packet
  <2>3. Response(p) # Response(ConnectEntry)
    BY <1>1, <2>1, ConnectFacts
  <2> QED BY <1>1, <1>2, <2>1, <2>2, <2>3 DEF Incoming
<1> QED BY <1>3, <1>4 DEF Outgoing

LEMMA SentType ==
  ASSUME NEW m \in Inbound, NEW qos \in {1, 2}, NEW id \in InboundIds
  PROVE  /\ Packet("publish", qos, id, m) \in Incoming
         /\ qos = 2 => Packet("pubrel", qos, id, m) \in Incoming
BY DEF Packet, Incoming

LEMMA SentAgainType ==
  ASSUME SessionInv, NEW m \in Inbound
  PROVE  /\ out[m].st = "sent" => PublishTo(m, out[m]) \in Incoming
         /\ out[m].st = "sent" /\ out[m].qos = 2 =>
              PubrelTo(m, out[m]) \in Incoming
         /\ out[m].st = "released" => PubrelTo(m, out[m]) \in Incoming
         /\ PublishTo(m, out[m]).type = "publish"
         /\ PubrelTo(m, out[m]).type = "pubrel"
<1>1. /\ out[m].st # "new" => out[m].qos \in {1, 2} /\ out[m].id \in InboundIds
      /\ out[m].st = "released" => out[m].qos = 2
  BY DEF SessionInv, OutTypes
<1> QED BY <1>1, SentType DEF PublishTo, PubrelTo, Packet

LEMMA QueuesNow ==
  ASSUME SessionInv
  PROVE  /\ WellFormed(main_store, CarriedEntries)
         /\ WellFormed(connect_store, {ConnectEntry})
         /\ write_buf \in Seq(Outgoing) /\ c2b \in Seq(Outgoing)
         /\ b2c \in Seq(Incoming)
         /\ ~up => c2b = <<>> /\ b2c = <<>>
         /\ up \in BOOLEAN
         /\ ConnectEntry \in Outgoing /\ CarriedEntries \subseteq Outgoing
BY ConnectFacts DEF SessionInv, QueueTypes, BrokerTypes, Outgoing

LEMMA QueueTypesKept ==
  ASSUME SessionInv, SessionStep
  PROVE  QueueTypes'
<1> USE QueuesNow
<1>1. CASE Opens
  <2>1. WellFormed([entries |-> <<ConnectEntry>>, pos |-> 0], {ConnectEntry})
    BY DEF WellFormed, Count
  <2> QED BY <1>1, <2>1, EmptySeq DEF Opens, QueueTypes
<1>2. ASSUME NEW e \in CarriedEntries, Accepts(e)
      PROVE  QueueTypes'
  BY <1>2, AppendedLemma DEF Accepts, QueueTypes, Where, Wires
<1>3. CASE Stops
  <2>1. WellFormed(EmptyStore, {ConnectEntry})
    BY EmptySeq DEF WellFormed, Count, EmptyStore
  <2> QED BY <1>3, <2>1 DEF Stops, QueueTypes, Ours, Where, Wires
<1>4. CASE EncodesConnect
  <2>1. WellFormed(MarkCurrent(connect_store), {ConnectEntry})
    BY <1>4, MarkCurrentLemma DEF EncodesConnect
  <2> QED BY <1>4, <2>1, AppendFacts DEF EncodesConnect, QueueTypes, Wires
<1>5. ASSUME NEW e \in CarriedEntries, Encodes(e)
      PROVE  QueueTypes'
  BY <1>5, EncodedStore, AppendFacts DEF Encodes, QueueTypes, Wires
<1>6. CASE Sends
  BY <1>6, TailFacts, AppendFacts DEF Sends, QueueTypes, Where
<1>7. ASSUME NEW p, Takes(p)
      PROVE  /\ write_buf' \in Seq(Outgoing) /\ c2b' \in Seq(Outgoing)
             /\ b2c' \in Seq(Incoming)
             /\ ~up' => c2b' = <<>> /\ b2c' = <<>>
  BY <1>7, TailFacts DEF Takes
<1>8. CASE TakesConnack
  <2>1. WellFormed(EmptyStore, {ConnectEntry})
    BY EmptySeq DEF WellFormed, Count, EmptyStore
  <2>2. WellFormed(UnmarkAll(main_store), CarriedEntries)
    BY UnmarkedStore
  <2> QED BY <1>7, <1>8, <2>1, <2>2 DEF TakesConnack, QueueTypes
<1>8a. CASE BeginsConnack \/ EndsConnack
  <2>1. WellFormed(EmptyStore, {ConnectEntry})
    BY EmptySeq DEF WellFormed, Count, EmptyStore
  <2>2. CASE BeginsConnack
    BY <1>7, <2>1, <2>2 DEF BeginsConnack, QueueTypes
  <2>3. CASE EndsConnack
    <3>1. WellFormed(UnmarkAll(main_store), CarriedEntries)
      BY UnmarkedStore
    <3> QED BY <2>1, <2>3, <3>1 DEF EndsConnack, QueueTypes, Wires
  <2> QED BY <1>8a, <2>2, <2>3
<1>9. ASSUME NEW p, NEW k \in Nat, GetsResponse(p, k)
      PROVE  QueueTypes'
  <2>1. k \in 1 .. Count(main_store)
    BY <1>9, MainKept DEF GetsResponse, IsAnswer
  <2>2. WellFormed(Settled(main_store, k), CarriedEntries)
    BY <2>1, SettledType
  <2> QED BY <1>7, <1>9, <2>2 DEF GetsResponse, QueueTypes
<1>10. ASSUME NEW p \in Incoming, GetsPublish(p)
       PROVE  QueueTypes'
  <2>1. p.id \in InboundIds
    BY <1>10, IncomingFacts DEF GetsPublish
  <2>2. WellFormed(Acknowledging("PUBACK", p.id), CarriedEntries)
        /\ WellFormed(Acknowledging("PUBREC", p.id), CarriedEntries)
    BY <2>1, AcknowledgingType DEF AckKinds
  <2> QED BY <1>7, <1>10, <2>2 DEF GetsPublish, QueueTypes
<1>11. ASSUME NEW p \in Incoming, GetsPubrel(p)
       PROVE  QueueTypes'
  <2>1. p.id \in InboundIds
    BY <1>11, IncomingFacts DEF GetsPubrel
  <2>2. WellFormed(Acknowledging("PUBCOMP", p.id), CarriedEntries)
    BY <2>1, AcknowledgingType DEF AckKinds
  <2> QED BY <1>7, <1>11, <2>2 DEF GetsPubrel, QueueTypes
<1>12. CASE Breaks
  BY <1>12, EmptySeq DEF Breaks, QueueTypes, Ours, Where
<1>13. CASE Forgets
  BY <1>13 DEF Forgets, QueueTypes, Ours, Where, Wires
<1>14. ASSUME NEW p, BrokerTakes(p),
              b2c' = b2c \/ \E q \in Incoming : b2c' = Append(b2c, q)
       PROVE  QueueTypes'
  <2>1. b2c' \in Seq(Incoming)
    <3>1. b2c \in Seq(Incoming)
      BY QueuesNow
    <3>2. \A q \in Incoming : Append(b2c, q) \in Seq(Incoming)
      BY <3>1, AppendFacts
    <3> QED BY <1>14, <3>1, <3>2, Zenon
  <2>2. c2b' \in Seq(Outgoing) /\ up'
    BY <1>14, TailFacts DEF BrokerTakes
  <2> QED BY <1>14, <2>1, <2>2 DEF BrokerTakes, QueueTypes, Ours, Where
<1>15. ASSUME NEW p \in Outgoing,
              \/ BrokerAnswers(p) \/ BrokerIgnores(p)
              \/ \E m \in Inbound : BrokerReleases(p, m)
                                      \/ BrokerCompletes(p, m)
       PROVE  QueueTypes'
  <2>1. CASE BrokerAnswers(p)
    BY <1>14, <2>1, ResponseType DEF BrokerAnswers
  <2>2. CASE BrokerIgnores(p)
    BY <1>14, <2>2 DEF BrokerIgnores
  <2>3. ASSUME NEW m \in Inbound, BrokerReleases(p, m)
        PROVE  QueueTypes'
    <3>1. PubrelTo(m, out[m]) \in Incoming
      BY <2>3, SentAgainType DEF BrokerReleases, Concerns
    <3> QED BY <1>14, <2>3, <3>1 DEF BrokerReleases
  <2>4. ASSUME NEW m \in Inbound, BrokerCompletes(p, m)
        PROVE  QueueTypes'
    BY <1>14, <2>4 DEF BrokerCompletes
  <2> QED BY <1>15, <2>1, <2>2, <2>3, <2>4
<1>16. ASSUME NEW m, NEW q \in Incoming, BrokerWrites(m, q)
       PROVE  QueueTypes'
  <2>1. b2c' \in Seq(Incoming)
    BY <1>16, AppendFacts DEF BrokerWrites
  <2> QED BY <1>16, <2>1 DEF BrokerWrites, QueueTypes, Ours, Where
<1>17. ASSUME NEW m \in Inbound,
              \/ \E qos \in {1, 2}, id \in InboundIds : SendsFirst(m, qos, id)
              \/ SendsAgain(m) \/ SendsPubrel(m)
       PROVE  QueueTypes'
  BY <1>16, <1>17, SentType, SentAgainType
     DEF SendsFirst, SendsAgain, SendsPubrel
<1> QED
  BY <1>1, <1>2, <1>3, <1>4, <1>5, <1>6, <1>8, <1>8a, <1>9, <1>10, <1>11,
     <1>12, <1>13, <1>15, <1>17, Zenon DEF SessionStep, ClientStep, BrokerStep

-----------------------------------------------------------------------------
(* The broker's messages, and the phases of a connection.                  *)
LEMMA OutNow ==
  ASSUME SessionInv
  PROVE  /\ out \in [Inbound -> [st: Stages, qos: 0 .. 2, id: Nat]]
         /\ \A m \in Inbound :
              /\ out[m].st # "new" =>
                   out[m].qos \in {1, 2} /\ out[m].id \in InboundIds
              /\ out[m].st = "released" => out[m].qos = 2
         /\ \A m, n \in Inbound :
              m # n /\ OnItsWay(m) /\ OnItsWay(n) => out[m].id # out[n].id
         /\ InboundIds \subseteq Nat
BY SizeFacts DEF SessionInv, OutTypes

(* A message changes its stage.                                            *)
LEMMA StageTypes ==
  ASSUME SessionInv, NEW m \in Inbound, NEW st \in Stages \ {"new"},
         out[m].st # "new", st \in {"sent", "released"} => OnItsWay(m),
         st = "released" => out[m].qos = 2,
         out' = [out EXCEPT ![m].st = st]
  PROVE  /\ OutTypes' /\ out'[m] = [out[m] EXCEPT !.st = st]
         /\ out'[m].st = st /\ out'[m].qos = out[m].qos
         /\ out'[m].id = out[m].id
         /\ \A n \in Inbound : n # m => out'[n] = out[n]
<1>1. /\ out'[m] = [out[m] EXCEPT !.st = st]
      /\ out'[m].st = st /\ out'[m].qos = out[m].qos
      /\ out'[m].id = out[m].id
      /\ \A n \in Inbound : n # m => out'[n] = out[n]
      /\ out' \in [Inbound -> [st: Stages, qos: 0 .. 2, id: Nat]]
  BY OutNow
<1>2. \A n \in Inbound :
        /\ out'[n].id = out[n].id /\ out'[n].qos = out[n].qos
        /\ out'[n].st \in {"sent", "released"} => OnItsWay(n)
        /\ out'[n].st # "new" => out[n].st # "new"
        /\ out'[n].st = "released" => out[n].qos = 2
  BY <1>1, OutNow DEF OnItsWay
<1>3. OutTypes'
  BY <1>1, <1>2, OutNow DEF OutTypes, OnItsWay
<1> QED BY <1>1, <1>3

LEMMA LostTypes ==
  ASSUME SessionInv, Forgets
  PROVE  /\ OutTypes'
         /\ \A m \in Inbound :
              /\ out'[m].id = out[m].id /\ out'[m].qos = out[m].qos
              /\ out'[m].st = IF OnItsWay(m) THEN "lost" ELSE out[m].st
<1>1. /\ \A m \in Inbound :
           /\ out'[m].id = out[m].id /\ out'[m].qos = out[m].qos
           /\ out'[m].st = IF OnItsWay(m) THEN "lost" ELSE out[m].st
      /\ out' \in [Inbound -> [st: Stages, qos: 0 .. 2, id: Nat]]
  BY OutNow DEF Forgets, Stages
<1>2. \A m \in Inbound : out'[m].st \notin {"sent", "released"}
  BY <1>1 DEF OnItsWay
<1>3. OutTypes'
  BY <1>1, <1>2, OutNow DEF OutTypes, OnItsWay
<1> QED BY <1>1, <1>3

LEMMA FirstTypes ==
  ASSUME SessionInv, NEW m \in Inbound, NEW qos \in {1, 2},
         NEW id \in InboundIds, SendsFirst(m, qos, id)
  PROVE  /\ OutTypes'
         /\ out'[m] = [st |-> "sent", qos |-> qos, id |-> id]
         /\ \A n \in Inbound : n # m => out'[n] = out[n]
<1>1. /\ out'[m] = [st |-> "sent", qos |-> qos, id |-> id]
      /\ \A n \in Inbound : n # m => out'[n] = out[n]
      /\ out' \in [Inbound -> [st: Stages, qos: 0 .. 2, id: Nat]]
  BY OutNow DEF SendsFirst, Stages
<1>2. \A n \in Inbound : OnItsWay(n) => out[n].id # id
  BY DEF SendsFirst
<1>3. out'[m].st = "sent" /\ out'[m].qos = qos /\ out'[m].id = id
  BY <1>1
<1>4. \A n \in Inbound :
        /\ out'[n].st # "new" =>
             out'[n].qos \in {1, 2} /\ out'[n].id \in InboundIds
        /\ out'[n].st = "released" => out'[n].qos = 2
  BY <1>1, <1>3, OutNow
<1>5. ASSUME NEW a \in Inbound, NEW b \in Inbound, a # b, OnItsWay(a)',
             OnItsWay(b)'
      PROVE  out'[a].id # out'[b].id
  <2>1. CASE a = m
    BY <1>1, <1>2, <1>3, <1>5, <2>1 DEF OnItsWay
  <2>2. CASE b = m
    BY <1>1, <1>2, <1>3, <1>5, <2>2 DEF OnItsWay
  <2>3. CASE a # m /\ b # m
    BY <1>1, <1>5, <2>3, OutNow DEF OnItsWay
  <2> QED BY <2>1, <2>2, <2>3
<1> QED BY <1>1, <1>4, <1>5 DEF OutTypes

LEMMA ReleasesTypes ==
  ASSUME SessionInv, NEW p, NEW m \in Inbound, BrokerReleases(p, m)
  PROVE  /\ OutTypes' /\ out[m].st = "sent" /\ out[m].qos = 2
         /\ out[m].id = p.id
         /\ out'[m].st = "released" /\ out'[m].qos = 2
         /\ out'[m].id = out[m].id
         /\ \A n \in Inbound : n # m => out'[n] = out[n]
<1>1. /\ out[m].st = "sent" /\ out[m].qos = 2 /\ out[m].id = p.id
      /\ out' = [out EXCEPT ![m].st = "released"]
  BY DEF BrokerReleases, Concerns
<1>2. "released" \in Stages \ {"new"} /\ OnItsWay(m) /\ out[m].st # "new"
  BY <1>1 DEF Stages, OnItsWay
<1> QED BY <1>1, <1>2, StageTypes

LEMMA CompletesTypes ==
  ASSUME SessionInv, NEW p, NEW m \in Inbound, BrokerCompletes(p, m)
  PROVE  /\ OutTypes' /\ OnItsWay(m) /\ out[m].id = p.id
         /\ out[m].st = IF p.kind = "PUBACK" THEN "sent" ELSE "released"
         /\ out[m].qos = IF p.kind = "PUBACK" THEN 1 ELSE 2
         /\ out'[m].st = "done" /\ out'[m].qos = out[m].qos
         /\ out'[m].id = out[m].id
         /\ \A n \in Inbound : n # m => out'[n] = out[n]
<1>1. /\ out[m].st = IF p.kind = "PUBACK" THEN "sent" ELSE "released"
      /\ out[m].qos = IF p.kind = "PUBACK" THEN 1 ELSE 2
      /\ out[m].id = p.id
      /\ out' = [out EXCEPT ![m].st = "done"]
  BY DEF BrokerCompletes, Concerns
<1>2. "done" \in Stages \ {"new"} /\ OnItsWay(m) /\ out[m].st # "new"
      /\ "done" \notin {"sent", "released"} /\ "done" # "released"
  BY <1>1 DEF Stages, OnItsWay
<1>3. /\ OutTypes' /\ out'[m].st = "done" /\ out'[m].qos = out[m].qos
      /\ out'[m].id = out[m].id
      /\ \A n \in Inbound : n # m => out'[n] = out[n]
  BY <1>1, <1>2, StageTypes
<1> QED BY <1>1, <1>2, <1>3

(* The other steps leave the broker's messages alone.                      *)
LEMMA OutTypesKept ==
  ASSUME SessionInv, SessionStep
  PROVE  OutTypes'
<1>1. CASE UNCHANGED out
  BY <1>1 DEF SessionInv, OutTypes, OnItsWay
<1>2. CASE Forgets
  BY <1>2, LostTypes
<1>3. ASSUME NEW p, NEW m \in Inbound,
             BrokerReleases(p, m) \/ BrokerCompletes(p, m)
      PROVE  OutTypes'
  BY <1>3, ReleasesTypes, CompletesTypes
<1>4. ASSUME NEW m \in Inbound, NEW qos \in {1, 2}, NEW id \in InboundIds,
             SendsFirst(m, qos, id)
      PROVE  OutTypes'
  BY <1>4, FirstTypes
<1>5. ClientStep \/ Breaks => UNCHANGED out
  BY DEF ClientStep, Breaks, Opens, Accepts, Stops, EncodesConnect, Encodes,
         Sends, TakesConnack, BeginsConnack, EndsConnack, GetsResponse,
         GetsPublish, GetsPubrel, Takes, broker
<1>6. \A p : BrokerAnswers(p) \/ BrokerIgnores(p) => UNCHANGED out
  BY DEF BrokerAnswers, BrokerIgnores
<1>7. \A m : SendsAgain(m) \/ SendsPubrel(m) => UNCHANGED out
  BY DEF SendsAgain, SendsPubrel
<1> QED
  BY <1>1, <1>2, <1>3, <1>4, <1>5, <1>6, <1>7, Zenon
     DEF SessionStep, BrokerStep

LEMMA GotTypes ==
  ASSUME SessionInv, NEW p \in Incoming, GetsPublish(p)
  PROVE  got' \in [Inbound -> Nat]
BY IncomingFacts DEF SessionInv, BrokerTypes, GetsPublish

LEMMA LogTypes ==
  ASSUME SessionInv, NEW p \in Outgoing, BrokerTakes(p)
  PROVE  /\ log' \in Seq(Requests) /\ srv_ids' \subseteq Ids
         /\ greeted' \in BOOLEAN
<1>1. log \in Seq(Requests) /\ srv_ids \subseteq Ids /\ greeted \in BOOLEAN
  BY DEF SessionInv, BrokerTypes
<1>2. Publishes(p) => p.val \in Requests
  <2>1. Publishes(p) => p.kind \in RequestCarriers
    BY DEF Publishes, RequestCarriers, RequestKinds
  <2>2. p.kind \in RequestCarriers => p \in CarriedEntries
    BY ConnectFacts DEF RequestCarriers, RequestKinds, Outgoing
  <2> QED BY <2>1, <2>2, CarriedFacts
<1>3. p.kind = "PUBLISH_2" => p.id \in Ids
  <2>1. p.kind = "PUBLISH_2" =>
          p \in CarriedEntries /\ p.kind \in RequestCarriers
    BY ConnectFacts DEF RequestCarriers, RequestKinds, Outgoing
  <2> QED BY <2>1, CarriedFacts
<1>4. log' \in Seq(Requests)
  BY <1>1, <1>2, AppendFacts DEF BrokerTakes
<1>5. srv_ids' \subseteq Ids /\ greeted' \in BOOLEAN
  BY <1>1, <1>3 DEF BrokerTakes
<1> QED BY <1>4, <1>5

LEMMA BrokerTypesKept ==
  ASSUME SessionInv, SessionStep
  PROVE  BrokerTypes'
<1> DEFINE B == <<broker, got, kind_of, up>>
<1>0. /\ up \in BOOLEAN /\ greeted \in BOOLEAN
      /\ srv_ids \subseteq Ids /\ on_wire \subseteq Inbound
      /\ log \in Seq(Requests) /\ forgets \in Nat
      /\ stale \subseteq InboundIds /\ id_set \subseteq InboundIds
      /\ got \in [Inbound -> Nat]
      /\ kind_of \in [Requests -> SessionKinds \cup {"NONE"}]
      /\ accepted \in Nat /\ NumRequests \in Nat
  <2>1. accepted \in Nat /\ NumRequests \in Nat /\ id_set \subseteq InboundIds
    BY SizeFacts, ClientNow DEF TypeOK
  <2> QED BY <2>1 DEF SessionInv, BrokerTypes
<1>1. CASE UNCHANGED B
  BY <1>0, <1>1 DEF BrokerTypes, broker, lost
<1>2. CASE Opens
  BY <1>0, <1>2 DEF Opens, BrokerTypes, lost
<1>3. ASSUME NEW e \in CarriedEntries, Accepts(e)
      PROVE  BrokerTypes'
  <2>1. accepted + 1 \in Requests /\ e.kind \in SessionKinds
    BY <1>0, <1>3 DEF Accepts, Requests
  <2>2. kind_of' \in [Requests -> SessionKinds \cup {"NONE"}]
    BY <1>0, <1>3, <2>1 DEF Accepts
  <2> QED BY <1>0, <1>3, <2>2 DEF Accepts, BrokerTypes, Wires, broker, lost
<1>4. CASE Breaks
  BY <1>0, <1>4 DEF Breaks, BrokerTypes, broker, lost
<1>5. CASE Forgets
  <2>1. StalePubrecs \subseteq InboundIds
    BY DEF StalePubrecs
  <2> QED BY <1>0, <1>5, <2>1 DEF Forgets, BrokerTypes, Wires
<1>6. ASSUME NEW p \in Incoming, GetsPublish(p)
      PROVE  BrokerTypes'
  BY <1>0, <1>6, GotTypes DEF GetsPublish, Takes, BrokerTypes, broker, lost
<1>7. ASSUME NEW p \in Outgoing, BrokerTakes(p)
      PROVE  BrokerTypes'
  BY <1>0, <1>7, LogTypes DEF BrokerTakes, BrokerTypes, lost
<1>8. ASSUME NEW m \in Inbound, NEW p, BrokerWrites(m, p)
      PROVE  BrokerTypes'
  BY <1>0, <1>8 DEF BrokerWrites, BrokerTypes, lost
<1>9. ClientStep => \/ UNCHANGED B \/ Opens
                    \/ \E e \in CarriedEntries : Accepts(e)
                    \/ \E p \in Incoming : GetsPublish(p)
  BY DEF ClientStep, Stops, EncodesConnect, Encodes, Wires,
         Sends, TakesConnack, BeginsConnack, EndsConnack, GetsResponse,
         GetsPubrel, Takes
<1>10. BrokerStep => \/ \E p \in Outgoing : BrokerTakes(p)
                     \/ \E m \in Inbound : \E p : BrokerWrites(m, p)
  BY Zenon DEF BrokerStep, BrokerAnswers, BrokerIgnores, BrokerReleases,
         BrokerCompletes, SendsFirst, SendsAgain, SendsPubrel
<1> QED
  BY <1>1, <1>2, <1>3, <1>4, <1>5, <1>6, <1>7, <1>8, <1>9, <1>10, Zenon
     DEF SessionStep

LEMMA PhasesNow ==
  ASSUME SessionInv
  PROVE  /\ up /\ current = "connect" /\ ~closed => DialPhase
         /\ up /\ current = "main" => Greeted
         /\ AwaitingConnack => Head(b2c) \in Responses
BY ConnectFacts DEF SessionInv, Phases, Dialing, AwaitingConnack

(* A connection with a broker that has greeted stays one.                  *)
LEMMA GreetedKept ==
  ASSUME SessionInv, up, Greeted, greeted' = greeted,
         write_buf' \in Seq(CarriedEntries), c2b' \in Seq(CarriedEntries),
         \/ UNCHANGED b2c \/ (b2c # <<>> /\ b2c' = Tail(b2c))
         \/ \E p \in Incoming : p # Response(ConnectEntry)
                                  /\ b2c' = Append(b2c, p)
  PROVE  Greeted'
<1>1. b2c \in Seq(Incoming)
  BY QueuesNow
<1>2. ~Has(b2c', {Response(ConnectEntry)})
  <2>1. ~Has(b2c, {Response(ConnectEntry)})
    BY DEF Greeted
  <2>2. CASE UNCHANGED b2c
    BY <2>1, <2>2
  <2>3. CASE b2c # <<>> /\ b2c' = Tail(b2c)
    <3>1. Has(Tail(b2c), {Response(ConnectEntry)}) =>
            Has(b2c, {Response(ConnectEntry)})
      BY <1>1, <2>3, HasTail
    <3> QED BY <2>1, <2>3, <3>1
  <2>4. ASSUME NEW p \in Incoming, p # Response(ConnectEntry),
               b2c' = Append(b2c, p)
        PROVE  ~Has(b2c', {Response(ConnectEntry)})
    BY <1>1, <2>1, <2>4, HasAppend
  <2> QED BY <2>2, <2>3, <2>4
<1> QED BY <1>2 DEF Greeted

LEMMA PhasesKept ==
  ASSUME SessionInv, SessionStep
  PROVE  Phases'
<1> USE QueuesNow
<1>g. current = "main" /\ up => /\ Greeted
                                /\ write_buf \in Seq(CarriedEntries)
                                /\ c2b \in Seq(CarriedEntries)
  BY PhasesNow DEF Greeted
<1>b. greeted \in BOOLEAN
  BY DEF SessionInv, BrokerTypes
<1>m. ASSUME current = "main", current' = "main", up' => up /\ Greeted'
      PROVE  Phases'
  BY <1>m DEF Phases, Dialing
<1>1. CASE Opens
  <2>1. /\ connect_store'.entries = <<ConnectEntry>> /\ connect_store'.pos = 0
        /\ write_buf' = <<>> /\ c2b' = <<>> /\ b2c' = <<>> /\ ~greeted'
        /\ current' = "connect"
    BY <1>1 DEF Opens
  <2>2. JustConnect(<<>>, <<>>, <<>>, 0)'
    BY <2>1, Zenon DEF JustConnect
  <2> QED BY <2>1, <2>2 DEF Phases, DialPhase
<1>2. ASSUME NEW e \in CarriedEntries, Accepts(e)
      PROVE  Phases'
  <2>1. current = "main" /\ current' = "main" /\ up' = up
    BY <1>2 DEF Accepts, Where, Wires
  <2>2. up => Greeted'
    BY <1>g, <1>2, <2>1, GreetedKept DEF Accepts, Wires, broker
  <2> QED BY <1>m, <2>1, <2>2
<1>3. CASE Stops
  <2>1. up /\ current = "main" => Greeted'
    BY <1>g, <1>3, GreetedKept DEF Stops, Ours, Wires, broker
  <2>2. CASE UNCHANGED Where
    BY <1>3, <2>1, <2>2, PhasesNow
       DEF Stops, Ours, Wires, Where, Phases, Dialing, DialPhase, JustConnect,
           AwaitingConnack, HalfConnack, broker
  <2>3. CASE closed' = TRUE /\ current' \in {current, "connect"}
    BY <1>3, <2>1, <2>3 DEF Stops, Wires, Phases, Dialing
  <2> QED BY <1>3, <2>2, <2>3 DEF Stops
<1>4. CASE EncodesConnect
  <2>1. /\ current' = "connect" /\ up' = up
        /\ b2c' = b2c /\ c2b' = c2b /\ greeted' = greeted
        /\ write_buf' = Append(write_buf, ConnectEntry)
    BY <1>4 DEF EncodesConnect, Wires, broker
  <2>2. up => DialPhase
    BY <1>4, PhasesNow DEF EncodesConnect
  <2>3. connect_store.entries = <<ConnectEntry>> => connect_store.pos # 1
    BY <1>4 DEF EncodesConnect, HasCurrent, Count
  <2>3a. connect_store # EmptyStore
    BY <1>4 DEF EncodesConnect, HasCurrent, Count, EmptyStore
  <2>4. up => JustConnect(<<>>, <<>>, <<>>, 0)
    BY <2>2, <2>3, <2>3a, Zenon
       DEF DialPhase, JustConnect, AwaitingConnack, HalfConnack
  <2>5. /\ connect_store'.entries = connect_store.entries
        /\ connect_store'.pos = connect_store.pos + 1
    BY <1>4, MarkCurrentLemma DEF EncodesConnect
  <2>6. Append(<<>>, ConnectEntry) = <<ConnectEntry>>
    OBVIOUS
  <2>7. up => JustConnect(<<ConnectEntry>>, <<>>, <<>>, 1)'
    BY <2>1, <2>4, <2>5, <2>6 DEF JustConnect
  <2> QED BY <2>1, <2>7 DEF Phases, Dialing, DialPhase
<1>5. ASSUME NEW e \in CarriedEntries, Encodes(e)
      PROVE  Phases'
  <2>1. /\ current = "main" /\ current' = "main"
        /\ UNCHANGED <<up, c2b, b2c, greeted>>
        /\ write_buf' = Append(write_buf, e)
    BY <1>5 DEF Encodes, Wires, broker
  <2>2. up => write_buf' \in Seq(CarriedEntries)
    BY <1>g, <2>1, AppendFacts
  <2>3. up => Greeted'
    BY <1>g, <2>1, <2>2, GreetedKept
  <2> QED BY <1>m, <2>1, <2>3
<1>6. CASE Sends
  <2>1. /\ up /\ ~closed /\ up' = up /\ b2c' = b2c /\ greeted' = greeted
        /\ UNCHANGED <<connect_store, closed, current>> /\ write_buf # <<>>
        /\ write_buf' = Tail(write_buf)
        /\ c2b' = Append(c2b, Head(write_buf))
    BY <1>6 DEF Sends, Where, broker
  <2>2. CASE current = "main"
    <3>1. /\ write_buf' \in Seq(CarriedEntries)
          /\ c2b' \in Seq(CarriedEntries)
      BY <1>g, <2>1, <2>2, TailFacts, AppendFacts
    <3>2. Greeted'
      BY <1>g, <2>1, <2>2, <3>1, GreetedKept
    <3> QED BY <1>m, <2>1, <2>2, <3>2
  <2>3. CASE current = "connect"
    <3>1. DialPhase
      BY <2>1, <2>3, PhasesNow
    <3>2. JustConnect(<<ConnectEntry>>, <<>>, <<>>, 1)
      BY <2>1, <3>1, Zenon
         DEF DialPhase, JustConnect, AwaitingConnack, HalfConnack
    <3>3. /\ Tail(<<ConnectEntry>>) = <<>>
          /\ Head(<<ConnectEntry>>) = ConnectEntry
          /\ Append(<<>>, ConnectEntry) = <<ConnectEntry>>
      OBVIOUS
    <3>4. JustConnect(<<>>, <<ConnectEntry>>, <<>>, 1)'
      BY <2>1, <3>2, <3>3 DEF JustConnect
    <3> QED BY <2>1, <2>3, <3>4 DEF Phases, Dialing, DialPhase
  <2> QED BY <2>2, <2>3, ClientNow
<1>7. CASE TakesConnack
  <2>1. /\ AwaitingConnack /\ current' = "main" /\ b2c' = Tail(b2c)
        /\ UNCHANGED <<write_buf, c2b, greeted>>
    BY <1>7 DEF TakesConnack, Takes, broker
  <2>2. ~Has(Tail(b2c), {Response(ConnectEntry)})
    BY <2>1, ConnectFacts DEF AwaitingConnack, Has
  <2>3. Greeted'
    BY <2>1, <2>2, EmptySeq DEF AwaitingConnack, Greeted
  <2> QED BY <2>1, <2>3 DEF Phases, Dialing
<1>7a. CASE BeginsConnack
  <2>1. /\ AwaitingConnack /\ current' = "connect" /\ b2c' = Tail(b2c)
        /\ connect_store' = EmptyStore /\ UNCHANGED <<write_buf, c2b, greeted>>
    BY <1>7a DEF BeginsConnack, Takes, broker
  <2>2. HalfConnack'
    BY <2>1 DEF AwaitingConnack, HalfConnack
  <2> QED BY <2>1, <2>2 DEF Phases, DialPhase
<1>7b. CASE EndsConnack
  <2>1. /\ HalfConnack /\ current' = "main"
        /\ UNCHANGED <<write_buf, c2b, b2c, greeted>>
    BY <1>7b DEF EndsConnack, Wires, broker
  <2>2. ~Has(b2c, {Response(ConnectEntry)})
    BY <2>1, ConnectFacts DEF HalfConnack, Has
  <2>3. Greeted'
    BY <2>1, <2>2, EmptySeq DEF HalfConnack, Greeted
  <2> QED BY <2>1, <2>3 DEF Phases, Dialing
<1>8. ASSUME NEW p, Takes(p), current = "main", current' = "main"
      PROVE  Phases'
  <2>1. /\ up /\ b2c # <<>> /\ b2c' = Tail(b2c)
        /\ UNCHANGED <<write_buf, c2b, greeted>>
    BY <1>8 DEF Takes, broker
  <2>2. Greeted'
    BY <1>g, <1>8, <2>1, GreetedKept
  <2> QED BY <1>m, <1>8, <2>1, <2>2
<1>9. CASE Breaks
  BY <1>9 DEF Breaks, Phases, Dialing
<1>10. CASE Forgets
  BY <1>10 DEF Forgets, Phases, Dialing, Wires
<1>11. ASSUME NEW p \in Outgoing, BrokerAnswers(p)
       PROVE  Phases'
  <2>1. /\ up /\ c2b # <<>> /\ p = Head(c2b) /\ c2b' = Tail(c2b)
        /\ greeted' = (greeted \/ p.kind = "CONNECT")
        /\ b2c' = Append(b2c, Response(p)) /\ p.kind \in ResponseKinds
        /\ UNCHANGED <<current, closed, connect_store, write_buf, up>>
    BY <1>11 DEF BrokerAnswers, BrokerTakes, Ours, Where
  <2>2. CASE current = "main"
    <3>1. c2b' \in Seq(CarriedEntries) /\ p \in CarriedEntries
      BY <1>g, <2>1, <2>2, TailFacts
    <3>2. Response(p) \in Incoming /\ Response(p) # Response(ConnectEntry)
      BY <2>1, <3>1, ResponseType
    <3>3. greeted' = greeted
      BY <1>b, <2>1, <3>1, CarriedFacts
    <3>4. Greeted'
      BY <1>g, <2>1, <2>2, <3>1, <3>2, <3>3, GreetedKept
    <3> QED BY <1>m, <2>1, <2>2, <3>4
  <2>3. CASE current = "connect"
    <3>1. up /\ ~closed => DialPhase
      BY <2>3, PhasesNow
    <3>2. up /\ ~closed => JustConnect(<<>>, <<ConnectEntry>>, <<>>, 1)
      BY <2>1, <3>1, Zenon
         DEF DialPhase, JustConnect, AwaitingConnack, HalfConnack
    <3>3. /\ Tail(<<ConnectEntry>>) = <<>>
          /\ Head(<<ConnectEntry>>) = ConnectEntry
          /\ Append(<<>>, Response(p)) = <<Response(p)>>
          /\ Tail(<<Response(p)>>) = <<>>
          /\ Head(<<Response(p)>>) = Response(p) /\ <<Response(p)>> # <<>>
      OBVIOUS
    <3>4. up /\ ~closed => AwaitingConnack'
      BY <2>1, <3>2, <3>3, HasEmpty, ConnectFacts
         DEF JustConnect, AwaitingConnack
    <3> QED BY <2>1, <2>3, <3>4 DEF Phases, Dialing, DialPhase
  <2> QED BY <2>2, <2>3, ClientNow
<1>12. ASSUME NEW p \in Outgoing, BrokerTakes(p), p.kind \notin ResponseKinds,
              \/ UNCHANGED b2c
              \/ \E m \in Inbound : /\ b2c' = Append(b2c, PubrelTo(m, out[m]))
                                    /\ PubrelTo(m, out[m]) \in Incoming
       PROVE  Phases'
  <2>1. /\ up /\ c2b # <<>> /\ p = Head(c2b) /\ c2b' = Tail(c2b)
        /\ greeted' = (greeted \/ p.kind = "CONNECT")
        /\ UNCHANGED <<current, closed, connect_store, write_buf, up>>
    BY <1>12 DEF BrokerTakes, Ours, Where
  <2>2. CASE current = "main"
    <3>1. c2b' \in Seq(CarriedEntries) /\ p \in CarriedEntries
      BY <1>g, <2>1, <2>2, TailFacts
    <3>2. greeted' = greeted
      BY <1>b, <2>1, <3>1, CarriedFacts
    <3>3. \A m \in Inbound : PubrelTo(m, out[m]) # Response(ConnectEntry)
      BY ConnectFacts DEF PubrelTo, Packet
    <3>4. Greeted'
      BY <1>g, <1>12, <2>1, <2>2, <3>1, <3>2, <3>3, GreetedKept
    <3> QED BY <1>m, <2>1, <2>2, <3>4
  <2>3. CASE current = "connect"
    <3>1. closed
      <4>1. ~closed => DialPhase
        BY <2>1, <2>3, PhasesNow
      <4>2. ~closed => p = ConnectEntry
        <5>1. Head(<<ConnectEntry>>) = ConnectEntry
          OBVIOUS
        <5> QED BY <2>1, <4>1, <5>1, Zenon
                   DEF DialPhase, JustConnect, AwaitingConnack, HalfConnack
      <4> QED BY <1>12, <4>2, ConnectFacts DEF ResponseKinds
    <3> QED BY <2>1, <2>3, <3>1 DEF Phases, Dialing
  <2> QED BY <2>2, <2>3, ClientNow
<1>13. ASSUME NEW m \in Inbound, NEW p \in Incoming, p.type # "response",
              BrokerWrites(m, p)
       PROVE  Phases'
  <2>1. /\ up /\ greeted /\ b2c' = Append(b2c, p)
        /\ UNCHANGED <<current, closed, connect_store, write_buf, up, c2b,
                       greeted>>
    BY <1>13 DEF BrokerWrites, Ours, Where
  <2>2. p \notin Responses /\ p # Response(ConnectEntry)
    BY <1>13, IncomingFacts, ConnectFacts
  <2>3. CASE current = "main"
    <3>1. Greeted'
      BY <1>g, <2>1, <2>2, <2>3, GreetedKept
    <3> QED BY <1>m, <2>1, <2>3, <3>1
  <2>4. CASE current = "connect"
    <3>1. ~closed => DialPhase
      BY <2>1, <2>4, PhasesNow
    <3>2. ~closed => AwaitingConnack \/ HalfConnack
      BY <2>1, <3>1 DEF DialPhase, JustConnect
    <3>3. b2c # <<>> => /\ Append(b2c, p) # <<>>
                        /\ Head(Append(b2c, p)) = Head(b2c)
                        /\ Tail(Append(b2c, p)) = Append(Tail(b2c), p)
                        /\ Tail(b2c) \in Seq(Incoming)
      BY HeadTailAppend, AppendProperties, TailFacts
    <3>4. b2c # <<>> /\ ~Has(Tail(b2c), Responses) =>
            ~Has(Append(Tail(b2c), p), Responses)
      BY <2>2, <3>3, HasAppend
    <3>4a. ~Has(b2c, Responses) => ~Has(Append(b2c, p), Responses)
      BY <2>2, HasAppend
    <3>5. ~closed => AwaitingConnack' \/ HalfConnack'
      BY <2>1, <3>2, <3>3, <3>4, <3>4a DEF AwaitingConnack, HalfConnack
    <3> QED BY <2>1, <2>4, <3>5 DEF Phases, Dialing, DialPhase
  <2> QED BY <2>3, <2>4, ClientNow
<1>14. ClientStep => Phases'
  BY <1>1, <1>2, <1>3, <1>4, <1>5, <1>6, <1>7, <1>7a, <1>7b, <1>8, Zenon
     DEF ClientStep, GetsResponse, GetsPublish, GetsPubrel
<1>15. BrokerStep => Phases'
  <2>1. ASSUME NEW p \in Outgoing, BrokerIgnores(p)
        PROVE  Phases'
    BY <1>12, <2>1 DEF BrokerIgnores
  <2>2. ASSUME NEW p \in Outgoing, NEW m \in Inbound, BrokerReleases(p, m)
        PROVE  Phases'
    <3>1. PubrelTo(m, out[m]) \in Incoming
      BY <2>2, SentAgainType DEF BrokerReleases, Concerns
    <3>2. p.kind \notin ResponseKinds
      BY <2>2 DEF BrokerReleases, ResponseKinds
    <3> QED BY <1>12, <2>2, <3>1, <3>2 DEF BrokerReleases
  <2>3. ASSUME NEW p \in Outgoing, NEW m \in Inbound, BrokerCompletes(p, m)
        PROVE  Phases'
    <3>1. p.kind \notin ResponseKinds
      BY <2>3 DEF BrokerCompletes, ResponseKinds
    <3> QED BY <1>12, <2>3, <3>1 DEF BrokerCompletes
  <2>4. ASSUME NEW m \in Inbound,
              \/ \E qos \in {1, 2}, id \in InboundIds : SendsFirst(m, qos, id)
              \/ SendsAgain(m) \/ SendsPubrel(m)
        PROVE  Phases'
    <3>1. \A qos, id : Packet("publish", qos, id, m).type = "publish"
      BY DEF Packet
    <3> QED
      BY <1>13, <2>4, <3>1, SentType, SentAgainType
         DEF SendsFirst, SendsAgain, SendsPubrel
  <2> QED
    BY <1>11, <2>1, <2>2, <2>3, <2>4, Zenon DEF BrokerStep
<1> QED BY <1>9, <1>10, <1>14, <1>15 DEF SessionStep

-----------------------------------------------------------------------------
(* Links of packets to entries, when a packet moves.                       *)
Under(f, n) == n # 0 => \A i \in 1 .. Len(f) : f[i] # 0 => f[i] < n
Over(f, n) == n # 0 => \A i \in 1 .. Len(f) : f[i] # 0 => n < f[i]

LEMMA LinkTail ==
  ASSUME NEW f \in Seq(Nat), f # <<>>, NEW g \in Seq(Nat)
  PROVE  /\ Rising(f) => Rising(Tail(f)) /\ Over(Tail(f), f[1])
         /\ Below(f, g) => Below(Tail(f), g) /\ Over(g, f[1])
         /\ Below(g, f) => Below(g, Tail(f)) /\ Under(g, f[1])
         /\ Tail(f) \in Seq(Nat) /\ Len(Tail(f)) = Len(f) - 1 /\ f[1] \in Nat
<1> DEFINE t == Tail(f)
<1>1. /\ t \in Seq(Nat) /\ Len(f) \in Nat /\ Len(f) >= 1
      /\ Len(t) = Len(f) - 1 /\ \A i \in 1 .. Len(f) - 1 : t[i] = f[i + 1]
  BY TailFacts
<1>2. /\ Len(g) \in Nat /\ \A j \in 1 .. Len(g) : g[j] \in Nat
      /\ \A i \in 1 .. Len(f) : f[i] \in Nat
  BY LenProperties, ElementOfSeq
<1> HIDE DEF t
<1>2a. \A i \in 1 .. Len(t) :
        /\ i + 1 \in 1 .. Len(f) /\ t[i] = f[i + 1]
        /\ 1 < i + 1 /\ i \in Nat
  BY <1>1
<1>2b. 1 \in 1 .. Len(f) /\ \A i, j \in Nat : i < j => i + 1 < j + 1
  BY <1>1
<1>3. Rising(f) => Rising(t) /\ Over(t, f[1])
  <2> SUFFICES ASSUME Rising(f) PROVE Rising(t) /\ Over(t, f[1])
    OBVIOUS
  <2>1. ASSUME NEW i \in 1 .. Len(t), NEW j \in 1 .. Len(t), i < j,
               t[i] # 0, t[j] # 0
        PROVE  t[i] < t[j]
    <3>1. /\ i + 1 \in 1 .. Len(f) /\ j + 1 \in 1 .. Len(f) /\ i + 1 < j + 1
          /\ t[i] = f[i + 1] /\ t[j] = f[j + 1]
      BY <1>2a, <1>2b, <2>1
    <3> QED BY <2>1, <3>1 DEF Rising
  <2>2. ASSUME NEW i \in 1 .. Len(t), f[1] # 0, t[i] # 0
        PROVE  f[1] < t[i]
    <3>1. i + 1 \in 1 .. Len(f) /\ 1 < i + 1 /\ 1 \in 1 .. Len(f)
          /\ t[i] = f[i + 1]
      BY <1>2a, <1>2b, <2>2
    <3> QED BY <2>2, <3>1 DEF Rising
  <2> QED BY <2>1, <2>2 DEF Rising, Over
<1>4. Below(f, g) => Below(t, g) /\ Over(g, f[1])
  BY <1>2a, <1>2b DEF Below, Over
<1>5. Below(g, f) => Below(g, t) /\ Under(g, f[1])
  BY <1>2a, <1>2b DEF Below, Under
<1> QED BY <1>1, <1>2, <1>3, <1>4, <1>5 DEF t

LEMMA LinkAppend ==
  ASSUME NEW f \in Seq(Nat), NEW n \in Nat, NEW g \in Seq(Nat)
  PROVE  /\ Rising(f) /\ Under(f, n) => Rising(Append(f, n))
         /\ Below(f, g) /\ Over(g, n) => Below(Append(f, n), g)
         /\ Below(g, f) /\ Under(g, n) => Below(g, Append(f, n))
         /\ Append(f, n) \in Seq(Nat) /\ Len(Append(f, n)) = Len(f) + 1
<1> DEFINE t == Append(f, n)
<1>1. /\ t \in Seq(Nat) /\ Len(f) \in Nat /\ Len(t) = Len(f) + 1
      /\ \A i \in 1 .. Len(f) : t[i] = f[i]
      /\ t[Len(f) + 1] = n
  BY AppendFacts
<1>2. /\ Len(g) \in Nat /\ \A j \in 1 .. Len(g) : g[j] \in Nat
      /\ \A i \in 1 .. Len(f) : f[i] \in Nat
  BY LenProperties, ElementOfSeq
<1> HIDE DEF t
<1>3. \A i \in 1 .. Len(t) : \/ i \in 1 .. Len(f) /\ t[i] = f[i]
                             \/ i = Len(f) + 1 /\ t[i] = n
  BY <1>1
<1>4. Rising(f) /\ Under(f, n) => Rising(t)
  <2> SUFFICES ASSUME Rising(f), Under(f, n),
                      NEW i \in 1 .. Len(t), NEW j \in 1 .. Len(t), i < j,
                      t[i] # 0, t[j] # 0
               PROVE  t[i] < t[j]
    BY DEF Rising
  <2>1. i \in 1 .. Len(f) /\ t[i] = f[i]
    BY <1>1, <1>3
  <2>2. CASE j \in 1 .. Len(f) /\ t[j] = f[j]
    BY <2>1, <2>2 DEF Rising
  <2>3. CASE t[j] = n
    BY <2>1, <2>3 DEF Under
  <2> QED BY <1>3, <2>2, <2>3
<1>5. Below(f, g) /\ Over(g, n) => Below(t, g)
  BY <1>3 DEF Below, Over
<1>6. Below(g, f) /\ Under(g, n) => Below(g, t)
  BY <1>3 DEF Below, Under
<1> QED BY <1>1, <1>4, <1>5, <1>6 DEF t

(* The packet at the head of a queue leaves it, another joins the end.     *)
LEMMA LinkedTail ==
  ASSUME NEW E, NEW q \in Seq(E), q # <<>>, NEW f \in Seq(Nat),
         Len(f) = Len(q), NEW s
  PROVE  /\ f # <<>>
         /\ LinkedTo(q, f, s) =>
              /\ LinkedTo(Tail(q), Tail(f), s)
              /\ f[1] # 0 => f[1] <= s.pos /\ Head(q) = s.entries[f[1]]
              /\ Awaited(Head(q)) => f[1] # 0
         /\ AnswersTo(q, f, s) =>
              /\ AnswersTo(Tail(q), Tail(f), s)
              /\ f[1] # 0 => /\ f[1] <= s.pos
                             /\ Head(q).kind = s.entries[f[1]].kind
                             /\ Head(q).id = s.entries[f[1]].id
              /\ AnswersRequest(Head(q)) => f[1] # 0
<1> DEFINE t == Tail(q)
           g == Tail(f)
<1>0. /\ Len(q) \in Nat /\ Len(q) >= 1 /\ Len(t) = Len(q) - 1
      /\ \A i \in 1 .. Len(q) - 1 : t[i] = q[i + 1]
      /\ Head(q) = q[1]
  BY TailFacts
<1>1. f # <<>>
  <2>1. Len(<<>>) = 0
    OBVIOUS
  <2> QED BY <1>0, <2>1
<1>2. \A i \in 1 .. Len(f) - 1 : g[i] = f[i + 1]
  BY <1>1, TailFacts
<1> HIDE DEF t, g
<1>3. \A i \in 1 .. Len(t) : i + 1 \in 1 .. Len(q) /\ t[i] = q[i + 1]
                               /\ g[i] = f[i + 1]
  BY <1>0, <1>2
<1>4. 1 \in 1 .. Len(q)
  BY <1>0
<1>5. LinkedTo(q, f, s) => LinkedTo(t, g, s)
  BY <1>3, Zenon DEF LinkedTo
<1>6. AnswersTo(q, f, s) => AnswersTo(t, g, s)
  BY <1>3, Zenon DEF AnswersTo
<1>7. LinkedTo(q, f, s) =>
        /\ f[1] # 0 => f[1] <= s.pos /\ Head(q) = s.entries[f[1]]
        /\ Awaited(Head(q)) => f[1] # 0
  BY <1>0, <1>4, Zenon DEF LinkedTo
<1>8. AnswersTo(q, f, s) =>
        /\ f[1] # 0 => /\ f[1] <= s.pos
                       /\ Head(q).kind = s.entries[f[1]].kind
                       /\ Head(q).id = s.entries[f[1]].id
        /\ AnswersRequest(Head(q)) => f[1] # 0
  BY <1>0, <1>4, Zenon DEF AnswersTo
<1> QED BY <1>1, <1>5, <1>6, <1>7, <1>8 DEF t, g

LEMMA LinkedAppend ==
  ASSUME NEW E, NEW q \in Seq(E), NEW e \in E, NEW f \in Seq(Nat),
         Len(f) = Len(q), NEW n \in Nat, NEW s
  PROVE  /\ /\ LinkedTo(q, f, s)
            /\ n # 0 => n <= s.pos /\ e = s.entries[n]
            /\ Awaited(e) => n # 0
            => LinkedTo(Append(q, e), Append(f, n), s)
         /\ /\ AnswersTo(q, f, s)
            /\ n # 0 => /\ n <= s.pos
                        /\ e.kind = s.entries[n].kind
                        /\ e.id = s.entries[n].id
            /\ AnswersRequest(e) => n # 0
            => AnswersTo(Append(q, e), Append(f, n), s)
<1> DEFINE t == Append(q, e)
           g == Append(f, n)
<1>0. /\ Len(q) \in Nat /\ Len(t) = Len(q) + 1
      /\ \A i \in 1 .. Len(q) : t[i] = q[i]
      /\ t[Len(q) + 1] = e
  BY AppendFacts
<1>1. /\ \A i \in 1 .. Len(f) : g[i] = f[i]
      /\ g[Len(f) + 1] = n
  BY AppendFacts
<1> HIDE DEF t, g
<1>2. \A i \in 1 .. Len(t) :
        \/ i \in 1 .. Len(q) /\ t[i] = q[i] /\ g[i] = f[i]
        \/ t[i] = e /\ g[i] = n
  BY <1>0, <1>1
<1>3. /\ LinkedTo(q, f, s)
      /\ n # 0 => n <= s.pos /\ e = s.entries[n]
      /\ Awaited(e) => n # 0
      => LinkedTo(t, g, s)
  BY <1>2, Zenon DEF LinkedTo
<1>4. /\ AnswersTo(q, f, s)
      /\ n # 0 => n <= s.pos /\ e.kind = s.entries[n].kind
                             /\ e.id = s.entries[n].id
      /\ AnswersRequest(e) => n # 0
      => AnswersTo(t, g, s)
  BY <1>2, Zenon DEF AnswersTo
<1> QED BY <1>3, <1>4 DEF t, g

LEMMA LinksShape ==
  ASSUME NEW b, NEW c, NEW w, NEW s, NEW fb, NEW fc, NEW fw,
         Links(b, c, w, s, fb, fc, fw)
  PROVE  /\ fb \in Seq(Nat) /\ fc \in Seq(Nat) /\ fw \in Seq(Nat)
         /\ Len(fb) = Len(b) /\ Len(fc) = Len(c) /\ Len(fw) = Len(w)
         /\ AnswersTo(b, fb, s) /\ LinkedTo(c, fc, s) /\ LinkedTo(w, fw, s)
         /\ Rising(fb) /\ Rising(fc) /\ Rising(fw)
         /\ Below(fb, fc) /\ Below(fb, fw) /\ Below(fc, fw)
BY DEF Links

LEMMA NoLink ==
  ASSUME NEW f
  PROVE  Under(f, 0) /\ Over(f, 0)
BY DEF Under, Over

(* The broker sends a message.                                             *)
LEMMA LinksWrite ==
  ASSUME NEW b \in Seq(Incoming), NEW c, NEW w, NEW s, LinkedBy(b, c, w, s),
         NEW p \in Incoming, ~AnswersRequest(p)
  PROVE  LinkedBy(Append(b, p), c, w, s)
<1>1. PICK fb, fc, fw : Links(b, c, w, s, fb, fc, fw)
  BY DEF LinkedBy
<1> USE LinksShape, <1>1
<1> DEFINE g == Append(fb, 0)
<1>2. /\ g \in Seq(Nat) /\ Len(g) = Len(fb) + 1 /\ Rising(g)
      /\ Below(g, fc) /\ Below(g, fw)
  BY NoLink, LinkAppend
<1>3. AnswersTo(Append(b, p), g, s) /\ Len(Append(b, p)) = Len(b) + 1
  BY LinkedAppend, AppendFacts
<1> HIDE DEF g
<1>4. Links(Append(b, p), c, w, s, g, fc, fw)
  BY <1>2, <1>3 DEF Links
<1> QED BY <1>4 DEF LinkedBy

(* The broker takes a packet that it does not answer.                      *)
LEMMA LinksTake ==
  ASSUME NEW b, NEW c \in Seq(Outgoing), NEW w, NEW s, LinkedBy(b, c, w, s),
         c # <<>>
  PROVE  LinkedBy(b, Tail(c), w, s)
<1>1. PICK fb, fc, fw : Links(b, c, w, s, fb, fc, fw)
  BY DEF LinkedBy
<1> USE LinksShape, <1>1
<1> DEFINE g == Tail(fc)
<1>2. fc # <<>> /\ LinkedTo(Tail(c), g, s)
  BY LinkedTail
<1>3. /\ g \in Seq(Nat) /\ Len(g) = Len(fc) - 1 /\ Rising(g)
      /\ Below(fb, g) /\ Below(g, fw)
  BY <1>2, LinkTail
<1>4. Len(Tail(c)) = Len(c) - 1
  BY TailFacts
<1> HIDE DEF g
<1>5. Links(b, Tail(c), w, s, fb, g, fw)
  BY <1>2, <1>3, <1>4 DEF Links
<1> QED BY <1>5 DEF LinkedBy

(* It answers the packet.                                                  *)
LEMMA LinksAnswer ==
  ASSUME NEW b \in Seq(Incoming), NEW c \in Seq(Outgoing), NEW w, NEW s,
         LinkedBy(b, c, w, s), c # <<>>, Head(c).kind \in ResponseKinds
  PROVE  LinkedBy(Append(b, Response(Head(c))), Tail(c), w, s)
<1>1. PICK fb, fc, fw : Links(b, c, w, s, fb, fc, fw)
  BY DEF LinkedBy
<1> USE LinksShape, <1>1
<1> DEFINE p == Response(Head(c))
           n == fc[1]
           g == Tail(fc)
           h == Append(fb, n)
<1>2. /\ fc # <<>> /\ LinkedTo(Tail(c), g, s)
      /\ n # 0 => n <= s.pos /\ Head(c) = s.entries[n]
      /\ Awaited(Head(c)) => n # 0
  BY LinkedTail
<1>3. /\ g \in Seq(Nat) /\ Len(g) = Len(fc) - 1 /\ Rising(g)
      /\ Below(fb, g) /\ Below(g, fw) /\ Over(g, n) /\ Over(fw, n)
      /\ Under(fb, n) /\ n \in Nat
  BY <1>2, LinkTail
<1>4. /\ Len(Tail(c)) = Len(c) - 1 /\ Head(c) \in Outgoing
  BY TailFacts
<1>5. /\ p \in Incoming /\ p.kind = Head(c).kind /\ p.id = Head(c).id
      /\ AnswersRequest(p) <=> Awaited(Head(c))
  BY <1>4, ResponseType
<1> HIDE DEF g, n
<1>6. /\ h \in Seq(Nat) /\ Len(h) = Len(fb) + 1 /\ Rising(h)
      /\ Below(h, g) /\ Below(h, fw)
  BY <1>3, LinkAppend
<1> HIDE DEF p
<1>7. AnswersTo(Append(b, p), h, s) /\ Len(Append(b, p)) = Len(b) + 1
  <2>1. /\ n # 0 => /\ n <= s.pos /\ p.kind = s.entries[n].kind
                    /\ p.id = s.entries[n].id
        /\ AnswersRequest(p) => n # 0
    BY <1>2, <1>5, Zenon
  <2>2. AnswersTo(Append(b, p), h, s)
    BY <1>3, <1>5, <2>1, LinkedAppend
  <2> QED BY <1>5, <2>2, AppendFacts
<1> HIDE DEF h
<1>8. Links(Append(b, p), Tail(c), w, s, h, g, fw)
  BY <1>2, <1>3, <1>4, <1>6, <1>7 DEF Links
<1> QED BY <1>8 DEF LinkedBy, p

(* The client writes a packet to the network.                              *)
LEMMA LinksSend ==
  ASSUME NEW b, NEW c \in Seq(Outgoing), NEW w \in Seq(Outgoing), NEW s,
         LinkedBy(b, c, w, s), w # <<>>
  PROVE  LinkedBy(b, Append(c, Head(w)), Tail(w), s)
<1>1. PICK fb, fc, fw : Links(b, c, w, s, fb, fc, fw)
  BY DEF LinkedBy
<1> USE LinksShape, <1>1
<1> DEFINE n == fw[1]
           g == Tail(fw)
           h == Append(fc, n)
<1>2. /\ fw # <<>> /\ LinkedTo(Tail(w), g, s)
      /\ n # 0 => n <= s.pos /\ Head(w) = s.entries[n]
      /\ Awaited(Head(w)) => n # 0
  BY LinkedTail
<1>3. /\ g \in Seq(Nat) /\ Len(g) = Len(fw) - 1 /\ Rising(g)
      /\ Below(fb, g) /\ Below(fc, g) /\ Over(g, n)
      /\ Under(fb, n) /\ Under(fc, n) /\ n \in Nat
  BY <1>2, LinkTail
<1>4. /\ Len(Tail(w)) = Len(w) - 1 /\ Head(w) \in Outgoing
  BY TailFacts
<1> HIDE DEF g, n
<1>6. /\ h \in Seq(Nat) /\ Len(h) = Len(fc) + 1 /\ Rising(h)
      /\ Below(fb, h) /\ Below(h, g)
  BY <1>3, LinkAppend
<1>7. /\ LinkedTo(Append(c, Head(w)), h, s)
      /\ Len(Append(c, Head(w))) = Len(c) + 1
  BY <1>2, <1>3, <1>4, LinkedAppend, AppendFacts
<1> HIDE DEF h
<1>8. Links(b, Append(c, Head(w)), Tail(w), s, fb, h, g)
  BY <1>2, <1>3, <1>4, <1>6, <1>7 DEF Links
<1> QED BY <1>8 DEF LinkedBy

(* The client encodes a packet; an answered one becomes marked.            *)
LEMMA LinksEncode ==
  ASSUME NEW b, NEW c, NEW w \in Seq(Outgoing), NEW s,
         LinkedBy(b, c, w, s), NEW e \in Outgoing, ~Awaited(e)
  PROVE  LinkedBy(b, c, Append(w, e), s)
<1>1. PICK fb, fc, fw : Links(b, c, w, s, fb, fc, fw)
  BY DEF LinkedBy
<1> USE LinksShape, <1>1
<1> DEFINE g == Append(fw, 0)
<1>2. /\ g \in Seq(Nat) /\ Len(g) = Len(fw) + 1 /\ Rising(g)
      /\ Below(fb, g) /\ Below(fc, g)
  BY NoLink, LinkAppend
<1>3. LinkedTo(Append(w, e), g, s) /\ Len(Append(w, e)) = Len(w) + 1
  BY LinkedAppend, AppendFacts
<1> HIDE DEF g
<1>4. Links(b, c, Append(w, e), s, fb, fc, g)
  BY <1>2, <1>3 DEF Links
<1> QED BY <1>4 DEF LinkedBy

(* The marked entries stay where they are.                                 *)
Keeps(s, t) ==
  s.pos \in Nat /\ t.pos \in Nat /\ s.pos <= t.pos
    /\ \A i \in 1 .. s.pos : t.entries[i] = s.entries[i]

LEMMA KeepsLinks ==
  ASSUME NEW s, NEW t, Keeps(s, t), NEW q, NEW f \in Seq(Nat), Len(f) = Len(q)
  PROVE  /\ LinkedTo(q, f, s) => LinkedTo(q, f, t)
         /\ AnswersTo(q, f, s) => AnswersTo(q, f, t)
         /\ LinkedTo(q, f, s) \/ AnswersTo(q, f, s) => Under(f, s.pos + 1)
<1>1. \A i \in 1 .. Len(f) : f[i] \in Nat
  BY ElementOfSeq
<1>2. \A i \in 1 .. Len(f) :
        f[i] # 0 /\ f[i] <= s.pos =>
          /\ f[i] \in 1 .. s.pos /\ f[i] <= t.pos /\ f[i] < s.pos + 1
          /\ t.entries[f[i]] = s.entries[f[i]]
  <2> TAKE i \in 1 .. Len(f)
  <2>1. PICK n \in Nat : n = f[i]
    BY <1>1
  <2> QED BY <2>1 DEF Keeps
<1>3. LinkedTo(q, f, s) => LinkedTo(q, f, t)
  BY <1>2, Zenon DEF LinkedTo
<1>4. AnswersTo(q, f, s) => AnswersTo(q, f, t)
  BY <1>2, Zenon DEF AnswersTo
<1>5. LinkedTo(q, f, s) \/ AnswersTo(q, f, s) => Under(f, s.pos + 1)
  BY <1>2, Zenon DEF LinkedTo, AnswersTo, Under
<1> QED BY <1>3, <1>4, <1>5

LEMMA LinksKeep ==
  ASSUME NEW b, NEW c, NEW w, NEW s, LinkedBy(b, c, w, s), NEW t, Keeps(s, t)
  PROVE  LinkedBy(b, c, w, t)
<1>1. PICK fb, fc, fw : Links(b, c, w, s, fb, fc, fw)
  BY DEF LinkedBy
<1> USE LinksShape, <1>1
<1>2. AnswersTo(b, fb, t) /\ LinkedTo(c, fc, t) /\ LinkedTo(w, fw, t)
  BY KeepsLinks
<1>3. Links(b, c, w, t, fb, fc, fw)
  BY <1>2 DEF Links
<1> QED BY <1>3 DEF LinkedBy

LEMMA LinksMark ==
  ASSUME NEW b, NEW c, NEW w \in Seq(Outgoing), NEW s,
         LinkedBy(b, c, w, s), NEW t, Keeps(s, t), t.pos = s.pos + 1,
         NEW e \in Outgoing, e = t.entries[t.pos]
  PROVE  LinkedBy(b, c, Append(w, e), t)
<1>1. PICK fb, fc, fw : Links(b, c, w, s, fb, fc, fw)
  BY DEF LinkedBy
<1> USE LinksShape, <1>1
<1> DEFINE g == Append(fw, t.pos)
<1>2. /\ AnswersTo(b, fb, t) /\ LinkedTo(c, fc, t) /\ LinkedTo(w, fw, t)
      /\ Under(fb, t.pos) /\ Under(fc, t.pos) /\ Under(fw, t.pos)
  BY KeepsLinks
<1>3. t.pos \in Nat /\ t.pos <= t.pos /\ t.pos # 0
  BY DEF Keeps
<1>4. /\ g \in Seq(Nat) /\ Len(g) = Len(fw) + 1 /\ Rising(g)
      /\ Below(fb, g) /\ Below(fc, g)
  BY <1>2, <1>3, LinkAppend
<1>5. LinkedTo(Append(w, e), g, t) /\ Len(Append(w, e)) = Len(w) + 1
  BY <1>2, <1>3, LinkedAppend, AppendFacts
<1> HIDE DEF g
<1>6. Links(b, c, Append(w, e), t, fb, fc, g)
  BY <1>2, <1>4, <1>5 DEF Links
<1> QED BY <1>6 DEF LinkedBy

(* A response has found the entry k: the links behind it move up.          *)
Shift(f) == [i \in 1 .. Len(f) |-> IF f[i] = 0 THEN 0 ELSE f[i] - 1]

LEMMA ShiftFacts ==
  ASSUME NEW f \in Seq(Nat)
  PROVE  /\ Shift(f) \in Seq(Nat) /\ Len(Shift(f)) = Len(f)
         /\ Len(f) \in Nat
         /\ \A i \in 1 .. Len(f) :
              /\ f[i] \in Nat /\ Shift(f)[i] \in Nat
              /\ Shift(f)[i] = IF f[i] = 0 THEN 0 ELSE f[i] - 1
<1>1. Len(f) \in Nat /\ \A i \in 1 .. Len(f) : f[i] \in Nat
  BY LenProperties, ElementOfSeq
<1>2. \A i \in 1 .. Len(f) : (IF f[i] = 0 THEN 0 ELSE f[i] - 1) \in Nat
  <2> TAKE i \in 1 .. Len(f)
  <2>1. PICK n \in Nat : n = f[i]
    BY <1>1
  <2> QED BY <2>1
<1>3. Shift(f) \in Seq(Nat) /\ Len(Shift(f)) = Len(f)
  BY <1>1, <1>2 DEF Shift
<1>4. \A i \in 1 .. Len(f) :
        Shift(f)[i] = IF f[i] = 0 THEN 0 ELSE f[i] - 1
  BY DEF Shift
<1> QED BY <1>1, <1>2, <1>3, <1>4

LEMMA ShiftOrder ==
  ASSUME NEW x \in Nat, NEW y \in Nat, NEW a \in Nat, NEW b \in Nat,
         a = IF x = 0 THEN 0 ELSE x - 1, b = IF y = 0 THEN 0 ELSE y - 1,
         a # 0, b # 0
  PROVE  x # 0 /\ y # 0 /\ (x < y => a < b)
OBVIOUS

LEMMA ShiftKeepsOrder ==
  ASSUME NEW f \in Seq(Nat), NEW g \in Seq(Nat)
  PROVE  /\ Rising(f) => Rising(Shift(f))
         /\ Below(f, g) => Below(Shift(f), Shift(g))
<1>1. /\ Len(Shift(f)) = Len(f) /\ Len(Shift(g)) = Len(g)
      /\ \A i \in 1 .. Len(f) :
           /\ f[i] \in Nat /\ Shift(f)[i] \in Nat
           /\ Shift(f)[i] = IF f[i] = 0 THEN 0 ELSE f[i] - 1
      /\ \A i \in 1 .. Len(g) :
           /\ g[i] \in Nat /\ Shift(g)[i] \in Nat
           /\ Shift(g)[i] = IF g[i] = 0 THEN 0 ELSE g[i] - 1
  BY ShiftFacts
<1>2. ASSUME Rising(f), NEW i \in 1 .. Len(f), NEW j \in 1 .. Len(f), i < j,
             Shift(f)[i] # 0, Shift(f)[j] # 0
      PROVE  Shift(f)[i] < Shift(f)[j]
  <2>1. f[i] # 0 /\ f[j] # 0 /\ (f[i] < f[j] => Shift(f)[i] < Shift(f)[j])
    BY <1>1, <1>2, ShiftOrder
  <2> QED BY <1>2, <2>1 DEF Rising
<1>3. ASSUME Below(f, g), NEW i \in 1 .. Len(f), NEW j \in 1 .. Len(g),
             Shift(f)[i] # 0, Shift(g)[j] # 0
      PROVE  Shift(f)[i] < Shift(g)[j]
  <2>1. f[i] # 0 /\ g[j] # 0 /\ (f[i] < g[j] => Shift(f)[i] < Shift(g)[j])
    BY <1>1, <1>3, ShiftOrder
  <2> QED BY <1>3, <2>1 DEF Below
<1>4. Rising(f) => Rising(Shift(f))
  BY <1>1, <1>2 DEF Rising
<1>5. Below(f, g) => Below(Shift(f), Shift(g))
  BY <1>1, <1>3 DEF Below
<1> QED BY <1>4, <1>5

(* t is s without its entry k, as far as it is marked.                     *)
Popped(s, k, t) ==
  /\ s.pos \in Nat /\ k \in 1 .. s.pos /\ t.pos = s.pos - 1
  /\ \A i \in 1 .. s.pos - 1 :
       t.entries[i] = IF i < k THEN s.entries[i] ELSE s.entries[i + 1]

LEMMA PoppedLinks ==
  ASSUME NEW s, NEW k, NEW t, Popped(s, k, t), NEW q, NEW f \in Seq(Nat),
         Len(f) = Len(q), Over(f, k)
  PROVE  /\ LinkedTo(q, f, s) => LinkedTo(q, Shift(f), t)
         /\ AnswersTo(q, f, s) => AnswersTo(q, Shift(f), t)
<1>0. /\ Len(Shift(f)) = Len(f)
      /\ \A i \in 1 .. Len(f) :
           /\ f[i] \in Nat /\ Shift(f)[i] \in Nat
           /\ Shift(f)[i] = IF f[i] = 0 THEN 0 ELSE f[i] - 1
  BY ShiftFacts
<1>1. \A i \in 1 .. Len(f) :
        f[i] # 0 /\ f[i] <= s.pos =>
          /\ Shift(f)[i] # 0 /\ Shift(f)[i] <= t.pos
          /\ t.entries[Shift(f)[i]] = s.entries[f[i]]
  <2> TAKE i \in 1 .. Len(f)
  <2>1. PICK n \in Nat : n = f[i]
    BY <1>0
  <2>2. n # 0 => k < n /\ Shift(f)[i] = n - 1
    BY <1>0, <2>1 DEF Over, Popped
  <2>3. n # 0 /\ n <= s.pos =>
          /\ n - 1 \in 1 .. s.pos - 1 /\ ~(n - 1 < k) /\ (n - 1) + 1 = n
    BY <2>2 DEF Popped
  <2> QED BY <2>1, <2>2, <2>3 DEF Popped
<1>2. \A i \in 1 .. Len(f) : Shift(f)[i] # 0 => f[i] # 0
  BY <1>0
<1>3. LinkedTo(q, f, s) => LinkedTo(q, Shift(f), t)
  BY <1>1, <1>2, Zenon DEF LinkedTo
<1>4. AnswersTo(q, f, s) => AnswersTo(q, Shift(f), t)
  BY <1>1, <1>2, Zenon DEF AnswersTo
<1> QED BY <1>3, <1>4

(* The response at the head is linked to an entry that it answers, so the  *)
(* one it finds is that, or one before.                                    *)
LEMMA OverLess ==
  ASSUME NEW f \in Seq(Nat), NEW n \in Nat, Over(f, n), NEW k \in Nat,
         k <= n, k # 0
  PROVE  Over(f, k)
<1>1. \A i \in 1 .. Len(f) : f[i] \in Nat
  BY ElementOfSeq
<1>2. \A i \in 1 .. Len(f) : f[i] # 0 => n < f[i]
  BY DEF Over
<1> QED BY <1>1, <1>2 DEF Over

LEMMA LinksSettle ==
  ASSUME NEW b \in Seq(Incoming), NEW c, NEW w, NEW s, LinkedBy(b, c, w, s),
         b # <<>>, NEW k, AnswersRequest(Head(b)), IsAnswer(s, k, Head(b)),
         NEW t, Popped(s, k, t)
  PROVE  LinkedBy(Tail(b), c, w, t)
<1>1. PICK fb, fc, fw : Links(b, c, w, s, fb, fc, fw)
  BY DEF LinkedBy
<1> USE LinksShape, <1>1
<1> DEFINE n == fb[1]
           g == Tail(fb)
<1>2. /\ fb # <<>> /\ AnswersTo(Tail(b), g, s)
      /\ n # 0 /\ n <= s.pos /\ Head(b).kind = s.entries[n].kind
      /\ Head(b).id = s.entries[n].id
  BY LinkedTail
<1>3. /\ g \in Seq(Nat) /\ Len(g) = Len(fb) - 1 /\ Rising(g)
      /\ Below(g, fc) /\ Below(g, fw) /\ Over(g, n)
      /\ Over(fc, n) /\ Over(fw, n) /\ n \in Nat
  BY <1>2, LinkTail
<1>4. Len(g) = Len(Tail(b))
  <2>1. Len(Tail(b)) = Len(b) - 1
    BY TailFacts
  <2>2. Len(fb) = Len(b)
    BY LinksShape
  <2>3. Len(g) = Len(fb) - 1
    BY <1>3
  <2> QED BY ONLY <2>1, <2>2, <2>3
<1> HIDE DEF g, n
<1>5. k \in Nat /\ k # 0 /\ k <= n
  <2>1. n \in 1 .. s.pos /\ k \in 1 .. s.pos
    BY <1>2, <1>3 DEF Popped
  <2>2. k <= n
    BY <1>2, <2>1, Zenon DEF IsAnswer
  <2>3. s.pos \in Nat
    BY DEF Popped
  <2> QED BY <2>1, <2>2, <2>3
<1>6. Over(g, k) /\ Over(fc, k) /\ Over(fw, k)
  BY <1>3, <1>5, OverLess
<1>7. /\ AnswersTo(Tail(b), Shift(g), t) /\ LinkedTo(c, Shift(fc), t)
      /\ LinkedTo(w, Shift(fw), t)
  <2>1. AnswersTo(Tail(b), Shift(g), t)
    BY <1>2, <1>3, <1>4, <1>6, PoppedLinks
  <2>2. LinkedTo(c, Shift(fc), t)
    BY <1>6, PoppedLinks
  <2>3. LinkedTo(w, Shift(fw), t)
    BY <1>6, PoppedLinks
  <2> QED BY <2>1, <2>2, <2>3
<1>8. /\ Rising(Shift(g)) /\ Rising(Shift(fc)) /\ Rising(Shift(fw))
      /\ Below(Shift(g), Shift(fc)) /\ Below(Shift(g), Shift(fw))
      /\ Below(Shift(fc), Shift(fw))
  BY <1>3, ShiftKeepsOrder
<1>9. /\ Shift(g) \in Seq(Nat) /\ Len(Shift(g)) = Len(Tail(b))
      /\ Shift(fc) \in Seq(Nat) /\ Len(Shift(fc)) = Len(c)
      /\ Shift(fw) \in Seq(Nat) /\ Len(Shift(fw)) = Len(w)
  BY <1>3, <1>4, ShiftFacts
<1>10. Links(Tail(b), c, w, t, Shift(g), Shift(fc), Shift(fw))
  BY <1>7, <1>8, <1>9, Zenon DEF Links
<1> QED BY <1>10 DEF LinkedBy

(* A packet that no request waits for is received.                         *)
LEMMA LinksReceive ==
  ASSUME NEW b \in Seq(Incoming), NEW c, NEW w, NEW s, LinkedBy(b, c, w, s),
         b # <<>>
  PROVE  LinkedBy(Tail(b), c, w, s)
<1>1. PICK fb, fc, fw : Links(b, c, w, s, fb, fc, fw)
  BY DEF LinkedBy
<1> USE LinksShape, <1>1
<1> DEFINE g == Tail(fb)
<1>2. fb # <<>> /\ AnswersTo(Tail(b), g, s)
  BY LinkedTail
<1>3. /\ g \in Seq(Nat) /\ Len(g) = Len(fb) - 1 /\ Rising(g)
      /\ Below(g, fc) /\ Below(g, fw)
  BY <1>2, LinkTail
<1>4. Len(Tail(b)) = Len(b) - 1
  BY TailFacts
<1> HIDE DEF g
<1>5. Links(Tail(b), c, w, s, g, fc, fw)
  BY <1>2, <1>3, <1>4 DEF Links
<1> QED BY <1>5 DEF LinkedBy

(* Nothing but messages of the broker is under way.                        *)
LEMMA LinksNone ==
  ASSUME NEW b \in Seq(Incoming), \A i \in 1 .. Len(b) : ~AnswersRequest(b[i]),
         NEW s
  PROVE  LinkedBy(b, <<>>, <<>>, s)
<1> DEFINE f == [i \in 1 .. Len(b) |-> 0]
<1>1. Len(b) \in Nat /\ Len(<<>>) = 0 /\ <<>> \in Seq(Nat)
  BY LenProperties
<1>2. f \in Seq(Nat) /\ Len(f) = Len(b) /\ \A i \in 1 .. Len(b) : f[i] = 0
  BY <1>1
<1> HIDE DEF f
<1>3. AnswersTo(b, f, s) /\ Rising(f) /\ Below(f, <<>>)
  BY <1>1, <1>2 DEF AnswersTo, Rising, Below
<1>4. /\ LinkedTo(<<>>, <<>>, s) /\ Rising(<<>>) /\ Below(<<>>, <<>>)
  BY <1>1 DEF LinkedTo, Rising, Below
<1>5. Links(b, <<>>, <<>>, s, f, <<>>, <<>>)
  BY <1>1, <1>2, <1>3, <1>4 DEF Links
<1> QED BY <1>5 DEF LinkedBy

-----------------------------------------------------------------------------
LEMMA AppendedKeeps ==
  ASSUME NEW E, NEW s, WellFormed(s, E), NEW e \in E
  PROVE  Keeps(s, Appended(s, e))
<1>1. s.pos \in Nat /\ Count(s) \in Nat /\ s.pos <= Count(s)
  BY LenProperties DEF WellFormed, Count
<1>2. /\ Appended(s, e).pos = s.pos
      /\ \A j \in 1 .. Count(s) : Appended(s, e).entries[j] = s.entries[j]
  BY AppendedLemma
<1>3. \A j \in 1 .. s.pos : j \in 1 .. Count(s)
  BY <1>1
<1> QED BY <1>1, <1>2, <1>3 DEF Keeps

LEMMA SameKeeps ==
  ASSUME NEW E, NEW s, WellFormed(s, E)
  PROVE  Keeps(s, s)
BY DEF WellFormed, Keeps

(* The answered entry is out of the store; what is appended comes last.    *)
LEMMA SettledPopped ==
  ASSUME NEW s, WellFormed(s, CarriedEntries), NEW k \in 1 .. s.pos
  PROVE  Popped(s, k, Settled(s, k))
<1>1. /\ s.pos \in Nat /\ Count(s) \in Nat /\ s.pos <= Count(s)
      /\ k \in 1 .. Count(s) /\ s.pos >= k
  BY LenProperties DEF WellFormed, Count
<1> DEFINE t == PopAt(s, k)
<1>2. /\ WellFormed(t, CarriedEntries) /\ Count(t) = Count(s) - 1
      /\ t.pos = s.pos - 1
      /\ \A j \in 1 .. Count(s) - 1 :
           t.entries[j] = IF j < k THEN s.entries[j] ELSE s.entries[j + 1]
  BY <1>1, PopAtLemma
<1> HIDE DEF t
<1>3. \A j \in 1 .. s.pos - 1 : j \in 1 .. Count(s) - 1 /\ j \in 1 .. Count(t)
  BY <1>1, <1>2
<1>4. Popped(s, k, t)
  BY <1>1, <1>2, <1>3 DEF Popped
<1>5. CASE s.entries[k].kind = "PUBLISH_2"
  <2> DEFINE e == PubrelFor(s.entries[k])
  <2>1. e \in CarriedEntries
    BY <1>1, <1>5, PubrelType, ElementOfSeq DEF WellFormed, Count
  <2> HIDE DEF e
  <2>2. /\ Appended(t, e).pos = t.pos
        /\ \A j \in 1 .. Count(t) : Appended(t, e).entries[j] = t.entries[j]
    BY <1>2, <2>1, AppendedLemma
  <2>3. Popped(s, k, Appended(t, e))
    BY <1>3, <1>4, <2>2 DEF Popped
  <2> QED BY <1>5, <2>3 DEF Settled, t, e
<1>6. CASE s.entries[k].kind # "PUBLISH_2"
  BY <1>4, <1>6 DEF Settled, t
<1> QED BY <1>5, <1>6

LEMMA DroppedKeeps ==
  ASSUME NEW s, WellFormed(s, CarriedEntries), HasCurrent(s)
  PROVE  Keeps(s, DropCurrent(s))
<1>1. /\ s.pos \in Nat /\ Count(s) \in Nat /\ s.pos + 1 \in 1 .. Count(s)
      /\ ~(s.pos >= s.pos + 1)
  BY LenProperties DEF WellFormed, Count, HasCurrent
<1> DEFINE t == PopAt(s, s.pos + 1)
<1>2. /\ t.pos = s.pos
      /\ \A j \in 1 .. Count(s) - 1 :
           t.entries[j] = IF j < s.pos + 1 THEN s.entries[j]
                                           ELSE s.entries[j + 1]
  BY <1>1, PopAtLemma
<1> HIDE DEF t
<1>3. \A j \in 1 .. s.pos : j \in 1 .. Count(s) - 1 /\ j < s.pos + 1
  BY <1>1
<1>4. Keeps(s, t)
  BY <1>1, <1>2, <1>3 DEF Keeps
<1> QED BY <1>4 DEF DropCurrent, t

LEMMA MarkedKeeps ==
  ASSUME NEW s, WellFormed(s, CarriedEntries), HasCurrent(s)
  PROVE  /\ Keeps(s, MarkCurrent(s)) /\ MarkCurrent(s).pos = s.pos + 1
         /\ Current(s) = MarkCurrent(s).entries[MarkCurrent(s).pos]
<1>1. /\ MarkCurrent(s).entries = s.entries /\ MarkCurrent(s).pos = s.pos + 1
      /\ s.pos \in Nat
  BY MarkCurrentLemma DEF WellFormed
<1> QED BY <1>1 DEF Keeps, Current

LEMMA AcknowledgingKeeps ==
  ASSUME SessionInv, NEW kind \in AckKinds, NEW id \in InboundIds
  PROVE  Keeps(main_store, Acknowledging(kind, id))
BY MainKept, AckEntryType, AppendedKeeps, SameKeeps DEF Acknowledging

LEMMA LinksEmpty ==
  ASSUME NEW s
  PROVE  LinkedBy(<<>>, <<>>, <<>>, s)
<1>1. Len(<<>>) = 0 /\ <<>> \in Seq(Nat)
  BY EmptySeq
<1>2. /\ AnswersTo(<<>>, <<>>, s) /\ LinkedTo(<<>>, <<>>, s)
      /\ Rising(<<>>) /\ Below(<<>>, <<>>)
  BY <1>1 DEF AnswersTo, LinkedTo, Rising, Below
<1>3. Links(<<>>, <<>>, <<>>, s, <<>>, <<>>, <<>>)
  BY <1>1, <1>2 DEF Links
<1> QED BY <1>3 DEF LinkedBy

LEMMA LinkedKept ==
  ASSUME SessionInv, SessionStep
  PROVE  Linked'
<1> USE QueuesNow
<1>l. up => LinkedBy(b2c, c2b, write_buf, main_store)
  BY DEF SessionInv, Linked
<1>s. Keeps(main_store, main_store)
  BY SameKeeps
<1>k. ASSUME UNCHANGED <<b2c, c2b, write_buf>>, up' => up,
             Keeps(main_store, main_store')
      PROVE  Linked'
  BY <1>k, <1>l, LinksKeep DEF Linked
<1>1. CASE Opens
  <2>1. LinkedBy(<<>>, <<>>, <<>>, main_store')
    BY LinksEmpty
  <2> QED BY <1>1, <2>1 DEF Opens, Linked
<1>2. ASSUME NEW e \in CarriedEntries, Accepts(e)
      PROVE  Linked'
  BY <1>2, <1>k, AppendedKeeps DEF Accepts, Wires
<1>3. CASE Stops
  BY <1>3, <1>k, <1>s DEF Stops, Ours, Wires
<1>4. CASE EncodesConnect
  <2>1. up => LinkedBy(b2c, c2b, Append(write_buf, ConnectEntry), main_store)
    BY <1>l, LinksEncode, ConnectFacts
  <2> QED BY <1>4, <2>1 DEF EncodesConnect, Linked, Wires
<1>5. ASSUME NEW e \in CarriedEntries, Encodes(e)
      PROVE  Linked'
  <2>1. /\ HasCurrent(main_store) /\ e = Current(main_store)
        /\ write_buf' = Append(write_buf, e) /\ UNCHANGED <<up, b2c, c2b>>
    BY <1>5 DEF Encodes, Wires
  <2>2. CASE Awaited(e)
    <3>1. main_store' = MarkCurrent(main_store)
      BY <1>5, <2>2 DEF Encodes
    <3>2. /\ Keeps(main_store, main_store')
          /\ main_store'.pos = main_store.pos + 1
          /\ e = main_store'.entries[main_store'.pos]
      BY <2>1, <3>1, MarkedKeeps
    <3>3. up => LinkedBy(b2c, c2b, Append(write_buf, e), main_store')
      BY <1>l, <3>2, LinksMark
    <3> QED BY <2>1, <3>3 DEF Linked
  <2>3. CASE ~Awaited(e)
    <3>1. main_store' = DropCurrent(main_store)
      BY <1>5, <2>3 DEF Encodes
    <3>2. Keeps(main_store, main_store')
      BY <2>1, <3>1, DroppedKeeps
    <3>3. up => LinkedBy(b2c, c2b, Append(write_buf, e), main_store)
      BY <1>l, <2>3, LinksEncode
    <3>4. up => LinkedBy(b2c, c2b, Append(write_buf, e), main_store')
      BY <3>2, <3>3, LinksKeep
    <3> QED BY <2>1, <3>4 DEF Linked
  <2> QED BY <2>2, <2>3
<1>6. CASE Sends
  <2>1. /\ up /\ write_buf # <<>> /\ UNCHANGED <<main_store, up, b2c>>
        /\ write_buf' = Tail(write_buf)
        /\ c2b' = Append(c2b, Head(write_buf))
    BY <1>6 DEF Sends
  <2>2. LinkedBy(b2c, Append(c2b, Head(write_buf)), Tail(write_buf),
                 main_store)
    BY <1>l, <2>1, LinksSend
  <2> QED BY <2>1, <2>2 DEF Linked
<1>n. ASSUME NEW q \in Seq(Incoming), ~Has(q, Responses)
      PROVE  LinkedBy(q, <<>>, <<>>, main_store')
  <2>1. \A i \in 1 .. Len(q) : ~AnswersRequest(q[i])
    <3> TAKE i \in 1 .. Len(q)
    <3>1. q[i] \in Incoming /\ q[i] \notin Responses
      BY <1>n, ElementOfSeq DEF Has
    <3> QED BY <3>1, IncomingFacts
  <2> QED BY <2>1, LinksNone
<1>9. ASSUME NEW p, Takes(p), Keeps(main_store, main_store')
      PROVE  Linked'
  <2>1. /\ up /\ b2c # <<>> /\ b2c' = Tail(b2c)
        /\ UNCHANGED <<write_buf, c2b, up>>
    BY <1>9 DEF Takes
  <2>2. LinkedBy(Tail(b2c), c2b, write_buf, main_store)
    BY <1>l, <2>1, LinksReceive
  <2>3. LinkedBy(Tail(b2c), c2b, write_buf, main_store')
    BY <1>9, <2>2, LinksKeep
  <2> QED BY <2>1, <2>3 DEF Linked
<1>7. CASE TakesConnack
  <2>1. /\ AwaitingConnack /\ b2c' = Tail(b2c)
        /\ UNCHANGED <<write_buf, c2b, up>>
    BY <1>7 DEF TakesConnack, Takes
  <2>2. /\ write_buf = <<>> /\ c2b = <<>> /\ b2c # <<>>
        /\ ~Has(Tail(b2c), Responses) /\ Tail(b2c) \in Seq(Incoming)
    BY <2>1, TailFacts DEF AwaitingConnack
  <2>4. LinkedBy(Tail(b2c), <<>>, <<>>, main_store')
    BY <1>n, <2>2
  <2> QED BY <2>1, <2>2, <2>4 DEF Linked
<1>7a. CASE BeginsConnack
  <2>1. UNCHANGED main_store /\ Takes(Response(ConnectEntry))
    BY <1>7a DEF BeginsConnack
  <2> QED BY <1>9, <1>s, <2>1
<1>7b. CASE EndsConnack
  <2>1. /\ write_buf = <<>> /\ c2b = <<>> /\ ~Has(b2c, Responses)
        /\ UNCHANGED <<write_buf, c2b, b2c, up>>
    BY <1>7b DEF EndsConnack, HalfConnack, Wires
  <2>2. LinkedBy(b2c, <<>>, <<>>, main_store')
    BY <1>n, <2>1
  <2> QED BY <2>1, <2>2 DEF Linked
<1>8. ASSUME NEW p \in Incoming, NEW k \in Nat, GetsResponse(p, k)
      PROVE  Linked'
  <2>1. /\ up /\ b2c # <<>> /\ p = Head(b2c) /\ b2c' = Tail(b2c)
        /\ UNCHANGED <<write_buf, c2b, up>>
        /\ AnswersRequest(p) /\ IsAnswer(main_store, k, p)
        /\ main_store' = Settled(main_store, k)
    BY <1>8 DEF GetsResponse, Takes
  <2>2. Popped(main_store, k, main_store')
    BY <2>1, SettledPopped DEF IsAnswer
  <2>3. LinkedBy(Tail(b2c), c2b, write_buf, main_store')
    BY <1>l, <2>1, <2>2, LinksSettle
  <2> QED BY <2>1, <2>3 DEF Linked
<1>10. ASSUME NEW p \in Incoming, GetsPublish(p)
       PROVE  Linked'
  <2>1. p.id \in InboundIds
    BY <1>10, IncomingFacts DEF GetsPublish
  <2>2. Keeps(main_store, main_store')
    BY <1>10, <2>1, AcknowledgingKeeps DEF GetsPublish, AckKinds
  <2> QED BY <1>9, <1>10, <2>2 DEF GetsPublish
<1>11. ASSUME NEW p \in Incoming, GetsPubrel(p)
       PROVE  Linked'
  <2>1. p.id \in InboundIds
    BY <1>11, IncomingFacts DEF GetsPubrel
  <2>2. Keeps(main_store, main_store')
    BY <1>11, <2>1, AcknowledgingKeeps DEF GetsPubrel, AckKinds
  <2> QED BY <1>9, <1>11, <2>2 DEF GetsPubrel
<1>12. CASE Breaks
  BY <1>12 DEF Breaks, Linked
<1>13. CASE Forgets
  BY <1>13, <1>k, <1>s DEF Forgets, Ours, Wires
<1>14. ASSUME NEW p, BrokerTakes(p)
       PROVE  /\ up /\ c2b # <<>> /\ p = Head(c2b) /\ c2b' = Tail(c2b)
              /\ UNCHANGED <<up, write_buf, main_store>>
              /\ LinkedBy(b2c, Tail(c2b), write_buf, main_store)
              /\ Tail(c2b) \in Seq(Outgoing)
  BY <1>14, <1>l, LinksTake, TailFacts DEF BrokerTakes, Ours
<1>15. ASSUME NEW p \in Outgoing, BrokerAnswers(p)
       PROVE  Linked'
  <2>1. BrokerTakes(p) /\ b2c' = Append(b2c, Response(p))
        /\ p.kind \in ResponseKinds
    BY <1>15 DEF BrokerAnswers
  <2>2. LinkedBy(Append(b2c, Response(p)), Tail(c2b), write_buf, main_store)
    BY <1>l, <1>14, <2>1, LinksAnswer
  <2> QED BY <1>14, <2>1, <2>2 DEF Linked
<1>16. ASSUME NEW p, BrokerTakes(p), UNCHANGED b2c
       PROVE  Linked'
  BY <1>14, <1>16 DEF Linked
<1>17. ASSUME NEW p \in Outgoing, NEW m \in Inbound, BrokerReleases(p, m)
       PROVE  Linked'
  <2>1. /\ PubrelTo(m, out[m]) \in Incoming
        /\ ~AnswersRequest(PubrelTo(m, out[m]))
    BY <1>17, SentAgainType DEF BrokerReleases, Concerns, AnswersRequest
  <2>2. BrokerTakes(p) /\ b2c' = Append(b2c, PubrelTo(m, out[m]))
    BY <1>17 DEF BrokerReleases
  <2>3. LinkedBy(Append(b2c, PubrelTo(m, out[m])), Tail(c2b), write_buf,
                 main_store)
    BY <1>14, <2>1, <2>2, LinksWrite
  <2> QED BY <1>14, <2>2, <2>3 DEF Linked
<1>18. ASSUME NEW m \in Inbound, NEW p \in Incoming, p.type # "response",
              BrokerWrites(m, p)
       PROVE  Linked'
  <2>1. /\ up /\ b2c' = Append(b2c, p) /\ UNCHANGED <<up, c2b>>
        /\ UNCHANGED <<write_buf, main_store>> /\ ~AnswersRequest(p)
    BY <1>18 DEF BrokerWrites, Ours, AnswersRequest
  <2>2. LinkedBy(Append(b2c, p), c2b, write_buf, main_store)
    BY <1>l, <2>1, LinksWrite
  <2> QED BY <2>1, <2>2 DEF Linked
<1>19. ASSUME NEW m \in Inbound,
              \/ \E qos \in {1, 2}, id \in InboundIds : SendsFirst(m, qos, id)
              \/ SendsAgain(m) \/ SendsPubrel(m)
       PROVE  Linked'
  <2>1. \A qos, id : Packet("publish", qos, id, m).type = "publish"
    BY DEF Packet
  <2> QED
    BY <1>18, <1>19, <2>1, SentType, SentAgainType
       DEF SendsFirst, SendsAgain, SendsPubrel
<1>20. ClientStep => Linked'
  BY <1>1, <1>2, <1>3, <1>4, <1>5, <1>6, <1>7, <1>7a, <1>7b, <1>8, <1>10,
     <1>11, Zenon DEF ClientStep
<1>21. BrokerStep => Linked'
  BY <1>15, <1>16, <1>17, <1>19, Zenon
     DEF BrokerStep, BrokerIgnores, BrokerCompletes
<1> QED BY <1>12, <1>13, <1>20, <1>21 DEF SessionStep

-----------------------------------------------------------------------------
(* The invariant holds in every state of the composed system.              *)
LEMMA InitSession == SInit => SessionInv
<1> SUFFICES ASSUME SInit PROVE SessionInv
  OBVIOUS
<1>1. /\ Init /\ up = FALSE /\ c2b = <<>> /\ b2c = <<>> /\ greeted = FALSE
      /\ srv_ids = {} /\ on_wire = {} /\ log = <<>>
      /\ out = [m \in Inbound |-> [st |-> "new", qos |-> 0, id |-> 0]]
      /\ forgets = 0 /\ stale = {} /\ got = [m \in Inbound |-> 0]
      /\ kind_of = [r \in Requests |-> "NONE"]
  BY DEF SInit
<1>2. RequestInv
  BY <1>1, InitRequests
<1>3. ClientFlags
  BY <1>1 DEF Init, ClientFlags
<1>4. /\ main_store = EmptyStore /\ connect_store = EmptyStore
      /\ write_buf = <<>> /\ current = "connect" /\ closed = TRUE
  BY <1>1 DEF Init
<1>5. \A E : WellFormed(EmptyStore, E)
  BY EmptySeq DEF WellFormed, Count, EmptyStore
<1>6. QueueTypes
  BY <1>1, <1>4, <1>5, EmptySeq DEF QueueTypes
<1>7. \A m \in Inbound : out[m] = [st |-> "new", qos |-> 0, id |-> 0]
  BY <1>1
<1>8. OutTypes
  <2>1. out \in [Inbound -> [st: Stages, qos: 0 .. 2, id: Nat]]
    BY <1>1 DEF Stages
  <2>2. \A m \in Inbound : out[m].st = "new"
    BY <1>7
  <2> QED BY <2>1, <2>2 DEF OutTypes, OnItsWay
<1>9. BrokerTypes
  BY <1>1, EmptySeq DEF BrokerTypes
<1>10. Phases /\ Linked
  BY <1>1, <1>4 DEF Phases, Linked, Dialing
<1> QED BY <1>2, <1>3, <1>6, <1>8, <1>9, <1>10 DEF SessionInv

LEMMA NextSession ==
  ASSUME SessionInv, [SNext]_svars
  PROVE  SessionInv'
<1>1. RequestInv'
  BY SessionRefinesClient, NextRequests DEF SessionInv
<1>2. CASE SNext
  <2>1. SessionStep
    BY <1>2, SessionSteps
  <2> QED
    BY <1>1, <1>2, <2>1, FlagsKept, QueueTypesKept, OutTypesKept,
       BrokerTypesKept, PhasesKept, LinkedKept DEF SessionInv
<1>3. CASE UNCHANGED svars
  <2>1. /\ UNCHANGED <<vars, up, c2b, b2c, broker, got, kind_of>>
    BY <1>3 DEF svars, net
  <2>2. /\ UNCHANGED <<main_store, connect_store, write_buf, current, closed,
                      error, clean_session, connect_clean, rx_value,
                      tx_closed, requests_enabled>>
        /\ UNCHANGED <<up, c2b, b2c, greeted, srv_ids, out, on_wire, log,
                       forgets, stale, got, kind_of>>
    BY <2>1 DEF vars, state, stores, session, txs, broker, lost
  <2>3. ClientFlags' /\ QueueTypes' /\ OutTypes' /\ BrokerTypes'
    BY <2>2
       DEF SessionInv, ClientFlags, QueueTypes, OutTypes, BrokerTypes, OnItsWay
  <2>4. Phases' /\ Linked'
    BY <2>2
       DEF SessionInv, Phases, Linked, Dialing, DialPhase, JustConnect,
           AwaitingConnack, HalfConnack, Greeted
  <2> QED BY <1>1, <2>3, <2>4 DEF SessionInv
<1> QED BY <1>2, <1>3

(* The shape of every step, for the invariants below.                      *)
LEMMA NextIsStep ==
  ASSUME SessionInv, SNext
  PROVE  SessionStep /\ SessionInv'
BY SessionSteps, NextSession

(* Composed with a broker, the client still only does what LmqttClient     *)
(* says of it: the theorems about the client alone, whose peer may send    *)
(* anything, hold for the connections of a session too.                    *)
THEOREM SessionIsClient == SSpec => Spec
<1>1. SInit => Init
  BY DEF SInit
<1>2. SInit => SessionInv
  BY InitSession
<1>3. SessionInv /\ [SNext]_svars => SessionInv'
  BY NextSession
<1>4. SessionInv /\ [SNext]_svars => [Next]_vars
  BY SessionRefinesClient
<1> QED BY <1>1, <1>2, <1>3, <1>4, PTL DEF SSpec, Spec

(* The variables of the session keep their types, and the packets under    *)
(* way to and from the broker are always linked, in order, to the marked   *)
(* entries of main_store (tx_buffer, rx_buffer_pop_packet, store_find).    *)
THEOREM SessionInvariant == SSpec => []SessionInv
BY InitSession, NextSession, PTL DEF SSpec

LEMMA AnswersNow ==
  ASSUME SessionInv
  PROVE  AnswersFindRequests
<1> SUFFICES ASSUME NEW i \in 1 .. Len(b2c), Running, b2c[i].type = "response"
             PROVE  Matching(CurrentStore, b2c[i].kind, b2c[i].id) # {}
  BY DEF AnswersFindRequests
<1>1. /\ b2c \in Seq(Incoming) /\ Len(b2c) \in Nat /\ b2c # <<>> /\ up
      /\ b2c[i] \in Incoming
  <2>1. b2c \in Seq(Incoming) /\ (~up => b2c = <<>>) /\ Len(<<>>) = 0
        /\ Len(b2c) \in Nat
    BY QueuesNow, LenProperties
  <2> QED BY <2>1, ElementOfSeq
<1>2. ~closed
  BY DEF Running
<1>3. CASE current = "connect"
  <2>1. AwaitingConnack
    <3>1. DialPhase
      BY <1>1, <1>2, <1>3, PhasesNow
    <3>2. b2c[i] \in Responses
      BY <1>1, IncomingFacts
    <3> QED
      BY <1>1, <3>1, <3>2, Zenon DEF DialPhase, JustConnect, HalfConnack, Has
  <2>2. i = 1
    <3> SUFFICES ASSUME i # 1 PROVE FALSE
      OBVIOUS
    <3>1. /\ i - 1 \in 1 .. Len(Tail(b2c)) /\ Tail(b2c)[i - 1] = b2c[i]
      <4>1. Len(Tail(b2c)) = Len(b2c) - 1
            /\ \A j \in 1 .. Len(b2c) - 1 : Tail(b2c)[j] = b2c[j + 1]
        BY <1>1, TailFacts
      <4>2. i - 1 \in 1 .. Len(b2c) - 1 /\ (i - 1) + 1 = i
        BY <1>1
      <4> QED BY <4>1, <4>2
    <3>2. b2c[i] \in Responses
      BY <1>1, IncomingFacts
    <3> QED BY <2>1, <3>1, <3>2 DEF AwaitingConnack, Has
  <2>3. b2c[i] = Response(ConnectEntry)
    BY <1>1, <2>1, <2>2, TailFacts DEF AwaitingConnack
  <2>4. 1 \in 1 .. connect_store.pos /\ connect_store.entries[1] = ConnectEntry
    BY <2>1 DEF AwaitingConnack
  <2>5. b2c[i].kind = "CONNECT" /\ b2c[i].id = 0
    BY <2>3, ConnectFacts
  <2>6. 1 \in Matching(connect_store, b2c[i].kind, b2c[i].id)
    BY <2>4, <2>5, ConnectFacts DEF Matching
  <2> QED BY <1>3, <2>6 DEF CurrentStore
<1>4. CASE current = "main"
  <2>1. b2c[i] # Response(ConnectEntry)
    BY <1>1, <1>4, PhasesNow DEF Greeted, Has
  <2>2. AnswersRequest(b2c[i])
    BY <1>1, <2>1, IncomingFacts
  <2>3. PICK fb, fc, fw : Links(b2c, c2b, write_buf, main_store, fb, fc, fw)
    BY <1>1 DEF SessionInv, Linked, LinkedBy
  <2>4. /\ fb \in Seq(Nat) /\ Len(fb) = Len(b2c)
        /\ AnswersTo(b2c, fb, main_store)
    BY <2>3, LinksShape
  <2>5. PICK n \in Nat : n = fb[i]
    BY <2>4, ElementOfSeq
  <2>6. /\ n # 0 /\ n <= main_store.pos
        /\ main_store.entries[n].kind = b2c[i].kind
        /\ main_store.entries[n].id = b2c[i].id
    BY <2>2, <2>4, <2>5 DEF AnswersTo
  <2>7. n \in 1 .. main_store.pos
    BY <2>6, MainKept
  <2>8. n \in Matching(main_store, b2c[i].kind, b2c[i].id)
    BY <2>6, <2>7 DEF Matching
  <2> QED BY <1>4, <2>8 DEF CurrentStore
<1> QED BY <1>3, <1>4, ClientNow

(* A broker that answers what it gets, in any order with its own messages, *)
(* over any connections, never sends a response that store_find does not   *)
(* find a request for.                                                     *)
THEOREM EveryAnswerIsExpected == SSpec => []AnswersFindRequests
BY SessionInvariant, AnswersNow, PTL

-----------------------------------------------------------------------------
(* A QoS 2 message is delivered once.  What is under way to the client     *)
(* fits what the broker knows of the message it is about.                  *)
Publishing(m) == {p \in Incoming : p.type = "publish" /\ p.msg = m}
Releasing(id) == {p \in Incoming : p.type = "pubrel" /\ p.id = id}

Fits(p) ==
  p.type # "response" =>
    /\ out[p.msg].st # "new"
    /\ p.id = out[p.msg].id /\ p.kind = out[p.msg].qos
    /\ p.type = "publish" => p.msg \in on_wire
Consistent == \A p \in Incoming : Has(b2c, {p}) => Fits(p)

LEMMA HasWider ==
  ASSUME NEW q, NEW S, NEW T, S \subseteq T, Has(q, S)
  PROVE  Has(q, T)
BY DEF Has

LEMMA HasSome ==
  ASSUME NEW E, NEW q \in Seq(E), NEW S, Has(q, S)
  PROVE  \E p \in S : p \in E /\ Has(q, {p})
<1>1. PICK i \in 1 .. Len(q) : q[i] \in S
  BY DEF Has
<1>2. q[i] \in E
  BY ElementOfSeq
<1> QED BY <1>1, <1>2 DEF Has

(* What is known of a message that has been sent stays.                    *)
LEMMA OutGrows ==
  ASSUME SessionInv, SessionStep, NEW m \in Inbound, out[m].st # "new"
  PROVE  /\ out'[m].st # "new" /\ out'[m].id = out[m].id
         /\ out'[m].qos = out[m].qos
<1>1. CASE UNCHANGED out
  BY <1>1
<1>2. CASE Forgets
  BY <1>2, LostTypes
<1>3. ASSUME NEW p, NEW n \in Inbound, BrokerReleases(p, n)
      PROVE  /\ out'[m].st # "new" /\ out'[m].id = out[m].id
             /\ out'[m].qos = out[m].qos
  BY <1>3, ReleasesTypes
<1>4. ASSUME NEW p, NEW n \in Inbound, BrokerCompletes(p, n)
      PROVE  /\ out'[m].st # "new" /\ out'[m].id = out[m].id
             /\ out'[m].qos = out[m].qos
  BY <1>4, CompletesTypes
<1>5. ASSUME NEW n \in Inbound, NEW qos \in {1, 2}, NEW id \in InboundIds,
             SendsFirst(n, qos, id)
      PROVE  /\ out'[m].st # "new" /\ out'[m].id = out[m].id
             /\ out'[m].qos = out[m].qos
  <2>1. m # n
    BY <1>5 DEF SendsFirst
  <2> QED BY <1>5, <2>1, FirstTypes
<1>6. ClientStep => UNCHANGED out
  BY DEF ClientStep, Opens, Accepts, Stops, EncodesConnect, Encodes, Sends,
         TakesConnack, BeginsConnack, EndsConnack, GetsResponse, GetsPublish,
         GetsPubrel, Takes, broker
<1>7. Breaks => UNCHANGED out
  BY DEF Breaks, broker
<1>8. BrokerStep =>
        \/ UNCHANGED out
        \/ \E p \in Outgoing, n \in Inbound : \/ BrokerReleases(p, n)
                                              \/ BrokerCompletes(p, n)
        \/ \E n \in Inbound, qos \in {1, 2}, id \in InboundIds :
             SendsFirst(n, qos, id)
  BY DEF BrokerStep, BrokerAnswers, BrokerIgnores, SendsAgain, SendsPubrel
<1> QED
  BY <1>1, <1>2, <1>3, <1>4, <1>5, <1>6, <1>7, <1>8, Zenon DEF SessionStep

(* What a step does to the queue of packets to the client.                 *)
Writes(p) == b2c' = Append(b2c, p) /\ on_wire \subseteq on_wire'

LEMMA WritesFit ==
  ASSUME SessionInv, SessionStep
  PROVE  \/ b2c' = <<>>
         \/ UNCHANGED <<b2c, on_wire>>
         \/ b2c # <<>> /\ b2c' = Tail(b2c) /\ UNCHANGED on_wire
         \/ \E p \in Incoming : Writes(p) /\ Fits(p)'
<1> DEFINE Goal ==
             \/ b2c' = <<>>
             \/ UNCHANGED <<b2c, on_wire>>
             \/ b2c # <<>> /\ b2c' = Tail(b2c) /\ UNCHANGED on_wire
             \/ \E p \in Incoming : Writes(p) /\ Fits(p)'
<1>1. ClientStep => Goal
  BY DEF ClientStep, Opens, Accepts, Stops, EncodesConnect, Encodes, Sends,
         TakesConnack, BeginsConnack, EndsConnack, GetsResponse, GetsPublish,
         GetsPubrel, Takes, broker, Wires
<1>2. Breaks => Goal
  BY DEF Breaks
<1>3. Forgets => Goal
  BY DEF Forgets, Wires
<1>4. ASSUME NEW p \in Outgoing, BrokerAnswers(p)
      PROVE  Goal
  <2>1. Response(p) \in Incoming /\ Response(p).type = "response"
    BY <1>4, ResponseType DEF BrokerAnswers
  <2>2. Fits(Response(p))'
    BY <2>1 DEF Fits, Response, Packet
  <2> QED BY <1>4, <2>1, <2>2 DEF BrokerAnswers, BrokerTakes, Writes
<1>5. ASSUME NEW p, BrokerIgnores(p)
      PROVE  Goal
  BY <1>5 DEF BrokerIgnores, BrokerTakes
<1>6. ASSUME NEW p, NEW m \in Inbound, BrokerReleases(p, m)
      PROVE  Goal
  <2>1. /\ out[m].st = "sent" /\ out[m].qos = 2
        /\ out'[m].st = "released" /\ out'[m].qos = 2
        /\ out'[m].id = out[m].id
    BY <1>6, ReleasesTypes
  <2>2. PICK r \in Incoming : r = PubrelTo(m, out[m])
    BY <2>1, SentAgainType
  <2>3. r.type = "pubrel" /\ r.msg = m /\ r.id = out[m].id /\ r.kind = 2
    BY <2>1, <2>2 DEF PubrelTo, Packet
  <2>4. Fits(r)'
    BY <2>1, <2>3 DEF Fits
  <2>5. Writes(r)
    BY <1>6, <2>2 DEF BrokerReleases, BrokerTakes, Writes
  <2> QED BY <2>4, <2>5, Zenon
<1>7. ASSUME NEW p, NEW m \in Inbound, BrokerCompletes(p, m)
      PROVE  Goal
  BY <1>7 DEF BrokerCompletes, BrokerTakes
<1>8. ASSUME NEW m \in Inbound, NEW qos \in {1, 2}, NEW id \in InboundIds,
             SendsFirst(m, qos, id)
      PROVE  Goal
  <2>1. out'[m] = [st |-> "sent", qos |-> qos, id |-> id] /\ m \in on_wire'
    BY <1>8, FirstTypes DEF SendsFirst, BrokerWrites
  <2>2. Packet("publish", qos, id, m) \in Incoming
    BY SentType
  <2>3. Fits(Packet("publish", qos, id, m))'
    BY <2>1 DEF Fits, Packet
  <2> QED BY <1>8, <2>2, <2>3 DEF SendsFirst, BrokerWrites, Writes
<1>9. ASSUME NEW m \in Inbound, SendsAgain(m)
      PROVE  Goal
  <2>1. /\ PublishTo(m, out[m]) \in Incoming /\ out[m].st = "sent"
        /\ out' = out /\ m \in on_wire'
    BY <1>9, SentAgainType DEF SendsAgain, BrokerWrites
  <2>2. Fits(PublishTo(m, out[m]))'
    BY <2>1 DEF Fits, PublishTo, Packet
  <2> QED BY <1>9, <2>1, <2>2 DEF SendsAgain, BrokerWrites, Writes
<1>10. ASSUME NEW m \in Inbound, SendsPubrel(m)
       PROVE  Goal
  <2>1. /\ PubrelTo(m, out[m]) \in Incoming /\ out[m].st = "released"
        /\ out' = out /\ m \in on_wire'
    BY <1>10, SentAgainType DEF SendsPubrel, BrokerWrites
  <2>2. Fits(PubrelTo(m, out[m]))'
    BY <2>1 DEF Fits, PubrelTo, Packet
  <2> QED BY <1>10, <2>1, <2>2 DEF SendsPubrel, BrokerWrites, Writes
<1> HIDE DEF Goal
<1>11. Goal
  BY <1>1, <1>2, <1>3, <1>4, <1>5, <1>6, <1>7, <1>8, <1>9, <1>10, Zenon
     DEF SessionStep, BrokerStep
<1> QED BY <1>11 DEF Goal

LEMMA ConsistentKept ==
  ASSUME SessionInv, Consistent, SessionStep
  PROVE  Consistent'
<1> SUFFICES ASSUME NEW p \in Incoming, Has(b2c', {p})
             PROVE  Fits(p)'
  BY DEF Consistent
<1>1. b2c \in Seq(Incoming) /\ ~Has(<<>>, {p})
  BY QueuesNow, HasEmpty
<1>2. ASSUME Has(b2c, {p}), on_wire \subseteq on_wire'
      PROVE  Fits(p)'
  <2>1. Fits(p)
    BY <1>2 DEF Consistent
  <2>2. p.type # "response" => p.msg \in Inbound
    BY IncomingFacts
  <2> QED BY <1>2, <2>1, <2>2, OutGrows DEF Fits
<1>3. CASE UNCHANGED <<b2c, on_wire>>
  BY <1>2, <1>3
<1>4. CASE b2c # <<>> /\ b2c' = Tail(b2c) /\ UNCHANGED on_wire
  BY <1>1, <1>2, <1>4, HasTail
<1>5. ASSUME NEW q \in Incoming, Writes(q), Fits(q)'
      PROVE  Fits(p)'
  <2>1. Has(b2c, {p}) \/ q \in {p}
    BY <1>1, <1>5, HasAppend DEF Writes
  <2>2. CASE Has(b2c, {p})
    BY <1>2, <1>5, <2>2 DEF Writes
  <2>3. CASE q = p
    BY <1>5, <2>3
  <2> QED BY <2>1, <2>2, <2>3
<1> QED BY <1>1, <1>3, <1>4, <1>5, WritesFit

(* A message m as the broker knows it (o), how often the application got   *)
(* it (g), the queue b to the client, and the ids S that it remembers; w   *)
(* when m has been sent over this connection.                              *)
Once(m, o, g, b, S, w) ==
  /\ o.st = "new" => g = 0 /\ ~w
  /\ NoneBefore(b, Publishing(m), Publishing(m))
  /\ o.qos = 2 =>
       /\ g <= 1
       /\ g >= 1 /\ Has(b, Publishing(m)) =>
            o.id \in S /\ NoneBefore(b, Releasing(o.id), Publishing(m))
       /\ g >= 1 /\ o.st = "sent" => o.id \in S /\ ~Has(b, Releasing(o.id))
       /\ o.st = "sent" => NoneBefore(b, Publishing(m), Releasing(o.id))
InOnce(m) == Once(m, out[m], got[m], b2c, id_set, m \in on_wire)

LEMMA OnceCleared ==
  ASSUME NEW m, NEW o, NEW g, NEW b, NEW S, NEW w, Once(m, o, g, b, S, w),
         NEW v, v => w
  PROVE  Once(m, o, g, <<>>, S, v)
BY HasEmpty DEF Once

(* The client gets a packet that is not message m.                         *)
LEMMA OnceTail ==
  ASSUME NEW m, NEW o, NEW g, NEW b \in Seq(Incoming), NEW S, NEW w,
         Once(m, o, g, b, S, w), b # <<>>, NEW T,
         o.id \in S => o.id \in T \/ Head(b) \in Releasing(o.id)
  PROVE  Once(m, o, g, Tail(b), T, w)
<1>1. /\ NoneBefore(Tail(b), Publishing(m), Publishing(m))
      /\ NoneBefore(b, Releasing(o.id), Publishing(m)) =>
           NoneBefore(Tail(b), Releasing(o.id), Publishing(m))
      /\ NoneBefore(b, Publishing(m), Releasing(o.id)) =>
           NoneBefore(Tail(b), Publishing(m), Releasing(o.id))
  BY NoneBeforeTail DEF Once
<1>2. /\ Has(Tail(b), Publishing(m)) => Has(b, Publishing(m))
      /\ Has(Tail(b), Releasing(o.id)) => Has(b, Releasing(o.id))
      /\ Head(b) \in Releasing(o.id) => Has(b, Releasing(o.id))
  BY HasTail
<1>3. Head(b) \in Releasing(o.id) /\ NoneBefore(b, Releasing(o.id),
                                                Publishing(m)) =>
        ~Has(Tail(b), Publishing(m))
  BY NoneBeforeTail
<1> QED BY <1>1, <1>2, <1>3 DEF Once

(* The client gets message m.                                              *)
LEMMA OnceGot ==
  ASSUME NEW m, NEW o, NEW g \in Nat, NEW b \in Seq(Incoming), NEW S, NEW w,
         Once(m, o, g, b, S, w), b # <<>>, Head(b) \in Publishing(m),
         NEW T, NEW h, o.st # "new", S \subseteq T,
         h = g \/ (h = g + 1 /\ (o.qos = 2 => o.id \notin S /\ o.id \in T))
  PROVE  Once(m, o, h, Tail(b), T, w)
<1>1. /\ NoneBefore(Tail(b), Publishing(m), Publishing(m))
      /\ NoneBefore(b, Publishing(m), Releasing(o.id)) =>
           /\ NoneBefore(Tail(b), Publishing(m), Releasing(o.id))
           /\ ~Has(Tail(b), Releasing(o.id))
      /\ ~Has(Tail(b), Publishing(m))
  BY NoneBeforeTail DEF Once
<1>2. Has(b, Publishing(m))
  BY HasTail
<1>3. Has(Tail(b), Releasing(o.id)) => Has(b, Releasing(o.id))
  BY HasTail
<1>4. NoneBefore(Tail(b), Releasing(o.id), Publishing(m))
  BY <1>1 DEF NoneBefore, Has
<1> QED BY <1>1, <1>2, <1>3, <1>4 DEF Once

(* The broker writes a packet that is not message m, and may note that it  *)
(* has been acknowledged; a PUBREL with its id is only written when m is   *)
(* not waiting for its PUBREC.                                             *)
LEMMA OnceAppend ==
  ASSUME NEW m, NEW o, NEW g, NEW b \in Seq(Incoming), NEW S, NEW w,
         Once(m, o, g, b, S, w), NEW p \in Incoming, p \notin Publishing(m),
         NEW q, q.id = o.id, q.qos = o.qos, q.st = o.st \/ o.st # "new",
         q.st \in {"new", "sent"} => q.st = o.st,
         p \in Releasing(o.id) => q.st # "sent",
         NEW v, v => w \/ q.st # "new"
  PROVE  Once(m, q, g, Append(b, p), S, v)
<1>1. /\ NoneBefore(Append(b, p), Publishing(m), Publishing(m))
      /\ NoneBefore(b, Releasing(o.id), Publishing(m)) =>
           NoneBefore(Append(b, p), Releasing(o.id), Publishing(m))
      /\ NoneBefore(b, Publishing(m), Releasing(o.id)) /\
         p \notin Releasing(o.id) =>
           NoneBefore(Append(b, p), Publishing(m), Releasing(o.id))
  BY NoneBeforeAppend DEF Once
<1>2. /\ Has(Append(b, p), Publishing(m)) => Has(b, Publishing(m))
      /\ Has(Append(b, p), Releasing(o.id)) =>
           Has(b, Releasing(o.id)) \/ p \in Releasing(o.id)
  BY HasAppend
<1> QED BY <1>1, <1>2 DEF Once

(* The broker writes message m, which is not yet on this connection.       *)
LEMMA OnceSent ==
  ASSUME NEW m, NEW o, NEW g, NEW b \in Seq(Incoming), NEW S,
         Once(m, o, g, b, S, FALSE), NEW p \in Publishing(m),
         ~Has(b, Publishing(m)), NEW q, q.st = "sent",
         q = o \/ o.st = "new"
  PROVE  Once(m, q, g, Append(b, p), S, TRUE)
<1>0. p \in Incoming /\ p \notin Releasing(q.id)
  BY DEF Publishing, Releasing
<1>1. NoneBefore(Append(b, p), Publishing(m), Publishing(m))
  BY <1>0, NoneBeforeAppend DEF Once
<1>2. NoneBefore(b, Publishing(m), Releasing(q.id))
  BY DEF NoneBefore, Has
<1>3. NoneBefore(Append(b, p), Publishing(m), Releasing(q.id))
  BY <1>0, <1>2, NoneBeforeAppend
<1>4. ~Has(b, Releasing(q.id)) =>
        /\ NoneBefore(b, Releasing(q.id), Publishing(m))
        /\ NoneBefore(Append(b, p), Releasing(q.id), Publishing(m))
        /\ ~Has(Append(b, p), Releasing(q.id))
  <2>1. ~Has(b, Releasing(q.id)) =>
          NoneBefore(b, Releasing(q.id), Publishing(m))
    BY DEF NoneBefore, Has
  <2> QED BY <1>0, <2>1, NoneBeforeAppend, HasAppend
<1>5. CASE o.st = "new"
  <2>1. g = 0
    BY <1>5 DEF Once
  <2> QED BY <1>1, <1>3, <2>1 DEF Once
<1>6. CASE q = o
  BY <1>1, <1>3, <1>4, <1>6 DEF Once
<1> QED BY <1>5, <1>6

LEMMA InOnceKept ==
  ASSUME SessionInv, Consistent, SessionStep, NEW m \in Inbound, InOnce(m)
  PROVE  InOnce(m)'
<1>0. /\ b2c \in Seq(Incoming) /\ got[m] \in Nat
      /\ Once(m, out[m], got[m], b2c, id_set, m \in on_wire)
  BY QueuesNow DEF SessionInv, BrokerTypes, InOnce
<1>q. \A p \in Incoming :
        /\ p \in Publishing(m) <=> p.type = "publish" /\ p.msg = m
        /\ \A id : p \in Releasing(id) <=> p.type = "pubrel" /\ p.id = id
  BY DEF Publishing, Releasing
<1>i. UNCHANGED <<b2c, out, got, id_set, on_wire>> => InOnce(m)'
  BY <1>0 DEF InOnce
<1>c. b2c' = <<>> /\ UNCHANGED <<out, got, id_set>>
      /\ on_wire' \in {on_wire, {}} => InOnce(m)'
  BY <1>0, OnceCleared DEF InOnce
<1>r. ASSUME b2c # <<>>, b2c' = Tail(b2c), Head(b2c) \in Responses,
             UNCHANGED <<out, got, id_set, on_wire>>
      PROVE  InOnce(m)'
  BY <1>0, <1>r, OnceTail DEF InOnce
<1>h. ASSUME b2c # <<>>
      PROVE  Head(b2c) \in Incoming /\ Fits(Head(b2c))
  <2>1. Has(b2c, {Head(b2c)}) /\ Head(b2c) \in Incoming
    BY <1>0, <1>h, HasTail, TailFacts
  <2> QED BY <2>1 DEF Consistent
<1>1. CASE Opens \/ Breaks
  BY <1>c, <1>1 DEF Opens, Breaks, Ours, broker
<1>2. CASE \/ Stops \/ EncodesConnect \/ Sends
           \/ \E e \in CarriedEntries : Accepts(e) \/ Encodes(e)
  BY <1>i, <1>2 DEF Stops, EncodesConnect, Sends, Accepts, Encodes, Ours,
                    Wires, broker
<1>3. CASE TakesConnack \/ BeginsConnack
  BY <1>r, <1>3, ConnectFacts DEF TakesConnack, BeginsConnack, Takes, broker
<1>3a. CASE EndsConnack
  BY <1>i, <1>3a DEF EndsConnack, Wires, broker
<1>4. ASSUME NEW p \in Incoming, NEW k \in Nat, GetsResponse(p, k)
      PROVE  InOnce(m)'
  BY <1>r, <1>4, IncomingFacts DEF GetsResponse, Takes, broker
<1>5. ASSUME NEW p \in Incoming, GetsPublish(p)
      PROVE  InOnce(m)'
  <2>1. /\ b2c # <<>> /\ p = Head(b2c) /\ b2c' = Tail(b2c)
        /\ p.type = "publish" /\ UNCHANGED <<out, on_wire>>
        /\ id_set \subseteq id_set'
    BY <1>5 DEF GetsPublish, Takes, broker
  <2>2. CASE p.msg # m
    <3>1. got'[m] = got[m]
      BY <1>5, <2>2 DEF GetsPublish, SessionInv, BrokerTypes
    <3> QED BY <1>0, <2>1, <3>1, OnceTail DEF InOnce
  <2>3. CASE p.msg = m
    <3>1. p \in Publishing(m) /\ out[m].st # "new" /\ p.id = out[m].id
          /\ p.kind = out[m].qos
      BY <1>h, <1>q, <2>1, <2>3 DEF Fits
    <3>2. \/ got'[m] = got[m]
          \/ /\ got'[m] = got[m] + 1
             /\ out[m].qos = 2 => out[m].id \notin id_set
                                    /\ out[m].id \in id_set'
      <4>1. CASE Delivers(p.kind, p.id)
        <5>1. got'[m] = got[m] + 1
          BY <1>5, <2>3, <4>1 DEF GetsPublish, SessionInv, BrokerTypes
        <5>2. p.kind = 2 => p.id \notin id_set /\ p.id \in id_set'
          BY <1>5, <4>1 DEF GetsPublish, Delivers, Duplicate
        <5> QED BY <3>1, <5>1, <5>2
      <4>2. CASE ~Delivers(p.kind, p.id)
        BY <1>5, <4>2 DEF GetsPublish
      <4> QED BY <4>1, <4>2
    <3>3. Once(m, out[m], got'[m], Tail(b2c), id_set', m \in on_wire)
      BY <1>0, <2>1, <3>1, <3>2, OnceGot
    <3> QED BY <2>1, <3>3 DEF InOnce
  <2> QED BY <2>2, <2>3
<1>6. ASSUME NEW p \in Incoming, GetsPubrel(p)
      PROVE  InOnce(m)'
  <2>1. /\ b2c # <<>> /\ p = Head(b2c) /\ b2c' = Tail(b2c)
        /\ p.type = "pubrel" /\ UNCHANGED <<out, on_wire, got>>
        /\ id_set' = id_set \ {p.id}
    BY <1>6 DEF GetsPubrel, Takes, broker
  <2>2. CASE p.id = out[m].id
    <3>1. Head(b2c) \in Releasing(out[m].id)
      BY <1>q, <2>1, <2>2
    <3>2. Once(m, out[m], got[m], Tail(b2c), id_set', m \in on_wire)
      BY <1>0, <2>1, <2>2, <3>1, OnceTail
    <3> QED BY <2>1, <3>2 DEF InOnce
  <2>3. CASE p.id # out[m].id
    <3>1. Once(m, out[m], got[m], Tail(b2c), id_set', m \in on_wire)
      BY <1>0, <2>1, <2>3, OnceTail
    <3> QED BY <2>1, <3>1 DEF InOnce
  <2> QED BY <2>2, <2>3
<1>a. ASSUME NEW p \in Incoming, p \notin Publishing(m), Writes(p),
             UNCHANGED <<got, id_set>>,
             out'[m].id = out[m].id, out'[m].qos = out[m].qos,
             out'[m].st = out[m].st \/ out[m].st # "new",
             out'[m].st \in {"new", "sent"} => out'[m].st = out[m].st,
             p \in Releasing(out[m].id) => out'[m].st # "sent",
             m \in on_wire' => m \in on_wire \/ out'[m].st # "new"
      PROVE  InOnce(m)'
  <2>1. Once(m, out'[m], got[m], Append(b2c, p), id_set, m \in on_wire')
    BY <1>0, <1>a, OnceAppend
  <2> QED BY <1>a, <2>1 DEF InOnce, Writes
<1>7. CASE Forgets
  <2>1. /\ b2c = <<>> /\ UNCHANGED <<b2c, got, id_set, on_wire>>
    BY <1>7, QueuesNow DEF Forgets, Ours, Wires
  <2>2. /\ out'[m].id = out[m].id /\ out'[m].qos = out[m].qos
        /\ out'[m].st = IF OnItsWay(m) THEN "lost" ELSE out[m].st
    BY <1>7, LostTypes
  <2>3. out'[m].st \in {"new", "sent"} => out'[m].st = out[m].st
    BY <2>2
  <2>4. Once(m, out'[m], got[m], <<>>, id_set, m \in on_wire)
    BY <1>0, <2>1, <2>2, <2>3, HasEmpty DEF Once, OnItsWay
  <2> QED BY <2>1, <2>4 DEF InOnce
<1>8. ASSUME NEW p \in Outgoing, BrokerAnswers(p)
      PROVE  InOnce(m)'
  <2>1. PICK r \in Incoming : r = Response(p) /\ r.type = "response"
    BY <1>8, ResponseType DEF BrokerAnswers
  <2>2. Writes(r) /\ UNCHANGED <<got, id_set, out, on_wire>>
    BY <1>8, <2>1 DEF BrokerAnswers, BrokerTakes, Writes, Ours
  <2> QED BY <1>a, <1>q, <2>1, <2>2
<1>9. ASSUME NEW p, BrokerIgnores(p)
      PROVE  InOnce(m)'
  BY <1>i, <1>9 DEF BrokerIgnores, BrokerTakes, Ours
<1>10. ASSUME NEW p, NEW n \in Inbound, BrokerReleases(p, n)
       PROVE  InOnce(m)'
  <2>1. /\ out[n].st = "sent" /\ out[n].qos = 2
        /\ out'[n].st = "released" /\ out'[n].qos = 2
        /\ out'[n].id = out[n].id
        /\ \A o \in Inbound : o # n => out'[o] = out[o]
    BY <1>10, ReleasesTypes
  <2>2. PICK r \in Incoming : r = PubrelTo(n, out[n])
    BY <2>1, SentAgainType
  <2>3. r.type = "pubrel" /\ r.msg = n /\ r.id = out[n].id
    BY <2>2 DEF PubrelTo, Packet
  <2>4. Writes(r) /\ UNCHANGED <<got, id_set, on_wire>>
    BY <1>10, <2>2 DEF BrokerReleases, BrokerTakes, Writes, Ours
  <2>5. r.id = out[m].id => out'[m].st # "sent"
    <3>1. out[m].st = "sent" /\ m # n => out[m].id # out[n].id
      BY <2>1, OutNow DEF OnItsWay
    <3> QED BY <2>1, <2>3, <3>1
  <2> QED BY <1>a, <1>q, <2>1, <2>3, <2>4, <2>5
<1>11. ASSUME NEW p, NEW n \in Inbound, BrokerCompletes(p, n)
       PROVE  InOnce(m)'
  <2>1. UNCHANGED <<b2c, got, id_set, on_wire>>
    BY <1>11 DEF BrokerCompletes, BrokerTakes, Ours
  <2>2. /\ out'[m].id = out[m].id /\ out'[m].qos = out[m].qos
        /\ out'[m] = out[m] \/ (out[m].st # "new" /\ out'[m].st = "done")
    BY <1>11, CompletesTypes DEF OnItsWay
  <2>3. Once(m, out'[m], got[m], b2c, id_set, m \in on_wire)
    BY <1>0, <2>2 DEF Once
  <2> QED BY <2>1, <2>3 DEF InOnce
<1>12. ASSUME NEW n \in Inbound, NEW p \in Incoming, BrokerWrites(n, p),
              p.type = "publish" \/ (p.type = "pubrel" /\ UNCHANGED out
                                       /\ p.id = out[n].id
                                       /\ out[n].st = "released"),
              p.msg = n, n # m, out'[m] = out[m]
       PROVE  InOnce(m)'
  <2>1. Writes(p) /\ UNCHANGED <<got, id_set>>
        /\ (m \in on_wire' => m \in on_wire)
    BY <1>12 DEF BrokerWrites, Writes, Ours
  <2>2. p.type = "pubrel" /\ p.id = out[m].id => out[m].st # "sent"
    BY <1>12, OutNow DEF OnItsWay
  <2> QED BY <1>a, <1>q, <1>12, <2>1, <2>2
<1>13. ASSUME NEW p \in Publishing(m), BrokerWrites(m, p),
              out'[m].st = "sent",
              out'[m] = out[m] \/ out[m].st = "new"
       PROVE  InOnce(m)'
  <2>1. /\ m \notin on_wire /\ m \in on_wire' /\ UNCHANGED <<got, id_set>>
        /\ b2c' = Append(b2c, p)
    BY <1>13 DEF BrokerWrites, Ours
  <2>2. ~Has(b2c, Publishing(m))
    <3> SUFFICES ASSUME Has(b2c, Publishing(m)) PROVE FALSE
      OBVIOUS
    <3>1. PICK q \in Publishing(m) : q \in Incoming /\ Has(b2c, {q})
      BY <1>0, HasSome
    <3> QED BY <1>q, <2>1, <3>1 DEF Consistent, Fits
  <2>3. (m \in on_wire) = FALSE
    BY <2>1
  <2>4. Once(m, out[m], got[m], b2c, id_set, FALSE)
    BY <1>0, <2>1 DEF Once
  <2>5. Once(m, out'[m], got[m], Append(b2c, p), id_set, TRUE)
    BY <1>0, <1>13, <2>2, <2>4, OnceSent
  <2>6. Once(m, out'[m], got'[m], b2c', id_set', m \in on_wire')
    BY <2>1, <2>5 DEF Once
  <2> QED BY <2>6 DEF InOnce
<1>14. ASSUME NEW n \in Inbound, NEW qos \in {1, 2}, NEW id \in InboundIds,
              SendsFirst(n, qos, id)
       PROVE  InOnce(m)'
  <2>1. PICK p \in Incoming : p = Packet("publish", qos, id, n)
    BY SentType
  <2>2. p.type = "publish" /\ p.msg = n /\ p \in Publishing(n)
    BY <2>1 DEF Packet, Publishing
  <2>3. BrokerWrites(n, p) /\ out[n].st = "new"
    BY <1>14, <2>1 DEF SendsFirst
  <2>4. out'[n].st = "sent" /\ \A o \in Inbound : o # n => out'[o] = out[o]
    <3>1. out'[n] = [st |-> "sent", qos |-> qos, id |-> id]
      BY <1>14, FirstTypes
    <3>2. \A o \in Inbound : o # n => out'[o] = out[o]
      BY <1>14, FirstTypes
    <3> QED BY <3>1, <3>2
  <2>5. CASE n = m
    BY <1>13, <2>2, <2>3, <2>4, <2>5
  <2>6. CASE n # m
    BY <1>12, <2>2, <2>3, <2>4, <2>6
  <2> QED BY <2>5, <2>6
<1>15. ASSUME NEW n \in Inbound, SendsAgain(n)
       PROVE  InOnce(m)'
  <2>1. PICK p \in Incoming : p = PublishTo(n, out[n])
    BY <1>15, SentAgainType DEF SendsAgain
  <2>2. p.type = "publish" /\ p.msg = n /\ p \in Publishing(n)
    BY <2>1 DEF PublishTo, Packet, Publishing
  <2>3. BrokerWrites(n, p) /\ out[n].st = "sent" /\ out' = out
    BY <1>15, <2>1 DEF SendsAgain
  <2>4. CASE n = m
    BY <1>13, <2>2, <2>3, <2>4
  <2>5. CASE n # m
    BY <1>12, <2>2, <2>3, <2>5
  <2> QED BY <2>4, <2>5
<1>16. ASSUME NEW n \in Inbound, SendsPubrel(n)
       PROVE  InOnce(m)'
  <2>1. PICK p \in Incoming : p = PubrelTo(n, out[n])
    BY <1>16, SentAgainType DEF SendsPubrel
  <2>2. p.type = "pubrel" /\ p.msg = n /\ p.id = out[n].id
    BY <2>1 DEF PubrelTo, Packet
  <2>3. BrokerWrites(n, p) /\ out[n].st = "released" /\ out' = out
    BY <1>16, <2>1 DEF SendsPubrel
  <2>4. CASE n = m
    <3>1. Writes(p) /\ UNCHANGED <<got, id_set>>
      BY <2>3 DEF BrokerWrites, Writes, Ours
    <3> QED BY <1>a, <1>q, <2>2, <2>3, <2>4, <3>1
  <2>5. CASE n # m
    BY <1>12, <2>2, <2>3, <2>5
  <2> QED BY <2>4, <2>5
<1> QED
  BY <1>1, <1>2, <1>3, <1>3a, <1>4, <1>5, <1>6, <1>7, <1>8, <1>9, <1>10, <1>11,
     <1>14, <1>15, <1>16, Zenon DEF SessionStep, ClientStep, BrokerStep

InInv == Consistent /\ \A m \in Inbound : InOnce(m)

LEMMA InitOnce == SInit => InInv
<1> SUFFICES ASSUME SInit PROVE InInv
  OBVIOUS
<1>1. /\ b2c = <<>> /\ on_wire = {}
      /\ out = [m \in Inbound |-> [st |-> "new", qos |-> 0, id |-> 0]]
      /\ got = [m \in Inbound |-> 0]
  BY DEF SInit
<1>2. Consistent
  BY <1>1, HasEmpty DEF Consistent
<1>3. ASSUME NEW m \in Inbound
      PROVE  InOnce(m)
  <2>1. out[m] = [st |-> "new", qos |-> 0, id |-> 0] /\ got[m] = 0
        /\ m \notin on_wire
    BY <1>1
  <2>2. out[m].st = "new" /\ out[m].qos = 0
    BY <2>1
  <2> QED BY <1>1, <2>1, <2>2, HasEmpty DEF InOnce, Once
<1> QED BY <1>2, <1>3 DEF InInv

LEMMA NextOnce ==
  ASSUME SessionInv, InInv, [SNext]_svars
  PROVE  InInv'
<1>1. CASE SNext
  BY <1>1, NextIsStep, ConsistentKept, InOnceKept DEF InInv
<1>2. CASE UNCHANGED svars
  <2>1. UNCHANGED <<b2c, out, got, id_set, on_wire>>
    BY <1>2 DEF svars, net, broker, vars, session
  <2> QED BY <2>1 DEF InInv, Consistent, Fits, InOnce
<1> QED BY <1>1, <1>2

(* The application gets a QoS 2 message no more than once, over whatever   *)
(* connections its PUBLISH is repeated: its id stays in id_set from its    *)
(* delivery to its PUBREL (rx_buffer_decode_publish, lmqtt_id_set_put).    *)
THEOREM DeliveredOnce == SSpec => []InAtMostOnce
<1>1. SInit => SessionInv /\ InInv
  BY InitSession, InitOnce
<1>2. SessionInv /\ InInv /\ [SNext]_svars => (SessionInv /\ InInv)'
  BY NextSession, NextOnce
<1>3. SessionInv /\ InInv => InAtMostOnce
  BY DEF InInv, InOnce, Once, InAtMostOnce
<1> QED BY <1>1, <1>2, <1>3, PTL DEF SSpec

-----------------------------------------------------------------------------
(* The way of an acknowledgement: queued in main_store, encoded, sent.     *)
(* Whatever is taken out of the store on the way, it never overtakes       *)
(* another.  c, w and s are the packets under way, those written to the    *)
(* buffer, and the entries of the store.                                   *)
Acks == {e \in CarriedEntries : e.kind \in AckKinds}

On(c, w, s, S) == Has(c, S) \/ Has(w, S) \/ Has(s, S)
InLine(c, w, s, S, T) ==
  /\ NoneBefore(c, S, T) /\ NoneBefore(w, S, T) /\ NoneBefore(s, S, T)
  /\ Has(c, S) => ~Has(w, T) /\ ~Has(s, T)
  /\ Has(w, S) => ~Has(s, T)

LEMMA HasWithout ==
  ASSUME NEW E, NEW q \in Seq(E), NEW k \in 1 .. Len(q), NEW S
  PROVE  Has(q, S) <=> q[k] \in S \/ Has(RemoveAt(q, k), S)
<1> DEFINE t == RemoveAt(q, k)
<1>1. /\ Len(q) \in Nat /\ Len(t) = Len(q) - 1
      /\ \A j \in 1 .. Len(q) - 1 : t[j] = IF j < k THEN q[j] ELSE q[j + 1]
  BY LenProperties, RemoveAtLemma
<1> HIDE DEF t
<1>2. ASSUME NEW i \in 1 .. Len(q), q[i] \in S
      PROVE  q[k] \in S \/ Has(t, S)
  <2>1. CASE i < k
    BY <1>1, <1>2, <2>1 DEF Has
  <2>2. CASE i = k
    BY <1>2, <2>2
  <2>3. CASE i > k
    <3>1. i - 1 \in 1 .. Len(t) /\ t[i - 1] = q[i]
      BY <1>1, <2>3
    <3> QED BY <1>2, <3>1 DEF Has
  <2> QED BY <1>1, <2>1, <2>2, <2>3
<1>3. ASSUME NEW j \in 1 .. Len(t), t[j] \in S
      PROVE  Has(q, S)
  <2>1. /\ j \in 1 .. Len(q) /\ j + 1 \in 1 .. Len(q)
        /\ t[j] = q[j] \/ t[j] = q[j + 1]
    BY <1>1
  <2> QED BY <1>3, <2>1 DEF Has
<1>4. q[k] \in S => Has(q, S)
  BY DEF Has
<1> QED BY <1>2, <1>3, <1>4, Zenon DEF Has, t

LEMMA NoneBeforeWithout ==
  ASSUME NEW E, NEW q \in Seq(E), NEW k \in 1 .. Len(q), NEW S, NEW T,
         NoneBefore(q, S, T)
  PROVE  /\ NoneBefore(RemoveAt(q, k), S, T)
         /\ (\A j \in 1 .. k - 1 : q[j] \notin T) /\ q[k] \in S =>
              ~Has(RemoveAt(q, k), T)
<1> DEFINE t == RemoveAt(q, k)
           at(j) == IF j < k THEN j ELSE j + 1
<1>1. /\ Len(q) \in Nat /\ Len(t) = Len(q) - 1
      /\ \A j \in 1 .. Len(q) - 1 : t[j] = IF j < k THEN q[j] ELSE q[j + 1]
  BY LenProperties, RemoveAtLemma
<1> HIDE DEF t
<1>2. \A j \in 1 .. Len(t) : at(j) \in 1 .. Len(q) /\ t[j] = q[at(j)]
  BY <1>1
<1>3. \A i, j \in 1 .. Len(t) : i < j => at(i) < at(j)
  BY <1>1
<1>4. \A j \in 1 .. Len(t) : at(j) \in 1 .. k - 1 \/ k < at(j)
  BY <1>1
<1> HIDE DEF at
<1>5. NoneBefore(t, S, T)
  BY <1>2, <1>3, Zenon DEF NoneBefore
<1>6. ASSUME \A j \in 1 .. k - 1 : q[j] \notin T, q[k] \in S
      PROVE  ~Has(t, T)
  BY <1>2, <1>4, <1>6, Zenon DEF NoneBefore, Has
<1> QED BY <1>5, <1>6 DEF t

LEMMA OnSend ==
  ASSUME NEW c \in Seq(Outgoing), NEW w \in Seq(Outgoing), w # <<>>, NEW s,
         NEW S, NEW T
  PROVE  LET d == Append(c, Head(w)) IN
         /\ On(d, Tail(w), s, S) <=> On(c, w, s, S)
         /\ InLine(c, w, s, S, T) => InLine(d, Tail(w), s, S, T)
<1> DEFINE d == Append(c, Head(w))
<1>1. Head(w) \in Outgoing
  BY TailFacts
<1>2. \A U : /\ Has(d, U) <=> Has(c, U) \/ Head(w) \in U
             /\ Has(w, U) <=> Head(w) \in U \/ Has(Tail(w), U)
  BY <1>1, HasAppend, HasTail
<1>3. /\ NoneBefore(w, S, T) => NoneBefore(Tail(w), S, T)
      /\ NoneBefore(w, S, T) /\ Head(w) \in S => ~Has(Tail(w), T)
  BY NoneBeforeTail
<1>4. NoneBefore(c, S, T) /\ ~(Has(c, S) /\ Head(w) \in T) =>
        NoneBefore(d, S, T)
  BY <1>1, NoneBeforeAppend
<1> HIDE DEF d
<1>5. /\ On(d, Tail(w), s, S) <=> On(c, w, s, S)
      /\ InLine(c, w, s, S, T) => InLine(d, Tail(w), s, S, T)
  BY <1>2, <1>3, <1>4, Zenon DEF On, InLine
<1> QED BY <1>5 DEF d

(* The entry at k is written, and leaves the store when it is an           *)
(* acknowledgement: the entries before it are not.                         *)
LEMMA OnWrite ==
  ASSUME NEW c, NEW w \in Seq(Outgoing), NEW s \in Seq(CarriedEntries),
         NEW k \in 1 .. Len(s), \A j \in 1 .. k - 1 : s[j] \notin Acks,
         NEW t, t = RemoveAt(s, k) \/ (t = s /\ s[k] \notin Acks),
         NEW S, S \subseteq Acks, NEW T, T \subseteq Acks
  PROVE  LET v == Append(w, s[k]) IN
         /\ On(c, v, t, S) <=> On(c, w, s, S)
         /\ InLine(c, w, s, S, T) => InLine(c, v, t, S, T)
<1> DEFINE e == s[k]
           v == Append(w, e)
<1>1. e \in Outgoing
  BY ElementOfSeq DEF Outgoing
<1>2. \A U : Has(v, U) <=> Has(w, U) \/ e \in U
  BY <1>1, HasAppend
<1>3. \A U : U \subseteq Acks => (Has(s, U) <=> e \in U \/ Has(t, U))
  BY HasWithout
<1>4. NoneBefore(w, S, T) /\ ~(Has(w, S) /\ e \in T) => NoneBefore(v, S, T)
  BY <1>1, NoneBeforeAppend
<1>5. NoneBefore(s, S, T) =>
        NoneBefore(t, S, T) /\ (e \in S => ~Has(t, T))
  <2>1. \A j \in 1 .. k - 1 : s[j] \notin T
    OBVIOUS
  <2>2. e \notin Acks => e \notin S
    OBVIOUS
  <2> QED BY <2>1, <2>2, NoneBeforeWithout
<1> HIDE DEF v, e
<1>6. /\ On(c, v, t, S) <=> On(c, w, s, S)
      /\ InLine(c, w, s, S, T) => InLine(c, v, t, S, T)
  BY <1>2, <1>3, <1>4, <1>5 DEF On, InLine
<1> QED BY <1>6 DEF v, e

LEMMA OnQueue ==
  ASSUME NEW c, NEW w, NEW s \in Seq(CarriedEntries),
         NEW e \in CarriedEntries, NEW S, NEW T
  PROVE  /\ On(c, w, Append(s, e), S) <=> On(c, w, s, S) \/ e \in S
         /\ InLine(c, w, s, S, T) /\ ~(On(c, w, s, S) /\ e \in T) =>
              InLine(c, w, Append(s, e), S, T)
<1>1. \A U : Has(Append(s, e), U) <=> Has(s, U) \/ e \in U
  BY HasAppend
<1>2. NoneBefore(s, S, T) /\ ~(Has(s, S) /\ e \in T) =>
        NoneBefore(Append(s, e), S, T)
  BY NoneBeforeAppend
<1> QED BY <1>1, <1>2, Zenon DEF On, InLine

(* An entry leaves the store without being written.                        *)
LEMMA OnPop ==
  ASSUME NEW c, NEW w, NEW s \in Seq(CarriedEntries), NEW k \in 1 .. Len(s),
         NEW S, NEW T
  PROVE  /\ On(c, w, s, S) => On(c, w, RemoveAt(s, k), S) \/ s[k] \in S
         /\ On(c, w, RemoveAt(s, k), S) => On(c, w, s, S)
         /\ InLine(c, w, s, S, T) => InLine(c, w, RemoveAt(s, k), S, T)
<1>1. \A U : Has(s, U) <=> s[k] \in U \/ Has(RemoveAt(s, k), U)
  BY HasWithout
<1>2. NoneBefore(s, S, T) => NoneBefore(RemoveAt(s, k), S, T)
  BY NoneBeforeWithout
<1> QED BY <1>1, <1>2, Zenon DEF On, InLine

(* The broker takes a packet.                                              *)
LEMMA OnTake ==
  ASSUME NEW c \in Seq(Outgoing), c # <<>>, NEW w, NEW s, NEW S, NEW T
  PROVE  /\ On(c, w, s, S) <=> On(Tail(c), w, s, S) \/ Head(c) \in S
         /\ InLine(c, w, s, S, T) =>
              /\ InLine(Tail(c), w, s, S, T)
              /\ Head(c) \in S => ~On(Tail(c), w, s, T)
<1>1. \A U : Has(c, U) <=> Head(c) \in U \/ Has(Tail(c), U)
  BY HasTail
<1>2. /\ NoneBefore(c, S, T) => NoneBefore(Tail(c), S, T)
      /\ NoneBefore(c, S, T) /\ Head(c) \in S => ~Has(Tail(c), T)
  BY NoneBeforeTail
<1> QED BY <1>1, <1>2, Zenon DEF On, InLine

(* The connection is lost, and what was written with it.                   *)
LEMMA OnLost ==
  ASSUME NEW c, NEW w, NEW s, NEW S, NEW T
  PROVE  /\ On(<<>>, <<>>, s, S) => On(c, w, s, S)
         /\ InLine(c, w, s, S, T) => InLine(<<>>, <<>>, s, S, T)
BY HasEmpty DEF On, InLine

Written == IF up THEN write_buf ELSE <<>>
PathHas(S) == On(c2b, Written, main_store.entries, S)
PathOrder(S, T) == InLine(c2b, Written, main_store.entries, S, T)

PathSame ==
  \A S, T \in SUBSET Acks : /\ PathHas(S)' <=> PathHas(S)
                            /\ PathOrder(S, T) => PathOrder(S, T)'
PathLoses ==
  \A S, T \in SUBSET Acks : /\ PathHas(S)' => PathHas(S)
                            /\ PathOrder(S, T) => PathOrder(S, T)'
PathGains(e) ==
  \A S, T \in SUBSET Acks :
    /\ PathHas(S)' <=> PathHas(S) \/ e \in S
    /\ PathOrder(S, T) /\ ~(PathHas(S) /\ e \in T) => PathOrder(S, T)'
PathTakes(e) ==
  \A S, T \in SUBSET Acks :
    /\ PathHas(S) <=> PathHas(S)' \/ e \in S
    /\ PathOrder(S, T) => /\ PathOrder(S, T)'
                          /\ e \in S => ~PathHas(T)'

LEMMA PathNow ==
  ASSUME SessionInv
  PROVE  /\ main_store.entries \in Seq(CarriedEntries)
         /\ c2b \in Seq(Outgoing) /\ Written \in Seq(Outgoing)
         /\ ~up => c2b = <<>> /\ Written = <<>>
         /\ \A j \in 1 .. main_store.pos : main_store.entries[j] \notin Acks
         /\ main_store.pos \in Nat
         /\ Count(main_store) = Len(main_store.entries)
<1>1. /\ write_buf \in Seq(Outgoing) /\ c2b \in Seq(Outgoing)
      /\ ~up => c2b = <<>>
  BY QueuesNow
<1>2. Written \in Seq(Outgoing) /\ (~up => Written = <<>>)
  BY <1>1, EmptySeq DEF Written
<1>3. ASSUME NEW j \in 1 .. main_store.pos
      PROVE  main_store.entries[j] \notin Acks
  <2>1. ExpectsResponse(main_store.entries[j].kind)
    BY DEF SessionInv, RequestInv, SafeInv, MarkedExpectResponse, MarkedKinds
  <2> QED BY <2>1 DEF Acks, AckKinds, ExpectsResponse
<1> QED BY <1>1, <1>2, <1>3, MainKept

LEMMA SamePath ==
  ASSUME UNCHANGED <<c2b, Written>>, UNCHANGED main_store.entries
  PROVE  PathSame
BY DEF PathSame, PathHas, PathOrder

LEMMA SameLoses ==
  ASSUME PathSame
  PROVE  PathLoses
BY DEF PathSame, PathLoses

LEMMA QueuedPath ==
  ASSUME SessionInv, NEW e \in CarriedEntries,
         main_store' = Appended(main_store, e), UNCHANGED <<c2b, Written>>
  PROVE  PathGains(e) /\ (e \notin Acks => PathSame)
<1>1. main_store'.entries = Append(main_store.entries, e)
  BY MainKept DEF Appended, WellFormed
<1>2. PathGains(e)
  <2> SUFFICES ASSUME NEW S, NEW T
               PROVE  /\ PathHas(S)' <=> PathHas(S) \/ e \in S
                      /\ PathOrder(S, T) /\ ~(PathHas(S) /\ e \in T) =>
                           PathOrder(S, T)'
    BY Zenon DEF PathGains
  <2>1. main_store.entries \in Seq(CarriedEntries)
    BY PathNow
  <2>2. LET c == c2b  w == Written  s == main_store.entries IN
        /\ On(c, w, Append(s, e), S) <=> On(c, w, s, S) \/ e \in S
        /\ InLine(c, w, s, S, T) /\ ~(On(c, w, s, S) /\ e \in T) =>
             InLine(c, w, Append(s, e), S, T)
    BY <2>1, OnQueue
  <2> QED BY <1>1, <2>2 DEF PathHas, PathOrder
<1>3. e \notin Acks => \A S \in SUBSET Acks : e \notin S
  OBVIOUS
<1>4. e \notin Acks => PathSame
  BY <1>2, <1>3 DEF PathGains, PathSame
<1> QED BY <1>2, <1>4

LEMMA WrittenPath ==
  ASSUME SessionInv, NEW e \in CarriedEntries, Encodes(e)
  PROVE  PathLoses /\ (up => PathSame)
<1> DEFINE k == main_store.pos + 1
<1>1. /\ k \in 1 .. Len(main_store.entries) /\ e = main_store.entries[k]
      /\ up' = up /\ c2b' = c2b /\ write_buf' = Append(write_buf, e)
      /\ main_store.pos \in Nat
  BY EncodedStore, MainKept DEF Encodes, Wires, Current
<1>2. \/ main_store'.entries = RemoveAt(main_store.entries, k)
      \/ main_store'.entries = main_store.entries /\ e \notin Acks
  <2>1. CASE Awaited(e)
    <3>1. main_store'.entries = main_store.entries
      BY <2>1, MainKept, MarkCurrentLemma DEF Encodes
    <3>2. e \notin Acks
      BY <2>1 DEF Acks, AckKinds, Awaited, ResponseKinds
    <3> QED BY <3>1, <3>2
  <2>2. CASE ~Awaited(e)
    <3>1. main_store' = PopAt(main_store, k)
      BY <2>2 DEF Encodes, DropCurrent
    <3> QED BY <3>1 DEF PopAt
  <2> QED BY <2>1, <2>2
<1>3. \A j \in 1 .. k - 1 : main_store.entries[j] \notin Acks
  BY <1>1, PathNow
<1> HIDE DEF k
<1>4. CASE up
  <2>1. Written = write_buf /\ Written' = Append(write_buf, e)
    BY <1>1, <1>4 DEF Written
  <2>2. PathSame
    <3> SUFFICES ASSUME NEW S \in SUBSET Acks, NEW T \in SUBSET Acks
                 PROVE  /\ PathHas(S)' <=> PathHas(S)
                        /\ PathOrder(S, T) => PathOrder(S, T)'
      BY DEF PathSame
    <3>1. LET t == main_store'.entries  v == Append(write_buf, e) IN
          /\ On(c2b, v, t, S) <=> On(c2b, write_buf, main_store.entries, S)
          /\ InLine(c2b, write_buf, main_store.entries, S, T) =>
               InLine(c2b, v, t, S, T)
      BY <1>1, <1>2, <1>3, OnWrite, QueuesNow, PathNow
    <3> QED BY <1>1, <2>1, <3>1 DEF PathHas, PathOrder
  <2> QED BY <2>2, SameLoses
<1>5. CASE ~up
  <2>1. c2b' = c2b /\ Written' = Written
    BY <1>1, <1>5 DEF Written
  <2>2. PathLoses
    BY <1>1, <1>2, <2>1, OnPop, PathNow DEF PathLoses, PathHas, PathOrder
  <2> QED BY <1>5, <2>2
<1> QED BY <1>4, <1>5

LEMMA SettledPath ==
  ASSUME SessionInv, NEW p \in Incoming, NEW k \in Nat, GetsResponse(p, k)
  PROVE  PathSame
<1> DEFINE q == PopAt(main_store, k)
<1>1. k \in 1 .. main_store.pos /\ k \in 1 .. Count(main_store)
      /\ main_store.entries[k] \in CarriedEntries
      /\ main_store.entries[k] \notin Acks
  BY MainKept, PathNow DEF GetsResponse, IsAnswer
<1>2. WellFormed(q, CarriedEntries)
      /\ q.entries = RemoveAt(main_store.entries, k)
  BY <1>1, MainKept, PopAtLemma DEF PopAt
<1>3. \/ main_store'.entries = q.entries
      \/ \E f \in CarriedEntries :
           main_store'.entries = Append(q.entries, f) /\ f \notin Acks
  <2>1. CASE main_store.entries[k].kind = "PUBLISH_2"
    <3>1. PICK f \in CarriedEntries : /\ f = PubrelFor(main_store.entries[k])
                                      /\ f.kind = "PUBREL"
      BY <1>1, <2>1, PubrelType
    <3>2. main_store' = Appended(q, f)
      BY <2>1, <3>1 DEF GetsResponse, Settled
    <3>3. main_store'.entries = Append(q.entries, f)
      BY <1>2, <3>2 DEF Appended, WellFormed
    <3>4. f \notin Acks
      BY <3>1 DEF Acks, AckKinds
    <3> QED BY <3>3, <3>4
  <2>2. CASE main_store.entries[k].kind # "PUBLISH_2"
    BY <2>2 DEF GetsResponse, Settled
  <2> QED BY <2>1, <2>2
<1>4. c2b' = c2b /\ Written' = Written
  BY DEF GetsResponse, Takes, Written
<1> SUFFICES ASSUME NEW S \in SUBSET Acks, NEW T \in SUBSET Acks
             PROVE  /\ PathHas(S)' <=> PathHas(S)
                    /\ PathOrder(S, T) => PathOrder(S, T)'
  BY DEF PathSame
<1> DEFINE c == c2b  w == Written  s == main_store.entries  r == q.entries
<1>5. /\ On(c, w, r, S) <=> On(c, w, s, S)
      /\ InLine(c, w, s, S, T) => InLine(c, w, r, S, T)
  <2>1. s \in Seq(CarriedEntries) /\ k \in 1 .. Len(s) /\ s[k] \notin S
        /\ r = RemoveAt(s, k)
    BY <1>1, <1>2, MainKept
  <2> HIDE DEF c, w, s, r
  <2>2. /\ On(c, w, RemoveAt(s, k), S) <=> On(c, w, s, S)
        /\ InLine(c, w, s, S, T) => InLine(c, w, RemoveAt(s, k), S, T)
    BY <2>1, OnPop
  <2> QED BY <2>1, <2>2
<1>6. r \in Seq(CarriedEntries)
  BY <1>2 DEF WellFormed
<1>7. \A f \in CarriedEntries : f \notin Acks =>
        /\ On(c, w, Append(r, f), S) <=> On(c, w, r, S)
        /\ InLine(c, w, r, S, T) => InLine(c, w, Append(r, f), S, T)
  BY <1>6, OnQueue
<1> HIDE DEF q
<1>8. CASE main_store'.entries = q.entries
  BY <1>4, <1>5, <1>8 DEF PathHas, PathOrder
<1>9. ASSUME NEW f \in CarriedEntries, f \notin Acks,
             main_store'.entries = Append(q.entries, f)
      PROVE  /\ PathHas(S)' <=> PathHas(S)
             /\ PathOrder(S, T) => PathOrder(S, T)'
  BY <1>4, <1>5, <1>7, <1>9 DEF PathHas, PathOrder
<1> QED BY <1>3, <1>8, <1>9

LEMMA TakenPath ==
  ASSUME SessionInv, NEW p, BrokerTakes(p)
  PROVE  PathTakes(p) /\ (p \notin Acks => PathSame)
<1>1. /\ c2b # <<>> /\ p = Head(c2b) /\ c2b' = Tail(c2b)
      /\ Written' = Written /\ main_store' = main_store
  BY DEF BrokerTakes, Written, Ours
<1>2. PathTakes(p)
  BY <1>1, OnTake, PathNow DEF PathTakes, PathHas, PathOrder
<1>3. p \notin Acks => \A S \in SUBSET Acks : p \notin S
  OBVIOUS
<1> QED BY <1>2, <1>3 DEF PathTakes, PathSame

LEMMA LostPath ==
  ASSUME SessionInv, c2b' = <<>>, Written' = <<>>, main_store' = main_store
  PROVE  PathLoses
BY OnLost, PathNow DEF PathLoses, PathHas, PathOrder

(* The steps that neither queue an acknowledgement nor take one.           *)
Quiet ==
  \/ Stops \/ EncodesConnect \/ Sends \/ Forgets
  \/ TakesConnack \/ BeginsConnack \/ EndsConnack
  \/ \E e \in CarriedEntries : Accepts(e) \/ Encodes(e)
  \/ \E p \in Incoming, k \in Nat : GetsResponse(p, k)
  \/ \E m, p : BrokerWrites(m, p)

LEMMA QuietPath ==
  ASSUME SessionInv, Quiet
  PROVE  PathLoses /\ (up => PathSame)
<1>1. CASE Stops \/ Forgets \/ \E m, p : BrokerWrites(m, p)
  <2>1. UNCHANGED <<main_store, write_buf, c2b, up>>
    <3>1. CASE Stops
      BY <3>1 DEF Stops, Wires
    <3>2. CASE Forgets
      BY <3>2 DEF Forgets, Ours, Wires
    <3>3. CASE \E m, p : BrokerWrites(m, p)
      BY <3>3 DEF BrokerWrites, Ours
    <3> QED BY <1>1, <3>1, <3>2, <3>3
  <2>2. UNCHANGED <<c2b, Written>> /\ UNCHANGED main_store.entries
    BY <2>1 DEF Written
  <2> QED BY <2>2, SamePath, SameLoses
<1>2. CASE EncodesConnect
  <2>1. /\ UNCHANGED <<up, c2b>> /\ UNCHANGED main_store.entries
        /\ write_buf' = Append(write_buf, ConnectEntry)
    BY <1>2 DEF EncodesConnect, Wires
  <2>2. \A S \in SUBSET Acks : ConnectEntry \notin S
    BY ConnectFacts DEF Acks
  <2>3. \A S, T \in SUBSET Acks :
          /\ Has(Append(write_buf, ConnectEntry), S) <=> Has(write_buf, S)
          /\ NoneBefore(write_buf, S, T) =>
               NoneBefore(Append(write_buf, ConnectEntry), S, T)
    BY <2>2, QueuesNow, HasAppend, NoneBeforeAppend
  <2>4. CASE up
    <3>1. Written = write_buf /\ Written' = Append(write_buf, ConnectEntry)
      BY <2>1, <2>4 DEF Written
    <3>2. PathSame
      BY <2>1, <2>3, <3>1 DEF PathSame, PathHas, PathOrder, On, InLine
    <3> QED BY <3>2, SameLoses
  <2>5. CASE ~up
    BY <2>1, <2>5, SamePath, SameLoses DEF Written
  <2> QED BY <2>4, <2>5
<1>3. CASE Sends
  <2>1. /\ up /\ up' /\ write_buf # <<>> /\ write_buf' = Tail(write_buf)
        /\ c2b' = Append(c2b, Head(write_buf)) /\ main_store' = main_store
    BY <1>3 DEF Sends
  <2>2. Written = write_buf /\ Written' = Tail(write_buf)
    BY <2>1 DEF Written
  <2>3. PathSame
    BY <2>1, <2>2, OnSend, QueuesNow DEF PathSame, PathHas, PathOrder
  <2> QED BY <2>3, SameLoses
<1>4. CASE TakesConnack \/ BeginsConnack \/ EndsConnack
  <2>1. main_store'.entries = main_store.entries
    BY <1>4, UnmarkedStore, MainKept
       DEF TakesConnack, BeginsConnack, EndsConnack
  <2>2. UNCHANGED <<c2b, Written>>
    BY <1>4
       DEF TakesConnack, BeginsConnack, EndsConnack, Takes, Wires, Written
  <2> QED BY <2>1, <2>2, SamePath, SameLoses
<1>5. ASSUME NEW e \in CarriedEntries, Accepts(e)
      PROVE  PathSame
  <2>1. e \notin Acks
    BY <1>5, SessionFacts
       DEF Accepts, Acks, AckKinds, RequestKinds
  <2>2. main_store' = Appended(main_store, e) /\ UNCHANGED <<c2b, Written>>
    BY <1>5 DEF Accepts, Wires, Written
  <2> QED BY <2>1, <2>2, QueuedPath
<1> QED BY <1>1, <1>2, <1>3, <1>4, <1>5, WrittenPath, SettledPath, SameLoses
        DEF Quiet

LEMMA AcknowledgedPath ==
  ASSUME SessionInv, NEW kind \in AckKinds, NEW id \in InboundIds,
         main_store' = Acknowledging(kind, id), UNCHANGED <<c2b, Written>>
  PROVE  /\ Entry(kind, id, None) \in Acks
         /\ IF IsQueueable(main_store, Capacity)
              THEN PathGains(Entry(kind, id, None)) ELSE PathSame
<1>1. /\ Entry(kind, id, None) \in CarriedEntries
      /\ Entry(kind, id, None) \in Acks
  BY AckEntryType DEF Acks
<1>2. CASE IsQueueable(main_store, Capacity)
  BY <1>1, <1>2, QueuedPath DEF Acknowledging
<1>3. CASE ~IsQueueable(main_store, Capacity)
  <2>1. main_store' = main_store
    BY <1>3 DEF Acknowledging
  <2> QED BY <1>1, <1>3, <2>1, SamePath
<1> QED BY <1>1, <1>2, <1>3

-----------------------------------------------------------------------------
(* Every message that the broker sends over a connection is answered on    *)
(* it, as long as the client has room to queue its answers.                *)
HasRoom == IsQueueable(main_store, Capacity)

Ack(kind, id) == {e \in Acks : e.kind = kind /\ e.id = id}
AckKind(o) == IF o.st = "released" THEN "PUBCOMP"
              ELSE IF o.qos = 1 THEN "PUBACK" ELSE "PUBREC"
Due(m, o) ==
  {p \in Incoming : /\ p.msg = m
                    /\ p.type = IF o.st = "released" THEN "pubrel"
                                                     ELSE "publish"}
AnswerDue(m, o) == Has(b2c, Due(m, o)) \/ PathHas(Ack(AckKind(o), o.id))
Answering ==
  up /\ ~closed => \A m \in on_wire : OnItsWay(m) => AnswerDue(m, out[m])

LEMMA AckSet ==
  ASSUME NEW kind, NEW id
  PROVE  /\ Ack(kind, id) \in SUBSET Acks
         /\ \A e \in Acks : e \in Ack(kind, id) <=> e.kind = kind /\ e.id = id
         /\ kind \in AckKinds /\ id \in InboundIds =>
              Entry(kind, id, None) \in Ack(kind, id)
BY AckEntryType DEF Ack, Acks

LEMMA AnswerDueKept ==
  ASSUME SessionInv, NEW m, NEW o, AnswerDue(m, o),
         \/ UNCHANGED b2c \/ \E p \in Incoming : b2c' = Append(b2c, p)
         \/ b2c # <<>> /\ b2c' = Tail(b2c) /\ Head(b2c) \notin Due(m, o),
         \/ PathSame \/ \E e : PathGains(e)
         \/ \E e \in Outgoing : /\ PathTakes(e)
                                /\ e \notin Ack(AckKind(o), o.id)
  PROVE  AnswerDue(m, o)'
<1> DEFINE D == Due(m, o)
           A == Ack(AckKind(o), o.id)
<1>0. A \in SUBSET Acks
  BY AckSet
<1>1. Has(b2c, D) => Has(b2c', D)
  <2> HIDE DEF D
  <2>1. CASE UNCHANGED b2c
    BY <2>1
  <2>2. CASE \E p \in Incoming : b2c' = Append(b2c, p)
    BY <2>2, HasAppend, QueuesNow
  <2>3. CASE b2c # <<>> /\ b2c' = Tail(b2c) /\ Head(b2c) \notin D
    BY <2>3, HasTail, QueuesNow
  <2> QED BY <2>1, <2>2, <2>3 DEF D
<1> HIDE DEF A
<1>2. PathHas(A) => PathHas(A)'
  BY <1>0, Zenon DEF PathSame, PathGains, PathTakes, A
<1> QED BY <1>1, <1>2 DEF AnswerDue, A

LEMMA AnsweringKept ==
  ASSUME SessionInv, Consistent, HasRoom, SessionStep, Answering
  PROVE  Answering'
<1> SUFFICES ASSUME up', ~closed', NEW m \in on_wire', OnItsWay(m)'
             PROVE  AnswerDue(m, out[m])'
  BY DEF Answering
<1>0. /\ b2c \in Seq(Incoming) /\ on_wire \subseteq Inbound
      /\ up \in BOOLEAN
  BY QueuesNow DEF SessionInv, BrokerTypes
<1>k. ASSUME up, ~closed, m \in on_wire, out'[m] = out[m],
             NEW o, o = out[m], AnswerDue(m, o) => AnswerDue(m, o)'
      PROVE  AnswerDue(m, out[m])'
  <2>1. OnItsWay(m)
    BY <1>k DEF OnItsWay
  <2>2. AnswerDue(m, o)
    BY <1>k, <2>1 DEF Answering
  <2> QED BY <1>k, <2>2 DEF AnswerDue
<1>h. ASSUME b2c # <<>>
      PROVE  Head(b2c) \in Incoming /\ Fits(Head(b2c))
  <2>1. Has(b2c, {Head(b2c)}) /\ Head(b2c) \in Incoming
    BY <1>0, <1>h, HasTail, TailFacts
  <2> QED BY <2>1 DEF Consistent
<1>p. PICK o : o = out[m]
  OBVIOUS
<1>q. ASSUME NEW kind \in AckKinds, NEW p \in Incoming, Takes(p),
             p.type \in {"publish", "pubrel"}, p.id \in InboundIds,
             main_store' = Acknowledging(kind, p.id),
             p \in Due(m, o) => kind = AckKind(o) /\ p.id = o.id
      PROVE  AnswerDue(m, out[m])'
  <2>1. /\ up /\ ~closed /\ b2c # <<>> /\ p = Head(b2c) /\ b2c' = Tail(b2c)
        /\ out' = out /\ on_wire' = on_wire
        /\ UNCHANGED <<c2b, Written>>
    BY <1>q DEF Takes, broker, Written
  <2>2. PathGains(Entry(kind, p.id, None))
    BY <1>q, <2>1, AcknowledgedPath DEF HasRoom
  <2>3. CASE p \notin Due(m, o)
    <3>1. AnswerDue(m, o) => AnswerDue(m, o)'
      BY <2>1, <2>2, <2>3, AnswerDueKept
    <3> QED BY <1>k, <1>p, <2>1, <3>1
  <2>4. CASE p \in Due(m, o)
    <3> DEFINE A == Ack(kind, p.id)
    <3>1. Entry(kind, p.id, None) \in A /\ A \in SUBSET Acks
      BY <1>q, AckSet
    <3> HIDE DEF A
    <3>2. PathHas(A)'
      BY <2>2, <3>1 DEF PathGains
    <3>3. AnswerDue(m, o)'
      BY <1>q, <2>4, <3>2 DEF AnswerDue, A
    <3> QED BY <1>p, <2>1, <3>3 DEF AnswerDue
  <2> QED BY <2>3, <2>4
<1>1. CASE Opens
  BY <1>1 DEF Opens
<1>2. ASSUME Quiet, up, ~closed, m \in on_wire, out'[m] = out[m],
             \/ UNCHANGED b2c \/ \E p \in Incoming : b2c' = Append(b2c, p)
             \/ /\ b2c # <<>> /\ b2c' = Tail(b2c)
                /\ Head(b2c).type = "response"
      PROVE  AnswerDue(m, out[m])'
  <2>1. PathSame
    BY <1>2, QuietPath
  <2>2. Head(b2c).type = "response" => Head(b2c) \notin Due(m, o)
    BY DEF Due
  <2>3. AnswerDue(m, o) => AnswerDue(m, o)'
    BY <1>2, <2>1, <2>2, AnswerDueKept
  <2> QED BY <1>k, <1>2, <1>p, <2>3
<1>3. CASE \/ Stops \/ EncodesConnect \/ Sends \/ EndsConnack
           \/ \E e \in CarriedEntries : Accepts(e) \/ Encodes(e)
  <2>1. Quiet
    BY <1>3, Zenon DEF Quiet
  <2>2. up /\ ~closed /\ m \in on_wire /\ out' = out /\ b2c' = b2c
    <3>1. CASE Stops
      BY <3>1 DEF Stops, Wires, Where, broker
    <3>2. CASE EncodesConnect \/ Sends \/ EndsConnack
      BY <3>2 DEF EncodesConnect, Sends, EndsConnack, Wires, broker
    <3>3. ASSUME NEW e \in CarriedEntries, Accepts(e) \/ Encodes(e)
          PROVE  up /\ ~closed /\ m \in on_wire /\ out' = out /\ b2c' = b2c
      BY <3>3 DEF Accepts, Encodes, Wires, broker
    <3> QED BY <1>3, <3>1, <3>2, <3>3
  <2> QED BY <1>2, <2>1, <2>2
<1>4. CASE \/ TakesConnack \/ BeginsConnack
           \/ \E p \in Incoming, k \in Nat : GetsResponse(p, k)
  <2>1. Quiet
    BY <1>4, Zenon DEF Quiet
  <2>2. /\ up /\ ~closed /\ m \in on_wire /\ out' = out
        /\ b2c # <<>> /\ b2c' = Tail(b2c) /\ Head(b2c).type = "response"
    BY <1>4, ConnectFacts, IncomingFacts
       DEF TakesConnack, BeginsConnack, GetsResponse, Takes, broker
  <2> QED BY <1>2, <2>1, <2>2
<1>5. ASSUME NEW p \in Incoming, GetsPublish(p)
      PROVE  AnswerDue(m, out[m])'
  <2>1. /\ p.type = "publish" /\ p.kind \in {1, 2} /\ p.id \in InboundIds
        /\ Takes(p) /\ p = Head(b2c) /\ b2c # <<>>
    BY <1>5, IncomingFacts DEF GetsPublish, Takes
  <2>2. PICK kind \in AckKinds :
          kind = IF p.kind = 1 THEN "PUBACK" ELSE "PUBREC"
    BY DEF AckKinds
  <2>3. main_store' = Acknowledging(kind, p.id)
    BY <1>5, <2>2 DEF GetsPublish
  <2>4. p \in Due(m, o) => kind = AckKind(o) /\ p.id = o.id
    BY <1>h, <1>p, <2>1, <2>2 DEF Due, AckKind, Fits
  <2> QED BY <1>q, <2>1, <2>3, <2>4
<1>6. ASSUME NEW p \in Incoming, GetsPubrel(p)
      PROVE  AnswerDue(m, out[m])'
  <2>1. /\ p.type = "pubrel" /\ p.id \in InboundIds
        /\ Takes(p) /\ p = Head(b2c) /\ b2c # <<>>
        /\ "PUBCOMP" \in AckKinds
    BY <1>6, IncomingFacts DEF GetsPubrel, Takes, AckKinds
  <2>3. main_store' = Acknowledging("PUBCOMP", p.id)
    BY <1>6 DEF GetsPubrel
  <2>4. p \in Due(m, o) => "PUBCOMP" = AckKind(o) /\ p.id = o.id
    BY <1>h, <1>p, <2>1 DEF Due, AckKind, Fits
  <2> QED BY <1>q, <2>1, <2>3, <2>4
<1>7. CASE Breaks \/ Forgets
  BY <1>7 DEF Breaks, Forgets, Wires
<1>8. ASSUME NEW p \in Outgoing, BrokerTakes(p), out'[m] = out[m],
             \A k : Concerns(p, m) => p \notin Ack(k, o.id),
             \/ UNCHANGED b2c \/ \E q \in Incoming : b2c' = Append(b2c, q)
      PROVE  AnswerDue(m, out[m])'
  <2>1. up /\ ~closed /\ m \in on_wire
    BY <1>8 DEF BrokerTakes, Where
  <2>2. PathTakes(p)
    BY <1>8, TakenPath
  <2>3. p \notin Ack(AckKind(o), o.id)
    <3> SUFFICES ASSUME p \in Ack(AckKind(o), o.id) PROVE FALSE
      OBVIOUS
    <3>1. p.kind = AckKind(o) /\ p.id = o.id
      BY DEF Ack
    <3>2. /\ out[m].st \in {"sent", "released"}
          /\ out[m].qos \in {1, 2}
          /\ out[m].st = "released" => out[m].qos = 2
      <4>1. OnItsWay(m) /\ m \in Inbound
        BY <1>0, <1>8, <2>1 DEF OnItsWay
      <4> QED BY <4>1, OutNow DEF OnItsWay
    <3>3. Concerns(p, m)
      BY <1>p, <3>1, <3>2 DEF Concerns, AckKind
    <3> QED BY <1>8, <3>3
  <2>4. AnswerDue(m, o) => AnswerDue(m, o)'
    BY <1>8, <2>2, <2>3, AnswerDueKept
  <2> QED BY <1>k, <1>8, <1>p, <2>1, <2>4
<1>9. ASSUME NEW p \in Outgoing, BrokerAnswers(p)
      PROVE  AnswerDue(m, out[m])'
  <2>1. /\ Response(p) \in Incoming /\ b2c' = Append(b2c, Response(p))
        /\ out' = out /\ BrokerTakes(p) /\ p.kind \in ResponseKinds
    BY <1>9, ResponseType DEF BrokerAnswers
  <2>2. ~Concerns(p, m)
    BY <2>1 DEF Concerns, ResponseKinds
  <2> QED BY <1>8, <2>1, <2>2
<1>10. ASSUME NEW p \in Outgoing, BrokerIgnores(p)
       PROVE  AnswerDue(m, out[m])'
  <2>1. on_wire' = on_wire
    BY <1>10 DEF BrokerIgnores, BrokerTakes
  <2>2. ~Concerns(p, m) /\ BrokerTakes(p) /\ UNCHANGED <<b2c, out>>
    BY <1>0, <1>10, <2>1 DEF BrokerIgnores
  <2> QED BY <1>8, <2>2
<1>11. ASSUME NEW p \in Outgoing, NEW n \in Inbound, BrokerReleases(p, n)
       PROVE  AnswerDue(m, out[m])'
  <2>0. /\ out[n].st = "sent" /\ out[n].qos = 2 /\ out[n].id = p.id
        /\ out'[n].st = "released" /\ out'[n].qos = 2
        /\ out'[n].id = out[n].id
        /\ \A i \in Inbound : i # n => out'[i] = out[i]
    BY <1>11, ReleasesTypes
  <2>1. PICK q \in Incoming : q = PubrelTo(n, out[n])
    BY <2>0, SentAgainType
  <2>2. q.type = "pubrel" /\ q.msg = n
    BY <2>1 DEF PubrelTo, Packet
  <2>3. b2c' = Append(b2c, q) /\ on_wire' = on_wire /\ BrokerTakes(p)
    BY <1>11, <2>1 DEF BrokerReleases, BrokerTakes
  <2>4. CASE m = n
    <3>1. q \in Due(m, out'[m])
      BY <2>0, <2>2, <2>4 DEF Due
    <3>2. Has(b2c', Due(m, out'[m]))
      BY <1>0, <2>3, <3>1, HasAppend
    <3> QED BY <3>2 DEF AnswerDue
  <2>5. CASE m # n
    <3>1. m \in Inbound /\ out'[m] = out[m] /\ OnItsWay(m) /\ OnItsWay(n)
      BY <1>0, <2>0, <2>3, <2>5 DEF OnItsWay
    <3>2. out[m].id # p.id
      BY <2>0, <2>5, <3>1, OutNow
    <3>3. ~Concerns(p, m)
      BY <3>2 DEF Concerns
    <3> QED BY <1>8, <2>3, <3>1, <3>3
  <2> QED BY <2>4, <2>5
<1>12. ASSUME NEW p \in Outgoing, NEW n \in Inbound, BrokerCompletes(p, n)
       PROVE  AnswerDue(m, out[m])'
  <2>0. /\ out'[n].st = "done" /\ OnItsWay(n) /\ out[n].id = p.id
        /\ \A i \in Inbound : i # n => out'[i] = out[i]
    BY <1>12, CompletesTypes
  <2>1. on_wire' = on_wire /\ BrokerTakes(p) /\ b2c' = b2c
    BY <1>12 DEF BrokerCompletes, BrokerTakes
  <2>2. m # n
    BY <2>0 DEF OnItsWay
  <2>3. m \in Inbound /\ out'[m] = out[m] /\ OnItsWay(m)
    BY <1>0, <2>0, <2>1, <2>2 DEF OnItsWay
  <2>4. out[m].id # p.id
    BY <2>0, <2>2, <2>3, OutNow
  <2>5. ~Concerns(p, m)
    BY <2>4 DEF Concerns
  <2> QED BY <1>8, <2>1, <2>3, <2>5
<1>13. ASSUME NEW n \in Inbound, NEW p \in Incoming, BrokerWrites(n, p),
              p \in Due(n, out'[n]),
              \A i \in Inbound : i # n => out'[i] = out[i]
       PROVE  AnswerDue(m, out[m])'
  <2>1. /\ up /\ on_wire' = on_wire \cup {n} /\ b2c' = Append(b2c, p)
        /\ closed' = closed
    BY <1>13 DEF BrokerWrites, Where
  <2>2. CASE m = n
    <3>1. Has(b2c', Due(m, out'[m]))
      BY <1>0, <1>13, <2>1, <2>2, HasAppend
    <3> QED BY <3>1 DEF AnswerDue
  <2>3. CASE m # n
    <3>1. m \in on_wire /\ out'[m] = out[m]
      BY <1>0, <1>13, <2>1, <2>3
    <3>2. Quiet
      BY <1>13, Zenon DEF Quiet
    <3> QED BY <1>2, <2>1, <3>1, <3>2
  <2> QED BY <2>2, <2>3
<1>14. ASSUME NEW n \in Inbound, NEW qos \in {1, 2}, NEW id \in InboundIds,
              SendsFirst(n, qos, id)
       PROVE  AnswerDue(m, out[m])'
  <2>1. PICK p \in Incoming : p = Packet("publish", qos, id, n)
    BY SentType
  <2>2. p.type = "publish" /\ p.msg = n
    BY <2>1 DEF Packet
  <2>3. BrokerWrites(n, p)
    BY <1>14, <2>1 DEF SendsFirst
  <2>4. /\ out'[n] = [st |-> "sent", qos |-> qos, id |-> id]
        /\ \A i \in Inbound : i # n => out'[i] = out[i]
    BY <1>14, FirstTypes
  <2>5. out'[n].st # "released"
    BY <2>4
  <2>6. p \in Due(n, out'[n])
    BY <2>2, <2>5 DEF Due
  <2> QED BY <1>13, <2>3, <2>4, <2>6
<1>15. ASSUME NEW n \in Inbound, SendsAgain(n) \/ SendsPubrel(n)
       PROVE  AnswerDue(m, out[m])'
  <2>1. \E p \in Incoming : BrokerWrites(n, p) /\ p \in Due(n, out[n])
    <3>1. CASE SendsAgain(n)
      <4>1. PublishTo(n, out[n]) \in Incoming /\ out[n].st = "sent"
            /\ BrokerWrites(n, PublishTo(n, out[n]))
        BY <3>1, SentAgainType DEF SendsAgain
      <4>2. PublishTo(n, out[n]) \in Due(n, out[n])
        BY <4>1 DEF Due, PublishTo, Packet
      <4> QED BY <4>1, <4>2, Zenon
    <3>2. CASE SendsPubrel(n)
      <4>1. PubrelTo(n, out[n]) \in Incoming /\ out[n].st = "released"
            /\ BrokerWrites(n, PubrelTo(n, out[n]))
        BY <3>2, SentAgainType DEF SendsPubrel
      <4>2. PubrelTo(n, out[n]) \in Due(n, out[n])
        BY <4>1 DEF Due, PubrelTo, Packet
      <4> QED BY <4>1, <4>2, Zenon
    <3> QED BY <1>15, <3>1, <3>2
  <2>2. out' = out
    BY <1>15 DEF SendsAgain, SendsPubrel
  <2> QED BY <1>13, <2>1, <2>2
<1> QED
  BY <1>1, <1>3, <1>4, <1>5, <1>6, <1>7, <1>9, <1>10, <1>11, <1>12, <1>14,
     <1>15, Zenon DEF SessionStep, ClientStep, BrokerStep

LEMMA NextAnswering ==
  ASSUME SessionInv, InInv, Answering, HasRoom, [SNext]_svars
  PROVE  Answering'
<1>1. CASE SNext
  BY <1>1, NextIsStep, AnsweringKept DEF InInv
<1>2. CASE UNCHANGED svars
  <2>1. UNCHANGED <<up, closed, on_wire, out, b2c, c2b, write_buf, main_store>>
    BY <1>2 DEF svars, net, broker, vars, session, state, txs, stores
  <2> QED BY <2>1 DEF Answering, OnItsWay, AnswerDue, PathHas, Written
<1> QED BY <1>1, <1>2

LEMMA AnsweringNow ==
  ASSUME SessionInv, Answering
  PROVE  EveryMessageIsAnswered
<1> SUFFICES ASSUME Running, up, NEW m \in on_wire,
                    out[m].st \in {"sent", "released"}
             PROVE  \/ \E i \in 1 .. Len(b2c) :
                         b2c[i].type # "response" /\ b2c[i].msg = m
                    \/ Acknowledges(m)
  BY DEF EveryMessageIsAnswered
<1> DEFINE A == Ack(AckKind(out[m]), out[m].id)
<1>1. Has(b2c, Due(m, out[m])) \/ PathHas(A)
  BY DEF Answering, AnswerDue, OnItsWay, Running
<1>2. CASE Has(b2c, Due(m, out[m]))
  BY <1>2 DEF Has, Due
<1>3. CASE PathHas(A)
  <2>1. \A e \in A : /\ e.id = out[m].id
                     /\ e.kind \in IF out[m].st = "released" THEN {"PUBCOMP"}
                                   ELSE {"PUBACK", "PUBREC"}
    BY DEF Ack, AckKind
  <2> HIDE DEF A
  <2>2. \/ Has(main_store.entries, A) \/ Has(write_buf, A) \/ Has(c2b, A)
    BY <1>3 DEF PathHas, On, Written
  <2> QED BY <2>1, <2>2 DEF Acknowledges, Has
<1> QED BY <1>1, <1>2, <1>3

(* As long as the store has room for its acknowledgements, every message   *)
(* that the broker sends over a connection is on its way, or the answer    *)
(* the broker waits for is: queued by rx_buffer_decode_publish or _pubrel, *)
(* encoded by tx_buffer, or sent.                                          *)
THEOREM AnsweredWithRoom == SSpec /\ []HasRoom => []EveryMessageIsAnswered
<1>1. SInit => SessionInv /\ InInv /\ Answering
  <2>1. SInit => Answering
    BY DEF SInit, Answering
  <2> QED BY <2>1, InitSession, InitOnce
<1>2. SessionInv /\ InInv /\ Answering /\ HasRoom /\ [SNext]_svars =>
        (SessionInv /\ InInv /\ Answering)'
  BY NextSession, NextOnce, NextAnswering
<1>3. SessionInv /\ InInv /\ Answering => EveryMessageIsAnswered
  BY AnsweringNow
<1> QED BY <1>1, <1>2, <1>3, PTL DEF SSpec

-----------------------------------------------------------------------------
(* A message that the broker takes for delivered has been, unless its id   *)
(* was stale.  The ids of all the messages fit into the id set, so that    *)
(* none is refused after its PUBREC has been queued.                       *)
IdsFit ==
  IsFiniteSet(InboundIds) /\ Cardinality(InboundIds) <= IdSetCapacity

Rec(id)  == Ack("PUBREC", id)
Comp(id) == Ack("PUBCOMP", id)
Publishing2(id) ==
  {p \in Incoming : p.type = "publish" /\ p.kind = 2 /\ p.id = id}

SentOK(id, g) ==
  /\ PathHas(Rec(id)) => g >= 1
  /\ g = 0 => id \notin id_set
  /\ PathOrder(Rec(id), Comp(id))
ReleasedOK(id, g) ==
  /\ g >= 1
  /\ PathHas(Comp(id)) => id \notin id_set /\ ~Has(b2c, Publishing2(id))
  /\ NoneBefore(b2c, Releasing(id), Publishing2(id))
  /\ PathOrder(Comp(id), Rec(id))
AckedOK(m, o, g) ==
  /\ o.st = "sent" => SentOK(o.id, g)
  /\ o.st = "released" => ReleasedOK(o.id, g)
  /\ o.st = "done" => g >= 1
  /\ Has(b2c, Publishing(m)) => o.st \in {"sent", "released"}
Fresh(m) == out[m].qos = 2 /\ out[m].id \notin stale

Unused(id) ==
  \A m \in Inbound : ~(OnItsWay(m) /\ out[m].qos = 2 /\ out[m].id = id)
Clean(id) == ~PathHas(Rec(id)) /\ id \notin id_set

AckInv ==
  /\ \A m \in Inbound : Fresh(m) => AckedOK(m, out[m], got[m])
  /\ \A id \in InboundIds \ stale : Unused(id) => Clean(id)

LEMMA FitsIn ==
  ASSUME SessionInv, IdsFit, NEW qos, NEW id \in InboundIds
  PROVE  ~NoRoomFor(qos, id)
<1> SUFFICES ASSUME id \notin id_set, Cardinality(id_set) >= IdSetCapacity
             PROVE  FALSE
  BY DEF NoRoomFor
<1>1. id_set \subseteq InboundIds
  BY ClientNow DEF TypeOK
<1>2. /\ IsFiniteSet(id_set) /\ IsFiniteSet(id_set \cup {id})
      /\ Cardinality(id_set \cup {id}) = Cardinality(id_set) + 1
  BY <1>1, FS_Subset, FS_AddElement DEF IdsFit
<1>3. Cardinality(id_set \cup {id}) <= Cardinality(InboundIds)
  BY <1>1, FS_Subset DEF IdsFit
<1>4. /\ Cardinality(id_set) \in Nat /\ Cardinality(InboundIds) \in Nat
      /\ IdSetCapacity \in Nat
  BY <1>2, FS_CardinalityType, SizesAssumption DEF IdsFit
<1> QED BY <1>2, <1>3, <1>4 DEF IdsFit

(* What happens to the acknowledgements with one id.                       *)
PathLess(id) ==
  /\ PathHas(Rec(id))' => PathHas(Rec(id))
  /\ PathHas(Comp(id))' => PathHas(Comp(id))
  /\ PathOrder(Rec(id), Comp(id)) => PathOrder(Rec(id), Comp(id))'
  /\ PathOrder(Comp(id), Rec(id)) => PathOrder(Comp(id), Rec(id))'

LEMMA AckSets ==
  ASSUME NEW id
  PROVE  /\ Rec(id) \in SUBSET Acks /\ Comp(id) \in SUBSET Acks
         /\ \A e \in Rec(id) : e.kind = "PUBREC" /\ e.id = id
         /\ \A e \in Comp(id) : e.kind = "PUBCOMP" /\ e.id = id
         /\ \A e \in Acks :
              /\ e \in Rec(id) <=> e.kind = "PUBREC" /\ e.id = id
              /\ e \in Comp(id) <=> e.kind = "PUBCOMP" /\ e.id = id
BY DEF Rec, Comp, Ack

LEMMA LosesLess ==
  ASSUME NEW id,
         \/ PathLoses \/ PathSame \/ \E e : PathTakes(e)
         \/ \E e : PathGains(e) /\ e \notin Rec(id) /\ e \notin Comp(id)
  PROVE  PathLess(id)
<1> DEFINE R == Rec(id)
           C == Comp(id)
<1>0. R \in SUBSET Acks /\ C \in SUBSET Acks
  BY AckSets
<1> HIDE DEF R, C
<1>1. /\ PathHas(R)' => PathHas(R)
      /\ PathHas(C)' => PathHas(C)
      /\ PathOrder(R, C) => PathOrder(R, C)'
      /\ PathOrder(C, R) => PathOrder(C, R)'
  <2>1. CASE PathLoses
    BY <1>0, <2>1, Zenon DEF PathLoses
  <2>2. CASE PathSame
    BY <1>0, <2>2, Zenon DEF PathSame
  <2>3. CASE \E e : PathTakes(e)
    BY <1>0, <2>3, Zenon DEF PathTakes
  <2>4. ASSUME NEW e, PathGains(e), e \notin R, e \notin C
        PROVE  /\ PathHas(R)' => PathHas(R)
               /\ PathHas(C)' => PathHas(C)
               /\ PathOrder(R, C) => PathOrder(R, C)'
               /\ PathOrder(C, R) => PathOrder(C, R)'
    BY <1>0, <2>4, Zenon DEF PathGains
  <2> QED BY <2>1, <2>2, <2>3, <2>4 DEF R, C
<1> QED BY <1>1 DEF PathLess, R, C

(* What happens to the packets on the way to the client, as far as they    *)
(* concern message m with that id.                                         *)
WayLess(m, o) ==
  /\ Has(b2c', Publishing(m)) => Has(b2c, Publishing(m))
  /\ o.st = "released" =>
       /\ Has(b2c', Publishing2(o.id)) => Has(b2c, Publishing2(o.id))
       /\ NoneBefore(b2c, Releasing(o.id), Publishing2(o.id)) =>
            NoneBefore(b2c', Releasing(o.id), Publishing2(o.id))

LEMMA LessOnWay ==
  ASSUME SessionInv, NEW m, NEW o,
         \/ UNCHANGED b2c \/ b2c' = <<>>
         \/ b2c # <<>> /\ b2c' = Tail(b2c)
         \/ \E p \in Incoming :
              /\ b2c' = Append(b2c, p) /\ p \notin Publishing(m)
              /\ o.st = "released" => p \notin Publishing2(o.id)
  PROVE  WayLess(m, o)
<1>0. b2c \in Seq(Incoming)
  BY QueuesNow
<1>1. CASE UNCHANGED b2c
  BY <1>1 DEF WayLess
<1>2. CASE b2c' = <<>>
  BY <1>2, HasEmpty DEF WayLess
<1>3. CASE b2c # <<>> /\ b2c' = Tail(b2c)
  BY <1>0, <1>3, HasTail, NoneBeforeTail DEF WayLess
<1>4. ASSUME NEW p \in Incoming, b2c' = Append(b2c, p), p \notin Publishing(m),
             o.st = "released" => p \notin Publishing2(o.id)
      PROVE  WayLess(m, o)
  <2>1. \A S : Has(b2c', S) <=> Has(b2c, S) \/ p \in S
    BY <1>0, <1>4, HasAppend
  <2>2. \A S, T : NoneBefore(b2c, S, T) /\ p \notin T => NoneBefore(b2c', S, T)
    BY <1>0, <1>4, NoneBeforeAppend
  <2> QED BY <1>4, <2>1, <2>2 DEF WayLess
<1> QED BY <1>1, <1>2, <1>3, <1>4

LEMMA AckedKept ==
  ASSUME NEW m, NEW o, NEW g \in Nat, NEW h \in Nat, h >= g, AckedOK(m, o, g),
         PathLess(o.id), WayLess(m, o), o.id \in id_set' => o.id \in id_set
  PROVE  AckedOK(m, o, h)'
BY DEF AckedOK, SentOK, ReleasedOK, PathLess, WayLess

LEMMA CleanKept ==
  ASSUME NEW id, Clean(id), PathLess(id), id \in id_set' => id \in id_set
  PROVE  Clean(id)'
BY DEF Clean, PathLess

LEMMA NothingInLine ==
  ASSUME NEW S, NEW T
  PROVE  /\ ~PathHas(S) => PathOrder(S, T)
         /\ ~PathHas(S)' => PathOrder(S, T)'
BY DEF PathHas, PathOrder, On, InLine, NoneBefore, Has

(* The messages that have the same id are not under way together.          *)
LEMMA OneUnderWay ==
  ASSUME SessionInv, Consistent, AckInv, NEW m \in Inbound, Fresh(m),
         NEW p \in Incoming, Has(b2c, {p}), p.type = "publish", p.kind = 2,
         p.id = out[m].id, m = p.msg \/ OnItsWay(m)
  PROVE  p.msg = m /\ OnItsWay(m)
<1> DEFINE n == p.msg
<1>1. /\ n \in Inbound /\ out[n].qos = 2 /\ out[n].id = out[m].id
      /\ p \in Publishing(n)
  BY IncomingFacts DEF Consistent, Fits, Publishing
<1>2. Has(b2c, Publishing(n))
  BY <1>1, HasWider
<1>3. OnItsWay(n)
  BY <1>1, <1>2 DEF AckInv, Fresh, AckedOK, OnItsWay
<1> QED BY <1>1, <1>3, OutNow

(* Steps after which every message is as far as before.                    *)
LEMMA AckInvSame ==
  ASSUME SessionInv, AckInv,
         \A m \in Inbound :
           /\ out'[m] = out[m]
           /\ WayLess(m, out[m]) /\ got'[m] \in Nat /\ got'[m] >= got[m],
         \A id : PathLess(id), id_set' \subseteq id_set, stale' = stale
  PROVE  AckInv'
<1>1. ASSUME NEW m \in Inbound, Fresh(m)'
      PROVE  AckedOK(m, out[m], got[m])'
  <2>1. PICK o, g, h : o = out[m] /\ g = got[m] /\ h = got'[m]
    OBVIOUS
  <2>2. g \in Nat /\ h \in Nat /\ h >= g
    BY <2>1 DEF SessionInv, BrokerTypes
  <2>3. AckedOK(m, o, g)
    BY <1>1, <2>1 DEF AckInv, Fresh
  <2>4. AckedOK(m, o, h)'
    BY <2>1, <2>2, <2>3, AckedKept
  <2> QED BY <2>1, <2>4 DEF AckedOK
<1>2. ASSUME NEW id \in InboundIds \ stale', Unused(id)'
      PROVE  Clean(id)'
  <2>1. Unused(id)
    BY <1>2 DEF Unused, OnItsWay
  <2> QED BY <1>2, <2>1, CleanKept DEF AckInv
<1> QED BY <1>1, <1>2 DEF AckInv

LEMMA AckInvIdle ==
  ASSUME SessionInv, AckInv, UNCHANGED <<out, got, id_set, stale>>,
         PathLoses \/ PathSame \/ \E e : PathTakes(e),
         \/ UNCHANGED b2c \/ b2c' = <<>>
         \/ b2c # <<>> /\ b2c' = Tail(b2c)
         \/ \E p \in Incoming : b2c' = Append(b2c, p) /\ p.type # "publish"
  PROVE  AckInv'
<1>1. \A p, m, id : p.type # "publish" =>
        p \notin Publishing(m) /\ p \notin Publishing2(id)
  BY DEF Publishing, Publishing2
<1>2. \A m \in Inbound : WayLess(m, out[m])
  <2>1. TAKE m \in Inbound
  <2>2. PICK o : o = out[m]
    OBVIOUS
  <2>3. WayLess(m, o)
    BY <1>1, LessOnWay
  <2> QED BY <2>2, <2>3
<1>3. \A m \in Inbound : got[m] \in Nat
  BY DEF SessionInv, BrokerTypes
<1>4. \A id : PathLess(id)
  BY LosesLess
<1> QED BY <1>2, <1>3, <1>4, AckInvSame

LEMMA AckInvQuiet ==
  ASSUME SessionInv, AckInv, Quiet, UNCHANGED <<out, got, id_set, stale>>,
         \/ UNCHANGED b2c
         \/ b2c # <<>> /\ b2c' = Tail(b2c)
         \/ \E p \in Incoming : b2c' = Append(b2c, p) /\ p.type # "publish"
  PROVE  AckInv'
BY QuietPath, AckInvIdle

LEMMA AckInvForgets ==
  ASSUME SessionInv, AckInv, Forgets
  PROVE  AckInv'
<1>1. /\ ~up /\ c2b = <<>> /\ b2c = <<>> /\ Written = <<>>
      /\ UNCHANGED <<b2c, c2b, up, write_buf, main_store, id_set, got>>
      /\ stale' = stale \cup id_set \cup StalePubrecs
  BY QueuesNow DEF Forgets, Ours, Wires, Written
<1>2. UNCHANGED Written
  BY <1>1 DEF Written
<1>3. \A m \in Inbound :
        /\ out'[m].id = out[m].id /\ out'[m].qos = out[m].qos
        /\ out'[m].st = IF OnItsWay(m) THEN "lost" ELSE out[m].st
  BY LostTypes
<1>4. ASSUME NEW m \in Inbound, Fresh(m)'
      PROVE  AckedOK(m, out[m], got[m])'
  <2>1. Fresh(m) /\ out'[m].st \notin {"sent", "released"}
    BY <1>1, <1>3, <1>4 DEF Fresh, OnItsWay
  <2>2. out[m].st = "done" => got[m] >= 1
    BY <2>1 DEF AckInv, AckedOK
  <2>3. out'[m].st = "done" => out[m].st = "done"
    BY <1>3
  <2>4. ~Has(b2c', Publishing(m))
    BY <1>1, HasEmpty
  <2> QED BY <1>1, <2>1, <2>2, <2>3, <2>4 DEF AckedOK
<1>5. ASSUME NEW id \in InboundIds \ stale'
      PROVE  Clean(id)'
  <2>1. id \notin id_set' /\ id \notin StalePubrecs
    BY <1>1, <1>5
  <2>2. ~Has(main_store.entries, Rec(id))
    BY <2>1, MainKept DEF StalePubrecs, Has, Rec, Ack
  <2>3. ~PathHas(Rec(id))
    BY <1>1, <2>2, HasEmpty DEF PathHas, On
  <2>4. ~PathHas(Rec(id))'
    BY <1>1, <1>2, <2>3 DEF PathHas
  <2> QED BY <2>1, <2>4 DEF Clean
<1> QED BY <1>4, <1>5 DEF AckInv

LEMMA AckInvPublish ==
  ASSUME SessionInv, InInv, AckInv, IdsFit, NEW p \in Incoming,
         GetsPublish(p)
  PROVE  AckInv'
<1> DEFINE n == p.msg
           kind == IF p.kind = 1 THEN "PUBACK" ELSE "PUBREC"
           e == Entry(kind, p.id, None)
<1>0. /\ b2c \in Seq(Incoming) /\ b2c # <<>> /\ p = Head(b2c)
      /\ b2c' = Tail(b2c) /\ UNCHANGED <<out, stale, c2b, Written>>
      /\ p.type = "publish" /\ p.kind \in {1, 2} /\ p.id \in InboundIds
      /\ n \in Inbound
  BY QueuesNow, IncomingFacts DEF GetsPublish, Takes, broker, lost, Written
<1>1. Has(b2c, {p}) /\ p \in Publishing(n)
  BY <1>0, HasTail DEF Publishing
<1>2. out[n].st # "new" /\ p.id = out[n].id /\ p.kind = out[n].qos
  BY <1>0, <1>1 DEF InInv, Consistent, Fits
<1>3. \A m \in Inbound : /\ got[m] \in Nat /\ got'[m] \in Nat
                         /\ got'[m] >= got[m]
  <2>1. /\ got \in [Inbound -> Nat]
        /\ got' = got \/ got' = [got EXCEPT ![n] = @ + 1]
    BY DEF GetsPublish, SessionInv, BrokerTypes
  <2> QED BY <2>1
<1>4. \A m \in Inbound : \A o : WayLess(m, o)
  BY <1>0, LessOnWay
<1>5. (PathSame \/ PathGains(e)) /\ e.kind = kind /\ e.id = p.id
  <2>1. kind \in AckKinds /\ main_store' = Acknowledging(kind, p.id)
    BY DEF GetsPublish, AckKinds
  <2> QED BY <1>0, <2>1, AcknowledgedPath, AckEntryType
<1>6. \A id : id # p.id \/ p.kind = 1 => PathLess(id)
  <2>1. \A id :
          id # p.id \/ p.kind = 1 => e \notin Rec(id) /\ e \notin Comp(id)
    BY <1>0, <1>5, AckSets
  <2> QED BY <1>5, <2>1, LosesLess
<1>7. CASE p.kind = 1
  <2>1. id_set' = id_set
    BY <1>7 DEF GetsPublish
  <2> QED BY <1>0, <1>3, <1>4, <1>6, <1>7, <2>1, AckInvSame
<1>8. CASE p.kind = 2
  <2>1. \/ /\ p.id \in id_set /\ UNCHANGED <<id_set, got>>
        \/ /\ p.id \notin id_set /\ id_set' = id_set \cup {p.id}
           /\ got'[n] = got[n] + 1
    <3>1. ~NoRoomFor(p.kind, p.id)
      BY <1>0, FitsIn
    <3>2. CASE p.id \in id_set
      BY <1>8, <3>2 DEF GetsPublish, Delivers, Duplicate
    <3>3. CASE p.id \notin id_set
      <4>1. Delivers(p.kind, p.id)
        BY <3>1, <3>3 DEF Delivers, Duplicate
      <4>2. got'[n] = got[n] + 1
        BY <1>0, <4>1 DEF GetsPublish, SessionInv, BrokerTypes
      <4> QED BY <1>8, <3>3, <4>1, <4>2 DEF GetsPublish
    <3> QED BY <3>2, <3>3
  <2>2. \A id : id # p.id => (id \in id_set' => id \in id_set)
    BY <2>1
  <2>3. ASSUME NEW m \in Inbound, Fresh(m)'
        PROVE  AckedOK(m, out[m], got[m])'
    <3>1. PICK o, g, h : o = out[m] /\ g = got[m] /\ h = got'[m]
      OBVIOUS
    <3>2. /\ g \in Nat /\ h \in Nat /\ h >= g /\ AckedOK(m, o, g)
          /\ Fresh(m) /\ o.qos = 2 /\ o = out'[m]
      BY <1>0, <1>3, <2>3, <3>1 DEF AckInv, Fresh
    <3>3. CASE o.id # p.id
      <4>1. AckedOK(m, o, h)'
        BY <1>4, <1>6, <2>2, <3>2, <3>3, AckedKept
      <4> QED BY <1>0, <3>1, <4>1 DEF AckedOK
    <3>4. CASE o.id = p.id /\ m # n
      <4>1. ~OnItsWay(m)
        BY <1>1, <1>0, <1>8, <3>1, <3>2, <3>4, OneUnderWay DEF InInv
      <4>2. AckedOK(m, o, h)'
        BY <1>4, <3>1, <3>2, <4>1 DEF AckedOK, WayLess, OnItsWay
      <4> QED BY <1>0, <3>1, <4>2 DEF AckedOK
    <3>5. CASE m = n
      <4>1. OnItsWay(m) /\ o.id = p.id
        BY <1>1, <1>0, <1>2, <1>8, <3>1, <3>2, <3>5, OneUnderWay DEF InInv
      <4>2. e \notin Comp(o.id)
        BY <1>5, <1>8, AckSets
      <4>3. /\ PathHas(Comp(o.id))' => PathHas(Comp(o.id))
            /\ PathOrder(Rec(o.id), Comp(o.id)) =>
                 PathOrder(Rec(o.id), Comp(o.id))'
            /\ PathOrder(Comp(o.id), Rec(o.id)) /\ ~PathHas(Comp(o.id)) =>
                 PathOrder(Comp(o.id), Rec(o.id))'
        <5> DEFINE R == Rec(o.id)
                   C == Comp(o.id)
        <5>1. R \in SUBSET Acks /\ C \in SUBSET Acks /\ e \notin C
          BY <4>2, AckSets
        <5> HIDE DEF R, C, e
        <5>2. /\ PathHas(C)' => PathHas(C)
              /\ PathOrder(R, C) => PathOrder(R, C)'
              /\ PathOrder(C, R) /\ ~PathHas(C) => PathOrder(C, R)'
          <6>1. CASE PathSame
            BY <5>1, <6>1, Zenon DEF PathSame
          <6>2. CASE PathGains(e)
            BY <5>1, <6>2, Zenon DEF PathGains
          <6> QED BY <1>5, <6>1, <6>2
        <5> QED BY <5>2 DEF R, C
      <4>4. CASE o.st = "sent"
        <5>1. SentOK(o.id, g)
          BY <3>2, <4>4 DEF AckedOK
        <5>2. h >= 1
          <6>1. CASE p.id \in id_set /\ UNCHANGED <<id_set, got>>
            BY <3>1, <3>2, <4>1, <5>1, <6>1 DEF SentOK
          <6>2. CASE got'[n] = got[n] + 1
            BY <3>1, <3>2, <3>5, <6>2
          <6> QED BY <2>1, <6>1, <6>2
        <5>3. SentOK(o.id, h)'
          BY <3>2, <4>3, <5>1, <5>2 DEF SentOK
        <5>4. AckedOK(m, o, h)'
          BY <4>4, <5>3 DEF AckedOK
        <5> QED BY <1>0, <3>1, <5>4 DEF AckedOK, SentOK
      <4>5. CASE o.st = "released"
        <5>1. ReleasedOK(o.id, g)
          BY <3>2, <4>5 DEF AckedOK
        <5>2. Has(b2c, Publishing2(o.id))
          <6>1. p \in Publishing2(o.id)
            BY <1>0, <1>8, <4>1 DEF Publishing2
          <6> QED BY <1>1, <6>1, HasWider
        <5>3. ~PathHas(Comp(o.id))
          BY <5>1, <5>2 DEF ReleasedOK
        <5>4. WayLess(m, o)
          BY <1>4
        <5>5. ReleasedOK(o.id, h)'
          BY <3>2, <4>3, <4>5, <5>1, <5>3, <5>4 DEF ReleasedOK, WayLess
        <5>6. AckedOK(m, o, h)'
          BY <4>5, <5>5 DEF AckedOK
        <5> QED BY <1>0, <3>1, <5>6 DEF AckedOK, ReleasedOK
      <4> QED BY <3>1, <4>1, <4>4, <4>5 DEF OnItsWay
    <3> QED BY <3>3, <3>4, <3>5
  <2>4. ASSUME NEW id \in InboundIds \ stale', Unused(id)'
        PROVE  Clean(id)'
    <3>1. Unused(id)
      BY <1>0, <2>4 DEF Unused, OnItsWay
    <3>2. id # p.id
      <4> SUFFICES ASSUME id = p.id PROVE FALSE
        OBVIOUS
      <4>1. Fresh(n)
        BY <1>0, <1>2, <1>8, <2>4 DEF Fresh
      <4>2. OnItsWay(n)
        BY <1>0, <1>1, <1>2, <1>8, <4>1, OneUnderWay DEF InInv
      <4> QED BY <1>0, <1>2, <1>8, <3>1, <4>2 DEF Unused
    <3>3. PathLess(id)
      BY <1>6, <3>2
    <3> QED BY <1>0, <2>2, <2>4, <3>1, <3>2, <3>3, CleanKept DEF AckInv
  <2> QED BY <2>3, <2>4 DEF AckInv
<1> QED BY <1>0, <1>7, <1>8

LEMMA AckInvPubrel ==
  ASSUME SessionInv, InInv, AckInv, NEW p \in Incoming, GetsPubrel(p)
  PROVE  AckInv'
<1> DEFINE e == Entry("PUBCOMP", p.id, None)
<1>0. /\ b2c \in Seq(Incoming) /\ b2c # <<>> /\ p = Head(b2c)
      /\ b2c' = Tail(b2c) /\ UNCHANGED <<out, stale, got, c2b, Written>>
      /\ p.type = "pubrel" /\ p.id \in InboundIds
      /\ id_set' = id_set \ {p.id}
  BY QueuesNow, IncomingFacts DEF GetsPubrel, Takes, broker, lost, Written
<1>1. \A m \in Inbound : \A o : WayLess(m, o)
  BY <1>0, LessOnWay
<1>2. (PathSame \/ PathGains(e)) /\ e.kind = "PUBCOMP" /\ e.id = p.id
  <2>1. "PUBCOMP" \in AckKinds /\ main_store' = Acknowledging("PUBCOMP", p.id)
    BY DEF GetsPubrel, AckKinds
  <2> QED BY <1>0, <2>1, AcknowledgedPath, AckEntryType
<1>3. \A id : id # p.id => PathLess(id)
  <2>1. \A id : id # p.id => e \notin Rec(id) /\ e \notin Comp(id)
    BY <1>2, AckSets
  <2> QED BY <1>2, <2>1, LosesLess
<1>4. LET R == Rec(p.id)  C == Comp(p.id) IN
      /\ PathHas(R)' => PathHas(R)
      /\ PathOrder(R, C) /\ ~PathHas(R) => PathOrder(R, C)'
      /\ PathOrder(C, R) => PathOrder(C, R)'
  <2> DEFINE R == Rec(p.id)
             C == Comp(p.id)
  <2>1. R \in SUBSET Acks /\ C \in SUBSET Acks /\ e \notin R
    BY <1>2, AckSets
  <2> HIDE DEF R, C, e
  <2>2. /\ PathHas(R)' => PathHas(R)
        /\ PathOrder(R, C) /\ ~PathHas(R) => PathOrder(R, C)'
        /\ PathOrder(C, R) => PathOrder(C, R)'
    <3>1. CASE PathSame
      BY <2>1, <3>1, Zenon DEF PathSame
    <3>2. CASE PathGains(e)
      BY <2>1, <3>2, Zenon DEF PathGains
    <3> QED BY <1>2, <3>1, <3>2
  <2> QED BY <2>2 DEF R, C
<1>5. ASSUME NEW m \in Inbound, Fresh(m)'
      PROVE  AckedOK(m, out[m], got[m])'
  <2>1. PICK o, g : o = out[m] /\ g = got[m]
    OBVIOUS
  <2>2. /\ g \in Nat /\ AckedOK(m, o, g) /\ Fresh(m) /\ o.qos = 2
    BY <1>0, <1>5, <2>1 DEF AckInv, Fresh, SessionInv, BrokerTypes
  <2>3. CASE o.id # p.id
    <3>1. AckedOK(m, o, g)'
      BY <1>0, <1>1, <1>3, <2>2, <2>3, AckedKept
    <3> QED BY <1>0, <2>1, <3>1 DEF AckedOK
  <2>4. CASE o.id = p.id
    <3>1. p \in Releasing(o.id) /\ Has(b2c, Releasing(o.id))
      BY <1>0, <2>4, HasTail DEF Releasing
    <3>2. o.st = "sent" => SentOK(o.id, g)'
      <4> SUFFICES ASSUME o.st = "sent" PROVE SentOK(o.id, g)'
        OBVIOUS
      <4>1. SentOK(o.id, g)
        BY <2>2 DEF AckedOK
      <4>2. Once(m, o, g, b2c, id_set, m \in on_wire)
        BY <2>1 DEF InInv, InOnce
      <4>3. ~(g >= 1)
        BY <2>2, <3>1, <4>2 DEF Once
      <4>4. ~PathHas(Rec(o.id))
        BY <4>1, <4>3 DEF SentOK
      <4> QED BY <1>0, <1>4, <2>4, <4>1, <4>4 DEF SentOK
    <3>3. o.st = "released" => ReleasedOK(o.id, g)'
      <4> SUFFICES ASSUME o.st = "released" PROVE ReleasedOK(o.id, g)'
        OBVIOUS
      <4>1. ReleasedOK(o.id, g)
        BY <2>2 DEF AckedOK
      <4>2. ~Has(b2c', Publishing2(o.id))
        BY <1>0, <3>1, <4>1, NoneBeforeTail DEF ReleasedOK
      <4>3. NoneBefore(b2c', Releasing(o.id), Publishing2(o.id))
        BY <1>1, <4>1 DEF WayLess, ReleasedOK
      <4>4. o.id \notin id_set' /\ PathOrder(Comp(o.id), Rec(o.id))'
        BY <1>0, <1>4, <2>4, <4>1 DEF ReleasedOK
      <4> QED BY <4>1, <4>2, <4>3, <4>4 DEF ReleasedOK
    <3>4. AckedOK(m, o, g)'
      BY <1>1, <2>2, <3>2, <3>3 DEF AckedOK, WayLess
    <3> QED BY <1>0, <2>1, <3>4 DEF AckedOK
  <2> QED BY <2>3, <2>4
<1>6. ASSUME NEW id \in InboundIds \ stale', Unused(id)'
      PROVE  Clean(id)'
  <2>1. Unused(id)
    BY <1>0, <1>6 DEF Unused, OnItsWay
  <2>2. Clean(id)
    BY <1>0, <1>6, <2>1 DEF AckInv
  <2>3. CASE id # p.id
    BY <1>0, <1>3, <2>2, <2>3, CleanKept
  <2>4. CASE id = p.id
    BY <1>0, <1>4, <2>2, <2>4 DEF Clean
  <2> QED BY <2>3, <2>4
<1> QED BY <1>5, <1>6 DEF AckInv

(* The broker takes the PUBREC of message n.                               *)
LEMMA AckInvReleases ==
  ASSUME SessionInv, InInv, AckInv, NEW p \in Outgoing, NEW n \in Inbound,
         BrokerReleases(p, n)
  PROVE  AckInv'
<1>0. /\ out[n].st = "sent" /\ out[n].qos = 2 /\ out[n].id = p.id
      /\ out'[n].st = "released" /\ out'[n].qos = 2
      /\ out'[n].id = out[n].id
      /\ \A i \in Inbound : i # n => out'[i] = out[i]
  BY ReleasesTypes
<1>1. PICK q \in Incoming : q = PubrelTo(n, out[n])
  BY <1>0, SentAgainType
<1>2. /\ q.type = "pubrel" /\ q.id = p.id
      /\ \A m, id : q \notin Publishing(m) /\ q \notin Publishing2(id)
  BY <1>0, <1>1 DEF PubrelTo, Packet, Publishing, Publishing2
<1>3. /\ b2c' = Append(b2c, q) /\ BrokerTakes(p) /\ p.kind = "PUBREC"
      /\ UNCHANGED <<stale, id_set, got>>
  BY <1>1 DEF BrokerReleases, BrokerTakes, lost, Ours
<1>4. PathTakes(p) /\ \A id : PathLess(id)
  BY <1>3, TakenPath, LosesLess
<1>5. \A m \in Inbound : \A o : WayLess(m, o)
  BY <1>2, <1>3, LessOnWay
<1>6. ASSUME NEW m \in Inbound, Fresh(m)'
      PROVE  AckedOK(m, out[m], got[m])'
  <2>1. PICK o, g : o = out[m] /\ g = got[m]
    OBVIOUS
  <2>2. g \in Nat /\ AckedOK(m, o, g) /\ Fresh(m)
    BY <1>0, <1>3, <1>6, <2>1 DEF AckInv, Fresh, SessionInv, BrokerTypes
  <2>3. CASE m # n
    <3>1. AckedOK(m, o, g)'
      BY <1>3, <1>4, <1>5, <2>2, AckedKept
    <3> QED BY <1>0, <1>3, <2>1, <2>3, <3>1 DEF AckedOK
  <2>4. CASE m = n
    <3>1. PICK r : r = out'[m]
      OBVIOUS
    <3>2. r.st = "released" /\ r.id = o.id /\ o.st = "sent" /\ p.id = o.id
          /\ o.qos = 2
      BY <1>0, <2>1, <2>4, <3>1
    <3>3. SentOK(o.id, g)
      BY <2>2, <3>2 DEF AckedOK
    <3>4. p \in Rec(o.id) /\ Rec(o.id) \in SUBSET Acks
          /\ Comp(o.id) \in SUBSET Acks
      <4>1. p \in CarriedEntries
        BY <1>3, ConnectFacts DEF Outgoing
      <4> QED BY <1>3, <3>2, <4>1, AckSets DEF Acks, AckKinds
    <3>5. PathHas(Rec(o.id)) /\ ~PathHas(Comp(o.id))'
      BY <1>4, <3>3, <3>4, Zenon DEF PathTakes, SentOK
    <3>6. g >= 1
      BY <3>3, <3>5 DEF SentOK
    <3>7. Once(m, o, g, b2c, id_set, m \in on_wire)
      BY <2>1 DEF InInv, InOnce
    <3>8. ~Has(b2c, Releasing(o.id))
      BY <3>2, <3>6, <3>7 DEF Once
    <3>9. NoneBefore(b2c', Releasing(o.id), Publishing2(o.id))
      <4>1. NoneBefore(b2c, Releasing(o.id), Publishing2(o.id))
        BY <3>8 DEF NoneBefore, Has
      <4> QED BY <1>2, <1>3, <4>1, NoneBeforeAppend, QueuesNow
    <3>10. PathOrder(Comp(o.id), Rec(o.id))'
      BY <3>5, NothingInLine
    <3>11. ReleasedOK(o.id, g)'
      BY <3>5, <3>6, <3>9, <3>10 DEF ReleasedOK
    <3>12. AckedOK(m, r, g)'
      BY <3>2, <3>11 DEF AckedOK
    <3> QED BY <1>3, <2>1, <3>1, <3>12 DEF AckedOK
  <2> QED BY <2>3, <2>4
<1>7. ASSUME NEW id \in InboundIds \ stale', Unused(id)'
      PROVE  Clean(id)'
  <2>1. Unused(id)
    <3>1. \A m \in Inbound : OnItsWay(m) /\ out[m].qos = 2 =>
            /\ OnItsWay(m)' /\ out'[m].qos = 2
            /\ out'[m].id = out[m].id
      BY <1>0 DEF OnItsWay
    <3> QED BY <1>7, <3>1 DEF Unused
  <2> QED BY <1>3, <1>4, <1>7, <2>1, CleanKept DEF AckInv
<1> QED BY <1>6, <1>7 DEF AckInv

(* ... or its PUBACK or PUBCOMP.                                           *)
LEMMA AckInvCompletes ==
  ASSUME SessionInv, InInv, AckInv, NEW p \in Outgoing, NEW n \in Inbound,
         BrokerCompletes(p, n)
  PROVE  AckInv'
<1>0. /\ OnItsWay(n) /\ out[n].id = p.id
      /\ out[n].st = IF p.kind = "PUBACK" THEN "sent" ELSE "released"
      /\ out[n].qos = IF p.kind = "PUBACK" THEN 1 ELSE 2
      /\ out'[n].st = "done" /\ out'[n].qos = out[n].qos
      /\ out'[n].id = out[n].id
      /\ \A i \in Inbound : i # n => out'[i] = out[i]
  BY CompletesTypes
<1>3. /\ b2c' = b2c /\ BrokerTakes(p) /\ p.kind \in {"PUBACK", "PUBCOMP"}
      /\ UNCHANGED <<stale, id_set, got>>
  BY DEF BrokerCompletes, BrokerTakes, lost, Ours
<1>4. PathTakes(p) /\ \A id : PathLess(id)
  BY <1>3, TakenPath, LosesLess
<1>5. \A m \in Inbound : \A o : WayLess(m, o)
  BY <1>3, LessOnWay
<1>r. ASSUME Fresh(n)
      PROVE  /\ ReleasedOK(p.id, got[n]) /\ ~Has(b2c, Publishing(n))
             /\ Clean(p.id)'
  <2>1. p.kind = "PUBCOMP" /\ out[n].st = "released" /\ out[n].qos = 2
    BY <1>0, <1>3, <1>r DEF Fresh
  <2>2. ReleasedOK(p.id, got[n])
    BY <1>0, <1>r, <2>1 DEF AckInv, AckedOK
  <2> DEFINE R == Rec(p.id)
             C == Comp(p.id)
  <2>3. p \in C /\ C \in SUBSET Acks /\ R \in SUBSET Acks
    <3>1. p \in CarriedEntries
      BY <1>3, ConnectFacts DEF Outgoing
    <3> QED BY <2>1, <3>1, AckSets DEF Acks, AckKinds
  <2>4. PathOrder(C, R)
    BY <2>2 DEF ReleasedOK
  <2> HIDE DEF R, C
  <2>5. PathHas(C) /\ ~PathHas(R)'
    BY <1>4, <2>3, <2>4, Zenon DEF PathTakes
  <2>6. p.id \notin id_set /\ ~Has(b2c, Publishing2(p.id))
    BY <2>2, <2>5 DEF ReleasedOK, C
  <2>7. ~Has(b2c, Publishing(n))
    <3> SUFFICES ASSUME Has(b2c, Publishing(n)) PROVE FALSE
      OBVIOUS
    <3>1. PICK q \in Publishing(n) : Has(b2c, {q})
      BY HasSome, QueuesNow
    <3>2. q \in Incoming /\ q.type = "publish" /\ q.msg = n
      BY DEF Publishing
    <3>3. q.kind = 2 /\ q.id = p.id
      BY <1>0, <2>1, <3>1, <3>2 DEF InInv, Consistent, Fits
    <3>4. q \in Publishing2(p.id)
      BY <3>2, <3>3 DEF Publishing2
    <3> QED BY <2>6, <3>1, <3>4, HasWider
  <2> QED BY <1>3, <2>2, <2>5, <2>6, <2>7 DEF Clean, R
<1>6. ASSUME NEW m \in Inbound, Fresh(m)'
      PROVE  AckedOK(m, out[m], got[m])'
  <2>1. PICK o, g : o = out[m] /\ g = got[m]
    OBVIOUS
  <2>2. g \in Nat /\ AckedOK(m, o, g) /\ Fresh(m)
    BY <1>0, <1>3, <1>6, <2>1 DEF AckInv, Fresh, SessionInv, BrokerTypes
  <2>3. CASE m # n
    <3>1. AckedOK(m, o, g)'
      BY <1>3, <1>4, <1>5, <2>2, AckedKept
    <3> QED BY <1>0, <1>3, <2>1, <2>3, <3>1 DEF AckedOK
  <2>4. CASE m = n
    <3>1. g >= 1 /\ ~Has(b2c', Publishing(m))
      BY <1>3, <1>r, <2>1, <2>2, <2>4 DEF ReleasedOK
    <3> QED BY <1>0, <1>3, <2>1, <2>4, <3>1 DEF AckedOK
  <2> QED BY <2>3, <2>4
<1>7. ASSUME NEW id \in InboundIds \ stale', Unused(id)'
      PROVE  Clean(id)'
  <2>1. CASE Fresh(n) /\ id = p.id
    BY <1>r, <2>1
  <2>2. CASE ~(Fresh(n) /\ id = p.id)
    <3>1. Unused(id)
      <4>1. \A m \in Inbound : m # n /\ OnItsWay(m) =>
              OnItsWay(m)' /\ out'[m] = out[m]
        BY <1>0 DEF OnItsWay
      <4>2. ~(out[n].qos = 2 /\ out[n].id = id)
        BY <1>0, <1>3, <1>7, <2>2 DEF Fresh
      <4> QED BY <1>7, <4>1, <4>2 DEF Unused
    <3> QED BY <1>3, <1>4, <1>7, <3>1, CleanKept DEF AckInv
  <2> QED BY <2>1, <2>2
<1> QED BY <1>6, <1>7 DEF AckInv

(* The broker writes message n, for the first time or again.               *)
LEMMA AckInvWrites ==
  ASSUME SessionInv, AckInv, NEW n \in Inbound, NEW p \in Incoming,
         BrokerWrites(n, p), p \in Publishing(n),
         out[n].st \in {"new", "sent"}, out'[n].st = "sent",
         p.id = out'[n].id,
         \A i \in Inbound :
           i # n => out'[i] = out[i] /\ (OnItsWay(i) => out[i].id # p.id),
         \/ out'[n] = out[n]
         \/ out[n].st = "new" /\ \A i \in Inbound : OnItsWay(i) =>
                                                      out[i].id # p.id
  PROVE  AckInv'
<1>1. /\ up /\ b2c' = Append(b2c, p) /\ UNCHANGED <<got, id_set, stale>>
  BY DEF BrokerWrites, Ours, lost
<1>2. \A id : PathLess(id)
  <2>1. PathSame
    BY <1>1, QuietPath, Zenon DEF Quiet
  <2> QED BY <2>1, LosesLess
<1>3. \A m : p \in Publishing(m) => m = n
  BY DEF Publishing
<1>4. \A id : p \in Publishing2(id) => id = p.id
  BY DEF Publishing2
<1>5. ASSUME NEW m \in Inbound, Fresh(m)'
      PROVE  AckedOK(m, out[m], got[m])'
  <2>1. CASE m # n
    <3>1. PICK o, g : o = out[m] /\ g = got[m]
      OBVIOUS
    <3>2. /\ g \in Nat /\ AckedOK(m, o, g)
      BY <1>1, <1>5, <2>1, <3>1 DEF AckInv, Fresh, SessionInv, BrokerTypes
    <3>3. o.st = "released" => p \notin Publishing2(o.id)
      BY <1>4, <2>1, <3>1 DEF OnItsWay
    <3>4. WayLess(m, o)
      BY <1>1, <1>3, <2>1, <3>3, LessOnWay
    <3>5. AckedOK(m, o, g)'
      BY <1>1, <1>2, <3>2, <3>4, AckedKept
    <3> QED BY <1>1, <2>1, <3>1, <3>5 DEF AckedOK
  <2>2. CASE m = n
    <3>1. PICK r, g : r = out'[m] /\ g = got[m]
      OBVIOUS
    <3>2. r.st = "sent" /\ r.id = p.id /\ g \in Nat
      BY <2>2, <3>1 DEF SessionInv, BrokerTypes
    <3>3. SentOK(r.id, g)'
      <4>1. CASE out'[n] = out[n]
        <5>1. SentOK(r.id, g)
          BY <1>1, <1>5, <2>2, <3>1, <3>2, <4>1 DEF AckInv, Fresh, AckedOK
        <5> QED BY <1>1, <1>2, <5>1 DEF SentOK, PathLess
      <4>2. CASE out[n].st = "new" /\ \A i \in Inbound :
                   OnItsWay(i) => out[i].id # p.id
        <5>1. Unused(r.id)
          BY <3>2, <4>2 DEF Unused
        <5>2. r.id \in InboundIds \ stale
          BY <1>1, <1>5, <3>1, <3>2, IncomingFacts DEF Fresh, Publishing
        <5>3. Clean(r.id)
          BY <5>1, <5>2 DEF AckInv
        <5>4. ~PathHas(Rec(r.id))'
          BY <1>2, <5>3 DEF Clean, PathLess
        <5> QED BY <1>1, <5>3, <5>4, NothingInLine DEF SentOK, Clean
      <4> QED BY <4>1, <4>2
    <3>4. AckedOK(m, r, g)'
      BY <3>2, <3>3 DEF AckedOK
    <3> QED BY <1>1, <3>1, <3>4 DEF AckedOK
  <2> QED BY <2>1, <2>2
<1>6. ASSUME NEW id \in InboundIds \ stale', Unused(id)'
      PROVE  Clean(id)'
  <2>1. Unused(id)
    <3>1. \A m \in Inbound : m # n /\ OnItsWay(m) =>
            OnItsWay(m)' /\ out'[m] = out[m]
      BY DEF OnItsWay
    <3>2. OnItsWay(n) => out'[n] = out[n] /\ OnItsWay(n)'
      BY DEF OnItsWay
    <3> QED BY <1>6, <3>1, <3>2 DEF Unused
  <2> QED BY <1>1, <1>2, <1>6, <2>1, CleanKept DEF AckInv
<1> QED BY <1>5, <1>6 DEF AckInv

LEMMA AckInvKept ==
  ASSUME SessionInv, InInv, AckInv, IdsFit, SessionStep
  PROVE  AckInv'
<1>0. b2c \in Seq(Incoming)
  BY QueuesNow
<1>1. CASE Opens \/ Breaks
  <2>1. /\ UNCHANGED <<out, got, id_set, stale>> /\ b2c' = <<>>
        /\ c2b' = <<>> /\ Written' = <<>> /\ main_store' = main_store
    BY <1>1 DEF Opens, Breaks, Written, broker, lost, Ours
  <2> QED BY <2>1, LostPath, AckInvIdle
<1>2. CASE \/ Stops \/ EncodesConnect \/ Sends \/ EndsConnack
           \/ \E e \in CarriedEntries : Accepts(e) \/ Encodes(e)
  <2>1. UNCHANGED <<out, got, id_set, stale>> /\ UNCHANGED b2c
    BY <1>2 DEF Stops, EncodesConnect, Sends, EndsConnack, Accepts, Encodes,
                broker, lost, Ours, Wires
  <2>2. Quiet
    BY <1>2, Zenon DEF Quiet
  <2> QED BY <2>1, <2>2, AckInvQuiet
<1>3. CASE \/ TakesConnack \/ BeginsConnack
           \/ \E p \in Incoming, k \in Nat : GetsResponse(p, k)
  <2>1. /\ UNCHANGED <<out, got, id_set, stale>>
        /\ b2c # <<>> /\ b2c' = Tail(b2c)
    BY <1>3
       DEF TakesConnack, BeginsConnack, GetsResponse, Takes, broker, lost
  <2>2. Quiet
    BY <1>3, Zenon DEF Quiet
  <2> QED BY <2>1, <2>2, AckInvQuiet
<1>4. ASSUME NEW p \in Outgoing, BrokerAnswers(p)
      PROVE  AckInv'
  <2>1. /\ Response(p) \in Incoming /\ Response(p).type # "publish"
        /\ b2c' = Append(b2c, Response(p))
    BY <1>4, ResponseType DEF BrokerAnswers
  <2>2. UNCHANGED <<out, got, id_set, stale>>
    BY <1>4 DEF BrokerAnswers, BrokerTakes, Ours, lost
  <2>3. PathTakes(p)
    BY <1>4, TakenPath DEF BrokerAnswers
  <2> QED BY <2>1, <2>2, <2>3, AckInvIdle
<1>5. ASSUME NEW p \in Outgoing, BrokerIgnores(p)
      PROVE  AckInv'
  <2>1. UNCHANGED <<out, got, id_set, stale>> /\ UNCHANGED b2c
    BY <1>5 DEF BrokerIgnores, BrokerTakes, Ours, lost
  <2>2. PathTakes(p)
    BY <1>5, TakenPath DEF BrokerIgnores
  <2> QED BY <2>1, <2>2, AckInvIdle
<1>6. ASSUME NEW n \in Inbound, NEW qos \in {1, 2}, NEW id \in InboundIds,
             SendsFirst(n, qos, id)
      PROVE  AckInv'
  <2>1. PICK p \in Incoming : p = Packet("publish", qos, id, n)
    BY SentType
  <2>2. p.type = "publish" /\ p.msg = n /\ p.id = id /\ p \in Publishing(n)
    BY <2>1 DEF Packet, Publishing
  <2>3. /\ BrokerWrites(n, p) /\ out[n].st = "new"
        /\ \A i \in Inbound : OnItsWay(i) => out[i].id # id
    BY <1>6, <2>1 DEF SendsFirst
  <2>4. /\ out'[n].st = "sent" /\ out'[n].id = id
        /\ \A i \in Inbound : i # n => out'[i] = out[i]
    <3>1. /\ out'[n] = [st |-> "sent", qos |-> qos, id |-> id]
          /\ \A i \in Inbound : i # n => out'[i] = out[i]
      BY <1>6, FirstTypes
    <3> QED BY <3>1
  <2> QED BY <2>2, <2>3, <2>4, AckInvWrites
<1>7. ASSUME NEW n \in Inbound, SendsAgain(n)
      PROVE  AckInv'
  <2>1. PICK p \in Incoming : p = PublishTo(n, out[n])
    BY <1>7, SentAgainType DEF SendsAgain
  <2>2. /\ p.type = "publish" /\ p.msg = n /\ p.id = out[n].id
        /\ p \in Publishing(n)
    BY <2>1 DEF PublishTo, Packet, Publishing
  <2>3. BrokerWrites(n, p) /\ out[n].st = "sent" /\ out' = out
    BY <1>7, <2>1 DEF SendsAgain
  <2>4. \A i \in Inbound : i # n /\ OnItsWay(i) => out[i].id # p.id
    BY <2>2, <2>3, OutNow DEF OnItsWay
  <2> QED BY <2>2, <2>3, <2>4, AckInvWrites
<1>8. ASSUME NEW n \in Inbound, SendsPubrel(n)
      PROVE  AckInv'
  <2>1. PICK p \in Incoming : p = PubrelTo(n, out[n])
    BY <1>8, SentAgainType DEF SendsPubrel
  <2>2. p.type # "publish"
    BY <2>1 DEF PubrelTo, Packet
  <2>3. BrokerWrites(n, p) /\ out' = out
    BY <1>8, <2>1 DEF SendsPubrel
  <2>4. /\ UNCHANGED <<got, id_set, stale>> /\ b2c' = Append(b2c, p) /\ Quiet
    <3>1. Quiet
      BY <2>3, Zenon DEF Quiet
    <3> QED BY <2>3, <3>1 DEF BrokerWrites, Ours, lost
  <2> QED BY <2>2, <2>3, <2>4, AckInvQuiet
<1>9. Forgets => AckInv'
  BY AckInvForgets
<1>10. \A p \in Incoming : GetsPublish(p) \/ GetsPubrel(p) => AckInv'
  BY AckInvPublish, AckInvPubrel
<1>11. \A p \in Outgoing, n \in Inbound :
         BrokerReleases(p, n) \/ BrokerCompletes(p, n) => AckInv'
  BY AckInvReleases, AckInvCompletes
<1> QED
  BY <1>1, <1>2, <1>3, <1>4, <1>5, <1>6, <1>7, <1>8, <1>9, <1>10, <1>11,
     Zenon DEF SessionStep, ClientStep, BrokerStep

LEMMA InitAcked == SInit => AckInv
<1> SUFFICES ASSUME SInit PROVE AckInv
  OBVIOUS
<1>1. /\ c2b = <<>> /\ b2c = <<>> /\ up = FALSE /\ id_set = {}
      /\ main_store = EmptyStore
      /\ out = [m \in Inbound |-> [st |-> "new", qos |-> 0, id |-> 0]]
  BY DEF SInit, Init
<1>2. \A m \in Inbound : out[m] = [st |-> "new", qos |-> 0, id |-> 0]
  BY <1>1
<1>3. \A m \in Inbound : ~Fresh(m)
  BY <1>2 DEF Fresh
<1>4. ASSUME NEW id
      PROVE  Clean(id)
  <2>1. main_store.entries = <<>> /\ Written = <<>>
    BY <1>1 DEF EmptyStore, Written
  <2>2. ~PathHas(Rec(id))
    BY <1>1, <2>1, HasEmpty DEF PathHas, On
  <2> QED BY <1>1, <2>2 DEF Clean
<1> QED BY <1>3, <1>4 DEF AckInv

LEMMA NextAcked ==
  ASSUME SessionInv, InInv, AckInv, IdsFit, [SNext]_svars
  PROVE  AckInv'
<1>1. CASE SNext
  BY <1>1, NextIsStep, AckInvKept
<1>2. CASE UNCHANGED svars
  <2>1. UNCHANGED <<up, out, b2c, c2b, write_buf, main_store, id_set, stale,
                    got>>
    BY <1>2 DEF svars, net, broker, lost, vars, session, txs, stores
  <2> QED BY <2>1
      DEF AckInv, Fresh, AckedOK, SentOK, ReleasedOK, Unused, Clean,
          OnItsWay, PathHas, PathOrder, Written
<1> QED BY <1>1, <1>2

LEMMA AckedNow ==
  ASSUME SessionInv, AckInv
  PROVE  AckedIsDelivered
<1> SUFFICES ASSUME NEW m \in Inbound, out[m].qos = 2, got[m] = 0,
                    out[m].st \in {"released", "done"},
                    out[m].id \notin stale
             PROVE  FALSE
  BY DEF AckedIsDelivered
<1>1. AckedOK(m, out[m], got[m])
  BY DEF AckInv, Fresh
<1> QED BY <1>1 DEF AckedOK, ReleasedOK

(* When the broker takes the PUBREC of a QoS 2 message, the application    *)
(* has got it, unless the client remembered its id, or still had to send   *)
(* a PUBREC with it, when the broker lost the session: for all ids that    *)
(* fit into id_set (rx_buffer_decode_publish, rx_buffer_decode_pubrel).    *)
THEOREM AckedWhenDelivered ==
  ASSUME IdsFit PROVE SSpec => []AckedIsDelivered
<1>1. SInit => SessionInv /\ InInv /\ AckInv
  BY InitSession, InitOnce, InitAcked
<1>2. SessionInv /\ InInv /\ AckInv /\ [SNext]_svars =>
        (SessionInv /\ InInv /\ AckInv)'
  BY NextSession, NextOnce, NextAcked
<1>3. SessionInv /\ AckInv => AckedIsDelivered
  BY AckedNow
<1> QED BY <1>1, <1>2, <1>3, PTL DEF SSpec

-----------------------------------------------------------------------------
(* What the client publishes: its requests from the store to the broker's  *)
(* log, as the sets of packets in each place.                              *)
PacketsOf(q) == {q[i] : i \in 1 .. Len(q)}
MarkedIn(s) == {s.entries[i] : i \in 1 .. s.pos}
QueuedIn(s) == {s.entries[i] : i \in s.pos + 1 .. Count(s)}
StoredIn(s) == PacketsOf(s.entries)

LEMMA PacketsEmpty == PacketsOf(<<>>) = {}
BY DEF PacketsOf

LEMMA PacketsType ==
  ASSUME NEW E, NEW q \in Seq(E)
  PROVE  PacketsOf(q) \subseteq E
BY LenProperties, ElementOfSeq DEF PacketsOf

LEMMA PacketsTail ==
  ASSUME NEW E, NEW q \in Seq(E), q # <<>>
  PROVE  PacketsOf(q) = {Head(q)} \cup PacketsOf(Tail(q))
<1> DEFINE t == Tail(q)
<1>1. /\ Len(q) \in Nat /\ Len(q) >= 1 /\ Len(t) = Len(q) - 1
      /\ \A i \in 1 .. Len(q) - 1 : t[i] = q[i + 1]
      /\ Head(q) = q[1]
  BY TailFacts
<1> HIDE DEF t
<1>2. ASSUME NEW i \in 1 .. Len(q)
      PROVE  q[i] = Head(q) \/ \E j \in 1 .. Len(t) : q[i] = t[j]
  <2>1. CASE i = 1
    BY <1>1, <2>1
  <2>2. CASE i # 1
    <3>1. i - 1 \in 1 .. Len(t) /\ t[i - 1] = q[i]
      BY <1>1, <2>2
    <3> QED BY <3>1
  <2> QED BY <2>1, <2>2
<1>3. ASSUME NEW j \in 1 .. Len(t)
      PROVE  \E i \in 1 .. Len(q) : q[i] = t[j]
  <2>1. j + 1 \in 1 .. Len(q) /\ t[j] = q[j + 1]
    BY <1>1
  <2> QED BY <2>1
<1>4. \E i \in 1 .. Len(q) : q[i] = Head(q)
  BY <1>1
<1> QED BY <1>2, <1>3, <1>4 DEF PacketsOf, t

LEMMA PacketsAppend ==
  ASSUME NEW E, NEW q \in Seq(E), NEW e \in E
  PROVE  PacketsOf(Append(q, e)) = PacketsOf(q) \cup {e}
<1> DEFINE p == Append(q, e)
<1>1. /\ Len(q) \in Nat /\ Len(p) = Len(q) + 1
      /\ \A i \in 1 .. Len(q) : p[i] = q[i]
      /\ p[Len(q) + 1] = e
  BY AppendFacts
<1> HIDE DEF p
<1>2. \A i \in 1 .. Len(p) : i \in 1 .. Len(q) \/ i = Len(q) + 1
  BY <1>1
<1>3. 1 .. Len(q) \subseteq 1 .. Len(p) /\ Len(q) + 1 \in 1 .. Len(p)
  BY <1>1
<1> QED BY <1>1, <1>2, <1>3 DEF PacketsOf, p

LEMMA StoredParts ==
  ASSUME NEW E, NEW s, WellFormed(s, E)
  PROVE  /\ StoredIn(s) = MarkedIn(s) \cup QueuedIn(s)
         /\ StoredIn(s) \subseteq E
<1>1. /\ s.pos \in Nat /\ Count(s) \in Nat /\ s.pos <= Count(s)
      /\ Count(s) = Len(s.entries) /\ s.entries \in Seq(E)
  BY LenProperties DEF WellFormed, Count
<1>2. 1 .. Count(s) = (1 .. s.pos) \cup (s.pos + 1 .. Count(s))
  BY <1>1
<1>3. StoredIn(s) \subseteq E
  BY <1>1, PacketsType DEF StoredIn
<1> QED BY <1>1, <1>2, <1>3 DEF StoredIn, PacketsOf, MarkedIn, QueuedIn

LEMMA StoredAppended ==
  ASSUME NEW E, NEW s, WellFormed(s, E), NEW e \in E
  PROVE  /\ MarkedIn(Appended(s, e)) = MarkedIn(s)
         /\ QueuedIn(Appended(s, e)) = QueuedIn(s) \cup {e}
<1> DEFINE t == Appended(s, e)
<1>1. /\ s.pos \in Nat /\ Count(s) \in Nat /\ s.pos <= Count(s)
      /\ t.pos = s.pos /\ Count(t) = Count(s) + 1
      /\ \A j \in 1 .. Count(s) : t.entries[j] = s.entries[j]
      /\ t.entries[Count(s) + 1] = e
  <2>1. s.pos \in Nat /\ Count(s) \in Nat /\ s.pos <= Count(s)
    BY LenProperties DEF WellFormed, Count
  <2> QED BY <2>1, AppendedLemma
<1> HIDE DEF t
<1>2. \A j \in 1 .. s.pos : t.entries[j] = s.entries[j]
  BY <1>1
<1>3. /\ s.pos + 1 .. Count(t) = (s.pos + 1 .. Count(s)) \cup {Count(s) + 1}
      /\ \A j \in s.pos + 1 .. Count(s) : t.entries[j] = s.entries[j]
  BY <1>1
<1>4. MarkedIn(t) = MarkedIn(s)
  BY <1>1, <1>2 DEF MarkedIn
<1>5. QueuedIn(t) = QueuedIn(s) \cup {e}
  BY <1>1, <1>3 DEF QueuedIn
<1> QED BY <1>4, <1>5 DEF t

(* The current entry is marked, or leaves the store.                       *)
LEMMA StoredEncoded ==
  ASSUME NEW E, NEW s, WellFormed(s, E), HasCurrent(s), NEW t,
         t \in {MarkCurrent(s), DropCurrent(s)}
  PROVE  /\ MarkedIn(t) = MarkedIn(s) \cup
              (IF t = DropCurrent(s) THEN {} ELSE {Current(s)})
         /\ QueuedIn(s) = QueuedIn(t) \cup {Current(s)}
         /\ \A x \in QueuedIn(t) :
              \E j \in s.pos + 2 .. Count(s) : s.entries[j] = x
<1> DEFINE n == s.pos
<1>1. n \in Nat /\ Count(s) \in Nat /\ n < Count(s)
  BY LenProperties DEF WellFormed, Count, HasCurrent
<1>2. QueuedIn(s) = {s.entries[j] : j \in n + 2 .. Count(s)} \cup {Current(s)}
  <2>1. n + 1 .. Count(s) = {n + 1} \cup (n + 2 .. Count(s))
    BY <1>1
  <2> QED BY <2>1, Zenon DEF QueuedIn, Current
<1>3. CASE t = DropCurrent(s)
  <2>1. n + 1 \in 1 .. Count(s) /\ ~(n >= n + 1)
    BY <1>1
  <2>2. /\ Count(t) = Count(s) - 1 /\ t.pos = n
        /\ \A j \in 1 .. Count(s) - 1 :
             t.entries[j] = IF j < n + 1 THEN s.entries[j]
                                         ELSE s.entries[j + 1]
    BY <1>3, <2>1, PopAtLemma, Zenon DEF DropCurrent
  <2>3. MarkedIn(t) = MarkedIn(s)
    <3>1. \A j \in 1 .. n : t.entries[j] = s.entries[j]
      BY <1>1, <2>2
    <3> QED BY <2>2, <3>1 DEF MarkedIn
  <2>4. \A j \in n + 1 .. Count(t) :
          j + 1 \in n + 2 .. Count(s) /\ t.entries[j] = s.entries[j + 1]
    BY <1>1, <2>2
  <2>5. \A j \in n + 2 .. Count(s) :
          j - 1 \in n + 1 .. Count(t) /\ t.entries[j - 1] = s.entries[j]
    BY <1>1, <2>2
  <2>6. QueuedIn(t) = {s.entries[j] : j \in n + 2 .. Count(s)}
    <3> HIDE DEF n
    <3> QED BY <2>2, <2>4, <2>5 DEF QueuedIn
  <2> QED BY <1>2, <1>3, <2>3, <2>6
<1>4. CASE t # DropCurrent(s)
  <2>1. t.entries = s.entries /\ t.pos = n + 1 /\ Count(t) = Count(s)
    BY <1>4, MarkCurrentLemma DEF Count
  <2>2. QueuedIn(t) = {s.entries[j] : j \in n + 2 .. Count(s)}
    <3>1. t.pos + 1 = n + 2
      BY <1>1, <2>1
    <3> QED BY <2>1, <3>1, Zenon DEF QueuedIn
  <2>3. MarkedIn(t) = MarkedIn(s) \cup {Current(s)}
    <3>1. 1 .. n + 1 = (1 .. n) \cup {n + 1}
      BY <1>1
    <3> QED BY <2>1, <3>1, Zenon DEF MarkedIn, Current
  <2> QED BY <1>2, <1>4, <2>2, <2>3
<1> QED BY <1>3, <1>4

(* An answered request leaves the store; a PUBREL takes the place of a     *)
(* message.                                                                *)
LEMMA StoredPopped ==
  ASSUME NEW E, NEW s, WellFormed(s, E), NEW k \in 1 .. s.pos
  PROVE  LET t == PopAt(s, k) IN
         /\ WellFormed(t, E)
         /\ MarkedIn(s) = MarkedIn(t) \cup {s.entries[k]}
         /\ QueuedIn(t) = QueuedIn(s)
<1> DEFINE t == PopAt(s, k)
           n == s.pos
<1>1. /\ n \in Nat /\ Count(s) \in Nat /\ n <= Count(s)
      /\ k \in 1 .. Count(s) /\ n >= k /\ k \in Nat
  BY LenProperties DEF WellFormed, Count
<1>2. /\ WellFormed(t, E) /\ Count(t) = Count(s) - 1 /\ t.pos = n - 1
      /\ \A j \in 1 .. Count(s) - 1 :
           t.entries[j] = IF j < k THEN s.entries[j] ELSE s.entries[j + 1]
  BY <1>1, PopAtLemma
<1> HIDE DEF t
<1>3. ASSUME NEW j \in 1 .. n
      PROVE  s.entries[j] = s.entries[k] \/
             \E i \in 1 .. n - 1 : t.entries[i] = s.entries[j]
  <2>1. CASE j < k
    <3>1. j \in 1 .. n - 1 /\ j \in 1 .. Count(s) - 1
      BY <1>1, <2>1
    <3> QED BY <1>2, <2>1, <3>1
  <2>2. CASE j = k
    BY <2>2
  <2>3. CASE j > k
    <3>1. j - 1 \in 1 .. n - 1 /\ j - 1 \in 1 .. Count(s) - 1
          /\ ~(j - 1 < k) /\ (j - 1) + 1 = j
      BY <1>1, <2>3
    <3> QED BY <1>2, <3>1
  <2> QED BY <1>1, <2>1, <2>2, <2>3
<1>4. ASSUME NEW i \in 1 .. n - 1
      PROVE  \E j \in 1 .. n : t.entries[i] = s.entries[j]
  <2>1. i \in 1 .. Count(s) - 1 /\ i \in 1 .. n /\ i + 1 \in 1 .. n
    BY <1>1
  <2> QED BY <1>2, <2>1
<1>5. MarkedIn(s) = MarkedIn(t) \cup {s.entries[k]}
  <2> HIDE DEF n
  <2>1. MarkedIn(t) = {t.entries[i] : i \in 1 .. n - 1}
    BY <1>2 DEF MarkedIn
  <2>2. MarkedIn(s) = {s.entries[j] : j \in 1 .. n}
    BY DEF MarkedIn, n
  <2>3. k \in 1 .. n
    BY DEF n
  <2> QED BY <1>3, <1>4, <2>1, <2>2, <2>3
<1>6. \A j \in n .. Count(t) :
        /\ j + 1 \in n + 1 .. Count(s)
        /\ t.entries[j] = s.entries[j + 1]
  <2> SUFFICES ASSUME NEW j \in n .. Count(t)
               PROVE  /\ j + 1 \in n + 1 .. Count(s)
                      /\ t.entries[j] = s.entries[j + 1]
    OBVIOUS
  <2>1. j \in 1 .. Count(s) - 1 /\ ~(j < k) /\ j + 1 \in n + 1 .. Count(s)
    BY <1>1, <1>2
  <2> QED BY <1>2, <2>1
<1>7. \A j \in n + 1 .. Count(s) :
        j - 1 \in n .. Count(t) /\ t.entries[j - 1] = s.entries[j]
  <2> SUFFICES ASSUME NEW j \in n + 1 .. Count(s)
               PROVE  /\ j - 1 \in n .. Count(t)
                      /\ t.entries[j - 1] = s.entries[j]
    OBVIOUS
  <2>1. j - 1 \in n .. Count(t) /\ (j - 1) + 1 = j
    BY <1>1, <1>2
  <2> QED BY <1>6, <2>1
<1>8. QueuedIn(t) = QueuedIn(s)
  <2>1. t.pos + 1 = n
    BY <1>1, <1>2
  <2> HIDE DEF n
  <2>2. QueuedIn(t) = {t.entries[j] : j \in n .. Count(t)}
    BY <2>1, Zenon DEF QueuedIn
  <2>3. QueuedIn(s) = {s.entries[j] : j \in n + 1 .. Count(s)}
    BY DEF QueuedIn, n
  <2> QED BY <1>6, <1>7, <2>2, <2>3
<1> QED BY <1>2, <1>5, <1>8 DEF t

LEMMA StoredSettled ==
  ASSUME NEW s, WellFormed(s, CarriedEntries), NEW k \in 1 .. s.pos
  PROVE  LET t == Settled(s, k)
             e == s.entries[k]
         IN /\ MarkedIn(s) = MarkedIn(t) \cup {e}
            /\ QueuedIn(t) = QueuedIn(s) \cup
                 (IF e.kind = "PUBLISH_2" THEN {PubrelFor(e)} ELSE {})
            /\ e \in CarriedEntries
<1> DEFINE e == s.entries[k]
           u == PopAt(s, k)
<1>1. e \in CarriedEntries
  <2>1. k \in 1 .. Count(s)
    BY LenProperties DEF WellFormed, Count
  <2> QED BY <2>1, ElementOfSeq DEF WellFormed, Count
<1>2. /\ WellFormed(u, CarriedEntries)
      /\ MarkedIn(s) = MarkedIn(u) \cup {e} /\ QueuedIn(u) = QueuedIn(s)
  BY StoredPopped
<1>3. CASE e.kind = "PUBLISH_2"
  <2>1. PubrelFor(e) \in CarriedEntries
    BY <1>1, <1>3, PubrelType
  <2>2. Settled(s, k) = Appended(u, PubrelFor(e))
    BY <1>3 DEF Settled
  <2> HIDE DEF u, e
  <2>3. /\ MarkedIn(Appended(u, PubrelFor(e))) = MarkedIn(u)
        /\ QueuedIn(Appended(u, PubrelFor(e))) =
             QueuedIn(u) \cup {PubrelFor(e)}
    BY <1>2, <2>1, StoredAppended
  <2> QED BY <1>1, <1>2, <1>3, <2>2, <2>3 DEF e
<1>4. CASE e.kind # "PUBLISH_2"
  <2>1. Settled(s, k) = u
    BY <1>4 DEF Settled
  <2> HIDE DEF u, e
  <2> QED BY <1>1, <1>2, <1>4, <2>1 DEF e
<1> QED BY <1>3, <1>4

LEMMA StoredUnmarked ==
  ASSUME NEW E, NEW s, WellFormed(s, E)
  PROVE  /\ MarkedIn(UnmarkAll(s)) = {}
         /\ QueuedIn(UnmarkAll(s)) = StoredIn(s)
         /\ StoredIn(UnmarkAll(s)) = StoredIn(s)
<1>1. /\ UnmarkAll(s).pos = 0 /\ UnmarkAll(s).entries = s.entries
      /\ WellFormed(UnmarkAll(s), E)
  BY UnmarkedStore
<1>2. MarkedIn(UnmarkAll(s)) = {}
  BY <1>1 DEF MarkedIn
<1>3. StoredIn(UnmarkAll(s)) = StoredIn(s)
  BY <1>1 DEF StoredIn
<1> QED BY <1>1, <1>2, <1>3, StoredParts

-----------------------------------------------------------------------------
(* How often a request occurs in a log.                                    *)
OccursIn(l, r) == Cardinality({i \in 1 .. Len(l) : l[i] = r})

LEMMA OccursFacts ==
  ASSUME NEW l \in Seq(Requests), NEW r
  PROVE  /\ OccursIn(l, r) \in Nat
         /\ r \in PacketsOf(l) <=> OccursIn(l, r) >= 1
         /\ r \notin PacketsOf(l) <=> OccursIn(l, r) = 0
<1> DEFINE S == {i \in 1 .. Len(l) : l[i] = r}
<1>1. IsFiniteSet(S) /\ Cardinality(S) \in Nat
  <2>1. IsFiniteSet(1 .. Len(l)) /\ S \subseteq 1 .. Len(l)
    BY FS_Interval, LenProperties
  <2> HIDE DEF S
  <2> QED BY <2>1, FS_Subset, FS_CardinalityType
<1>2. S = {} <=> Cardinality(S) = 0
  <2> HIDE DEF S
  <2> QED BY <1>1, FS_EmptySet
<1>3. r \notin PacketsOf(l) <=> S = {}
  BY DEF PacketsOf
<1> QED
  <2> HIDE DEF S
  <2>1. OccursIn(l, r) = Cardinality(S)
    BY DEF OccursIn, S
  <2> QED BY <1>1, <1>2, <1>3, <2>1

LEMMA OccursAppend ==
  ASSUME NEW l \in Seq(Requests), NEW v \in Requests, NEW r
  PROVE  OccursIn(Append(l, v), r) =
           IF v = r THEN OccursIn(l, r) + 1 ELSE OccursIn(l, r)
<1> DEFINE p == Append(l, v)
           S == {i \in 1 .. Len(l) : l[i] = r}
           T == {i \in 1 .. Len(p) : p[i] = r}
           n == Len(l) + 1
<1>1. /\ Len(l) \in Nat /\ Len(p) = n
      /\ \A i \in 1 .. Len(l) : p[i] = l[i]
      /\ p[n] = v
  BY AppendFacts
<1> HIDE DEF p
<1>2. T = IF v = r THEN S \cup {n} ELSE S
  <2>1. 1 .. Len(p) = (1 .. Len(l)) \cup {n}
    BY <1>1
  <2> HIDE DEF n
  <2> QED BY <1>1, <2>1
<1>3. n \notin S
  BY <1>1
<1>4. IsFiniteSet(S)
  <2>1. IsFiniteSet(1 .. Len(l)) /\ S \subseteq 1 .. Len(l)
    BY <1>1, FS_Interval
  <2> HIDE DEF S
  <2> QED BY <2>1, FS_Subset
<1>5. Cardinality(T) = IF v = r THEN Cardinality(S) + 1 ELSE Cardinality(S)
  <2> HIDE DEF S, T, n
  <2> QED BY <1>2, <1>3, <1>4, FS_AddElement
<1> QED BY <1>5 DEF OccursIn, p

-----------------------------------------------------------------------------
(* The requests in the store, those anywhere on the way to the broker, and *)
(* the answers to them on the way back.                                    *)
Carried(S) == {e \in S : e.kind \in RequestCarriers}
Requesting == Carried(StoredIn(main_store))
OnPath ==
  Carried(StoredIn(main_store) \cup PacketsOf(c2b) \cup PacketsOf(write_buf))
Answers == {p \in PacketsOf(b2c) : AnswersRequest(p)}
Logged  == PacketsOf(log)

(* Packet ids under way are not in use twice: the client counts them, and  *)
(* does not look whether one is still in main_store.                       *)
DistinctIds(S) ==
  \A a, b \in S :
    "PUBLISH_0" \notin {a.kind, b.kind} /\ a.id = b.id => a = b
IdKinds == RequestCarriers \ {"PUBLISH_0"}
DistinctIn(s) ==
  \A i, j \in 1 .. Count(s) :
    LET a == s.entries[i]
        b == s.entries[j]
    IN i # j /\ {a.kind, b.kind} \subseteq IdKinds => a.id # b.id
IdsDistinct == DistinctIn(main_store)

LEMMA IdsInStore ==
  ASSUME NEW s, DistinctIn(s)
  PROVE  DistinctIds(Carried(StoredIn(s)))
<1> SUFFICES ASSUME NEW a \in Carried(StoredIn(s)),
                    NEW b \in Carried(StoredIn(s)),
                    "PUBLISH_0" \notin {a.kind, b.kind}, a.id = b.id
             PROVE  a = b
  BY DEF DistinctIds
<1>1. PICK i \in 1 .. Count(s), j \in 1 .. Count(s) :
        a = s.entries[i] /\ b = s.entries[j]
  BY DEF Carried, StoredIn, PacketsOf, Count
<1>2. {a.kind, b.kind} \subseteq IdKinds
  BY DEF Carried, IdKinds
<1> QED BY <1>1, <1>2, Zenon DEF DistinctIn

LEMMA RequestingFacts ==
  ASSUME SessionInv
  PROVE  /\ StoredIn(main_store) = MarkedIn(main_store) \cup
                                     QueuedIn(main_store)
         /\ Requesting \subseteq CarriedEntries
         /\ \A e \in Requesting :
              /\ e.kind \in RequestCarriers /\ e.id \in Ids
              /\ e.val \in Requests /\ e.val <= accepted
         /\ \A a, b \in Requesting : a.val = b.val => a = b
<1> DEFINE s == main_store
<1>1. /\ WellFormed(s, CarriedEntries) /\ Count(s) \in Nat
      /\ \A i \in 1 .. Count(s) : s.entries[i] \in CarriedEntries
  BY MainKept
<1>2. StoredIn(s) = MarkedIn(s) \cup QueuedIn(s)
      /\ StoredIn(s) \subseteq CarriedEntries
  BY <1>1, StoredParts
<1>3. GoodStore(s, accepted, received)
  BY DEF SessionInv, RequestInv, Custody
<1>4. \A e \in Requesting : \E i \in 1 .. Count(s) : e = s.entries[i]
  BY DEF Requesting, Carried, StoredIn, PacketsOf, Count
<1>5. \A i \in 1 .. Count(s) : s.entries[i].val <= accepted
  BY <1>3 DEF GoodStore, GoodEntry
<1>6. ASSUME NEW e \in Requesting
      PROVE  /\ e \in CarriedEntries
             /\ e.kind \in RequestCarriers /\ e.id \in Ids
             /\ e.val \in Requests /\ e.val <= accepted
  <2>1. e \in CarriedEntries /\ e.kind \in RequestCarriers
    BY <1>2 DEF Requesting, Carried
  <2>2. e.val <= accepted
    BY <1>4, <1>5
  <2> QED BY <2>1, <2>2, CarriedFacts
<1>7. ASSUME NEW a \in Requesting, NEW b \in Requesting, a.val = b.val
      PROVE  a = b
  <2>1. PICK i \in 1 .. Count(s), j \in 1 .. Count(s) :
          a = s.entries[i] /\ b = s.entries[j]
    BY <1>4
  <2>2. a.val # None /\ b.val # None
    BY <1>6, SizeFacts DEF Requests, None
  <2>3. ~(i < j) /\ ~(j < i)
    BY <1>3, <1>7, <2>1, <2>2, Zenon DEF GoodStore, InOrder
  <2>4. i = j
    BY <1>1, <2>3
  <2> QED BY <2>1, <2>4
<1> QED BY <1>2, <1>6, <1>7

(* Packets that are answered, and the answers, belong to marked entries.   *)
LEMMA PathFacts ==
  ASSUME SessionInv
  PROVE  /\ \A p \in PacketsOf(c2b) : up /\ p \in Outgoing
              /\ (Awaited(p) => p \in MarkedIn(main_store))
         /\ \A p \in Answers :
              /\ up /\ p \in Incoming
              /\ \E e \in MarkedIn(main_store) :
                   e.kind = p.kind /\ e.id = p.id
<1>1. /\ b2c \in Seq(Incoming) /\ c2b \in Seq(Outgoing)
      /\ ~up => b2c = <<>> /\ c2b = <<>>
      /\ main_store.pos \in Nat
  BY QueuesNow DEF WellFormed
<1>2. /\ PacketsOf(b2c) \subseteq Incoming /\ PacketsOf(c2b) \subseteq Outgoing
      /\ ~up => PacketsOf(b2c) = {} /\ PacketsOf(c2b) = {}
  BY <1>1, PacketsType, PacketsEmpty
<1>3. CASE ~up
  BY <1>2, <1>3 DEF Answers
<1>4. CASE up
  <2>1. PICK fb, fc, fw : Links(b2c, c2b, write_buf, main_store, fb, fc, fw)
    BY <1>4 DEF SessionInv, Linked, LinkedBy
  <2>2. /\ fb \in Seq(Nat) /\ fc \in Seq(Nat)
        /\ Len(fb) = Len(b2c) /\ Len(fc) = Len(c2b)
        /\ AnswersTo(b2c, fb, main_store) /\ LinkedTo(c2b, fc, main_store)
    BY <2>1, LinksShape
  <2>3. /\ \A i \in 1 .. Len(b2c) : fb[i] \in Nat
        /\ \A i \in 1 .. Len(c2b) : fc[i] \in Nat
    BY <2>2, ElementOfSeq
  <2>4. \A n \in Nat : n # 0 /\ n <= main_store.pos =>
                         n \in 1 .. main_store.pos
    BY <1>1
  <2>5. ASSUME NEW i \in 1 .. Len(c2b), Awaited(c2b[i])
        PROVE  c2b[i] \in MarkedIn(main_store)
    <3>1. /\ fc[i] # 0 /\ fc[i] <= main_store.pos /\ fc[i] \in Nat
          /\ c2b[i] = main_store.entries[fc[i]]
      BY <2>2, <2>3, <2>5 DEF LinkedTo
    <3>2. fc[i] \in 1 .. main_store.pos
      BY <2>4, <3>1
    <3> QED BY <3>1, <3>2 DEF MarkedIn
  <2>6. ASSUME NEW i \in 1 .. Len(b2c), AnswersRequest(b2c[i])
        PROVE  \E e \in MarkedIn(main_store) :
                 e.kind = b2c[i].kind /\ e.id = b2c[i].id
    <3>1. /\ fb[i] # 0 /\ fb[i] <= main_store.pos /\ fb[i] \in Nat
          /\ b2c[i].kind = main_store.entries[fb[i]].kind
          /\ b2c[i].id = main_store.entries[fb[i]].id
      BY <2>2, <2>3, <2>6 DEF AnswersTo
    <3>2. fb[i] \in 1 .. main_store.pos
      BY <2>4, <3>1
    <3> QED BY <3>1, <3>2 DEF MarkedIn
  <2>7. \A p \in PacketsOf(c2b) : Awaited(p) => p \in MarkedIn(main_store)
    BY <2>5 DEF PacketsOf
  <2>8. \A p \in Answers : \E e \in MarkedIn(main_store) :
                             e.kind = p.kind /\ e.id = p.id
    BY <2>6 DEF Answers, PacketsOf
  <2> QED BY <1>2, <1>4, <2>7, <2>8 DEF Answers
<1> QED BY <1>3, <1>4

-----------------------------------------------------------------------------
(* What a step does to them: nothing; the application makes a request; a   *)
(* QoS 0 message is encoded; the answer to a request arrives; the broker   *)
(* takes a packet, or loses the session.                                   *)
Unseen ==
  /\ Requesting' = Requesting /\ OnPath' \subseteq OnPath
  /\ Answers' \subseteq Answers
  /\ calls' \in {calls, Reported(calls, Halved, TRUE)}
  /\ UNCHANGED <<log, srv_ids, forgets, kind_of, accepted>>

Begins(e) ==
  /\ e \in CarriedEntries /\ e.kind \in SessionKinds /\ e.val = accepted + 1
  /\ accepted' = accepted + 1
  /\ kind_of' = [kind_of EXCEPT ![accepted + 1] = e.kind]
  /\ Requesting' = Requesting \cup {e} /\ OnPath' \subseteq OnPath \cup {e}
  /\ Answers' \subseteq Answers
  /\ UNCHANGED <<log, srv_ids, forgets, calls>>

Leaves(e) ==
  /\ e \in Requesting /\ e.kind = "PUBLISH_0"
  /\ Requesting' \subseteq Requesting
  /\ Requesting \subseteq Requesting' \cup {e}
  /\ OnPath' \subseteq OnPath /\ Answers' \subseteq Answers
  /\ calls' = Reported(calls, {e.val}, TRUE)
  /\ UNCHANGED <<log, srv_ids, forgets, kind_of, accepted>>

Successor(e) == IF e.kind = "PUBLISH_2" THEN {PubrelFor(e)} ELSE {}
Finishes(e) ==
  /\ e \in Requesting
  /\ \E p \in Answers : p.kind = e.kind /\ p.id = e.id
  /\ Requesting' \subseteq Requesting \cup Successor(e)
  /\ Successor(e) \subseteq Requesting'
  /\ Requesting \subseteq Requesting' \cup {e}
  /\ OnPath' \subseteq OnPath \cup Successor(e) /\ Answers' \subseteq Answers
  /\ calls' \in {calls, Reported(calls, {e.val}, TRUE)}
  /\ UNCHANGED <<log, srv_ids, forgets, kind_of, accepted>>

Arrives(p) ==
  /\ p \in PacketsOf(c2b) /\ p \in Outgoing
  /\ Requesting' = Requesting /\ OnPath' \subseteq OnPath
  /\ Answers' \subseteq Answers \cup
                          (IF Awaited(p) THEN {Response(p)} ELSE {})
  /\ log' = IF Publishes(p) THEN Append(log, p.val) ELSE log
  /\ srv_ids' = IF p.kind = "PUBLISH_2" THEN srv_ids \cup {p.id}
                ELSE IF p.kind = "PUBREL" THEN srv_ids \ {p.id} ELSE srv_ids
  /\ UNCHANGED <<forgets, kind_of, calls, accepted>>

SessionLost ==
  /\ Requesting' = Requesting /\ OnPath' \subseteq OnPath
  /\ Answers = {} /\ Answers' = {}
  /\ srv_ids' = {} /\ forgets' = forgets + 1
  /\ UNCHANGED <<log, kind_of, calls, accepted>>

LEMMA CarriedSets ==
  ASSUME NEW S, NEW T
  PROVE  /\ Carried(S \cup T) = Carried(S) \cup Carried(T)
         /\ \A e : e.kind \in RequestCarriers => Carried({e}) = {e}
         /\ \A e : e.kind \notin RequestCarriers => Carried({e}) = {}
         /\ S \subseteq T => Carried(S) \subseteq Carried(T)
         /\ Carried({}) = {}
         /\ \A U : Carried(S \cup T \cup U) =
                   Carried(S) \cup Carried(T) \cup Carried(U)
BY DEF Carried

LEMMA OnPathParts ==
  OnPath = Requesting \cup Carried(PacketsOf(c2b))
                      \cup Carried(PacketsOf(write_buf))
<1>1. \A S, T, U : Carried(S \cup T \cup U) =
                    Carried(S) \cup Carried(T) \cup Carried(U)
  BY CarriedSets
<1> QED BY <1>1 DEF OnPath, Requesting

LEMMA SameStore ==
  ASSUME UNCHANGED main_store
  PROVE  Requesting' = Requesting
BY DEF Requesting

LEMMA OnPathKept ==
  ASSUME PacketsOf(c2b)' \cup PacketsOf(write_buf)' \subseteq
           PacketsOf(c2b) \cup PacketsOf(write_buf)
             \cup StoredIn(main_store) \cup {ConnectEntry},
         NEW N, Requesting' \subseteq Requesting \cup N
  PROVE  OnPath' \subseteq OnPath \cup N
<1>1. Carried(PacketsOf(c2b)') \cup Carried(PacketsOf(write_buf)') \subseteq
        Carried(PacketsOf(c2b)) \cup Carried(PacketsOf(write_buf))
          \cup Requesting
  <2>1. ConnectEntry.kind \notin RequestCarriers
    BY ConnectFacts DEF RequestCarriers, RequestKinds
  <2> QED BY <2>1 DEF Carried, Requesting
<1>2. OnPath' = Requesting' \cup Carried(PacketsOf(c2b)')
                            \cup Carried(PacketsOf(write_buf)')
  <2>1. \A S, T, U : Carried(S \cup T \cup U) =
                      Carried(S) \cup Carried(T) \cup Carried(U)
    BY CarriedSets
  <2> QED BY <2>1 DEF OnPath, Requesting
<1>3. OnPath = Requesting \cup Carried(PacketsOf(c2b))
                         \cup Carried(PacketsOf(write_buf))
  BY OnPathParts
<1> QED BY <1>1, <1>2, <1>3

LEMMA AnswersTail ==
  ASSUME b2c \in Seq(Incoming), b2c # <<>>, b2c' = Tail(b2c)
  PROVE  Answers' \subseteq Answers
<1>1. PacketsOf(b2c)' \subseteq PacketsOf(b2c)
  BY PacketsTail
<1> QED BY <1>1 DEF Answers

LEMMA AnswersAppend ==
  ASSUME b2c \in Seq(Incoming), NEW p \in Incoming, b2c' = Append(b2c, p)
  PROVE  Answers' \subseteq Answers \cup
                              (IF AnswersRequest(p) THEN {p} ELSE {})
<1>1. PacketsOf(b2c)' = PacketsOf(b2c) \cup {p}
  BY PacketsAppend
<1> QED BY <1>1 DEF Answers

LEMMA AnswersSame ==
  ASSUME b2c' = b2c \/ b2c' = <<>>
  PROVE  Answers' \subseteq Answers
<1>1. PacketsOf(b2c)' = PacketsOf(b2c) \/ PacketsOf(b2c)' = {}
  BY PacketsEmpty
<1> QED BY <1>1 DEF Answers

(* The steps that leave the store alone.                                   *)
LEMMA UnseenSame ==
  ASSUME SessionInv, UNCHANGED <<main_store, log, srv_ids, forgets, kind_of,
                                 accepted>>,
         calls' \in {calls, Reported(calls, Halved, TRUE)},
         PacketsOf(c2b)' \cup PacketsOf(write_buf)' \subseteq
           PacketsOf(c2b) \cup PacketsOf(write_buf)
             \cup StoredIn(main_store) \cup {ConnectEntry},
         Answers' \subseteq Answers
  PROVE  Unseen
<1>1. Requesting' = Requesting
  BY SameStore
<1>2. OnPath' \subseteq OnPath \cup {}
  BY <1>1, OnPathKept, Zenon
<1> QED BY <1>1, <1>2 DEF Unseen

LEMMA ViewQuiet ==
  ASSUME SessionInv,
         \/ Opens \/ Stops \/ Breaks \/ EncodesConnect \/ Sends
         \/ TakesConnack \/ BeginsConnack \/ EndsConnack
  PROVE  Unseen
<1>0. /\ write_buf \in Seq(Outgoing) /\ c2b \in Seq(Outgoing)
      /\ b2c \in Seq(Incoming) /\ ConnectEntry \in Outgoing
      /\ WellFormed(main_store, CarriedEntries)
      /\ PacketsOf(<<>>) = {}
  BY QueuesNow, PacketsEmpty
<1>1. CASE Opens
  <2>1. /\ UNCHANGED <<main_store, log, srv_ids, forgets, kind_of, calls,
                       accepted>>
        /\ write_buf' = <<>> /\ c2b' = <<>> /\ b2c' = <<>>
    BY <1>1 DEF Opens, lost
  <2>2. PacketsOf(c2b)' = {} /\ PacketsOf(write_buf)' = {}
    BY <1>0, <2>1
  <2> QED BY <2>1, <2>2, UnseenSame, AnswersSame
<1>2. CASE Stops
  <2>1. /\ UNCHANGED <<main_store, log, srv_ids, forgets, kind_of, accepted,
                       write_buf, c2b, b2c>>
        /\ calls' \in {calls, Reported(calls, Halved, TRUE)}
    BY <1>2 DEF Stops, Ours, Wires, broker, lost
  <2>2. PacketsOf(c2b)' = PacketsOf(c2b)
        /\ PacketsOf(write_buf)' = PacketsOf(write_buf)
    BY <2>1
  <2> QED BY <2>1, <2>2, UnseenSame, AnswersSame
<1>3. CASE Breaks
  <2>1. /\ UNCHANGED <<main_store, log, srv_ids, forgets, kind_of, calls,
                       accepted, write_buf>>
        /\ c2b' = <<>> /\ b2c' = <<>>
    BY <1>3 DEF Breaks, Ours, broker, lost
  <2>2. PacketsOf(c2b)' = {} /\ PacketsOf(write_buf)' = PacketsOf(write_buf)
    BY <1>0, <2>1
  <2> QED BY <2>1, <2>2, UnseenSame, AnswersSame
<1>4. CASE EncodesConnect
  <2>1. /\ UNCHANGED <<main_store, log, srv_ids, forgets, kind_of, calls,
                       accepted, c2b, b2c>>
        /\ write_buf' = Append(write_buf, ConnectEntry)
    BY <1>4 DEF EncodesConnect, Wires, broker, lost
  <2>2. /\ PacketsOf(c2b)' = PacketsOf(c2b)
        /\ PacketsOf(write_buf)' = PacketsOf(write_buf) \cup {ConnectEntry}
    BY <1>0, <2>1, PacketsAppend
  <2> QED BY <2>1, <2>2, UnseenSame, AnswersSame
<1>5. CASE Sends
  <2>1. /\ UNCHANGED <<main_store, log, srv_ids, forgets, kind_of, calls,
                       accepted, b2c>>
        /\ write_buf # <<>> /\ write_buf' = Tail(write_buf)
        /\ c2b' = Append(c2b, Head(write_buf))
    BY <1>5 DEF Sends, broker, lost
  <2>2. Head(write_buf) \in Outgoing
    BY <1>0, <2>1, TailFacts
  <2>3. PacketsOf(write_buf) = {Head(write_buf)} \cup PacketsOf(write_buf)'
    BY <1>0, <2>1, PacketsTail
  <2>4. PacketsOf(c2b)' = PacketsOf(c2b) \cup {Head(write_buf)}
    BY <1>0, <2>1, <2>2, PacketsAppend
  <2> QED BY <2>1, <2>3, <2>4, UnseenSame, AnswersSame
<1>6. CASE TakesConnack
  <2>1. /\ UNCHANGED <<log, srv_ids, forgets, kind_of, calls, accepted,
                       write_buf, c2b>>
        /\ b2c # <<>> /\ b2c' = Tail(b2c)
        /\ main_store' = UnmarkAll(main_store)
    BY <1>6 DEF TakesConnack, Takes, broker, lost
  <2>2. Requesting' = Requesting
    BY <1>0, <2>1, StoredUnmarked DEF Requesting
  <2>3. PacketsOf(c2b)' = PacketsOf(c2b)
        /\ PacketsOf(write_buf)' = PacketsOf(write_buf)
    BY <2>1
  <2>4. OnPath' \subseteq OnPath \cup {}
    BY <2>2, <2>3, OnPathKept
  <2>5. Answers' \subseteq Answers
    BY <1>0, <2>1, AnswersTail
  <2> QED BY <2>1, <2>2, <2>4, <2>5 DEF Unseen
<1>7. CASE BeginsConnack
  <2>1. /\ UNCHANGED <<main_store, log, srv_ids, forgets, kind_of, calls,
                       accepted, write_buf, c2b>>
        /\ b2c # <<>> /\ b2c' = Tail(b2c)
    BY <1>7 DEF BeginsConnack, Takes, broker, lost
  <2>2. PacketsOf(c2b)' = PacketsOf(c2b)
        /\ PacketsOf(write_buf)' = PacketsOf(write_buf)
    BY <2>1
  <2> QED BY <1>0, <2>1, <2>2, UnseenSame, AnswersTail
<1>8. CASE EndsConnack
  <2>1. /\ UNCHANGED <<log, srv_ids, forgets, kind_of, calls, accepted,
                       write_buf, c2b, b2c>>
        /\ main_store' = UnmarkAll(main_store)
    BY <1>8 DEF EndsConnack, Wires, broker, lost
  <2>2. Requesting' = Requesting
    BY <1>0, <2>1, StoredUnmarked DEF Requesting
  <2>3. PacketsOf(c2b)' = PacketsOf(c2b)
        /\ PacketsOf(write_buf)' = PacketsOf(write_buf)
    BY <2>1
  <2>4. OnPath' \subseteq OnPath \cup {}
    BY <2>2, <2>3, OnPathKept
  <2>5. Answers' \subseteq Answers
    BY <2>1, AnswersSame
  <2> QED BY <2>1, <2>2, <2>4, <2>5 DEF Unseen
<1> QED BY <1>1, <1>2, <1>3, <1>4, <1>5, <1>6, <1>7, <1>8

LEMMA ViewAccepts ==
  ASSUME SessionInv, NEW e \in CarriedEntries, Accepts(e)
  PROVE  Begins(e)
<1>0. /\ WellFormed(main_store, CarriedEntries)
      /\ e.kind \in RequestCarriers
  BY QueuesNow, SessionFacts DEF Accepts
<1>1. /\ UNCHANGED <<log, srv_ids, forgets, calls, write_buf, c2b, b2c>>
      /\ main_store' = Appended(main_store, e)
      /\ e.kind \in SessionKinds /\ e.val = accepted + 1
      /\ accepted' = accepted + 1
      /\ kind_of' = [kind_of EXCEPT ![accepted + 1] = e.kind]
  BY DEF Accepts, Wires, broker, lost
<1>2. StoredIn(main_store)' = StoredIn(main_store) \cup {e}
  <2>1. main_store'.entries = Append(main_store.entries, e)
    BY <1>0, <1>1 DEF Appended, WellFormed
  <2> QED BY <1>0, <2>1, PacketsAppend DEF StoredIn, WellFormed
<1>3. Requesting' = Requesting \cup {e}
  BY <1>0, <1>2 DEF Requesting, Carried
<1>4. PacketsOf(c2b)' = PacketsOf(c2b)
      /\ PacketsOf(write_buf)' = PacketsOf(write_buf)
  BY <1>1
<1>5. OnPath' \subseteq OnPath \cup {e}
  <2>1. Requesting' \subseteq Requesting \cup {e}
    BY <1>3
  <2> QED BY <1>4, <2>1, OnPathKept
<1>6. Answers' \subseteq Answers
  BY <1>1, AnswersSame
<1> QED BY <1>1, <1>3, <1>5, <1>6 DEF Begins

LEMMA ViewEncodes ==
  ASSUME SessionInv, NEW e \in CarriedEntries, Encodes(e)
  PROVE  Unseen \/ Leaves(e)
<1> DEFINE s == main_store
<1>0. /\ WellFormed(s, CarriedEntries) /\ write_buf \in Seq(Outgoing)
      /\ e \in Outgoing
  BY QueuesNow
<1>1. /\ UNCHANGED <<log, srv_ids, forgets, kind_of, accepted, c2b, b2c>>
      /\ HasCurrent(s) /\ e = Current(s)
      /\ write_buf' = Append(write_buf, e)
      /\ main_store' = IF Awaited(e) THEN MarkCurrent(s) ELSE DropCurrent(s)
      /\ calls' = IF e.kind = "PUBLISH_0" THEN Reported(calls, {e.val}, TRUE)
                                          ELSE calls
  BY DEF Encodes, Wires, broker, lost
<1>2. /\ WellFormed(main_store', CarriedEntries)
      /\ main_store' \in {MarkCurrent(s), DropCurrent(s)}
  BY <1>0, <1>1, EncodedStore, Zenon
<1>3. /\ MarkedIn(main_store') = MarkedIn(s) \cup
           (IF main_store' = DropCurrent(s) THEN {} ELSE {e})
      /\ QueuedIn(s) = QueuedIn(main_store') \cup {e}
  BY <1>0, <1>1, <1>2, StoredEncoded
<1>4. /\ StoredIn(s) = MarkedIn(s) \cup QueuedIn(s)
      /\ StoredIn(main_store') = MarkedIn(main_store') \cup
                                   QueuedIn(main_store')
  BY <1>0, <1>2, StoredParts
<1>5. e \in StoredIn(s)
  BY <1>3, <1>4
<1>6. StoredIn(s)' \subseteq StoredIn(s)
      /\ StoredIn(s) \subseteq StoredIn(s)' \cup {e}
  BY <1>3, <1>4
<1>7. PacketsOf(c2b)' = PacketsOf(c2b)
      /\ PacketsOf(write_buf)' = PacketsOf(write_buf) \cup {e}
  BY <1>0, <1>1, PacketsAppend
<1>8. /\ Requesting' \subseteq Requesting
      /\ Requesting \subseteq Requesting' \cup {e}
  BY <1>6 DEF Requesting, Carried
<1>9. OnPath' \subseteq OnPath \cup {}
  BY <1>5, <1>7, <1>8, OnPathKept
<1>10. Answers' \subseteq Answers
  BY <1>1, AnswersSame
<1>11. CASE e.kind = "PUBLISH_0"
  <2>1. e \in Requesting
    BY <1>5, <1>11 DEF Requesting, Carried, RequestCarriers, RequestKinds
  <2> QED BY <1>1, <1>8, <1>9, <1>10, <1>11, <2>1 DEF Leaves
<1>12. CASE e.kind # "PUBLISH_0"
  <2>1. Requesting' = Requesting
    <3>1. CASE e.kind \in RequestCarriers
      <4>1. Awaited(e)
        BY <1>12, <3>1
           DEF Awaited, RequestCarriers, RequestKinds, ResponseKinds
      <4>2. main_store' = MarkCurrent(s)
        BY <1>1, <4>1
      <4>3. StoredIn(s)' = StoredIn(s)
        BY <1>0, <1>1, <4>2, MarkCurrentLemma DEF StoredIn
      <4> QED BY <4>3 DEF Requesting
    <3>2. CASE e.kind \notin RequestCarriers
      <4>1. e \notin Requesting
        BY <3>2 DEF Requesting, Carried
      <4> QED BY <1>8, <4>1
    <3> QED BY <3>1, <3>2
  <2> QED BY <1>1, <1>9, <1>10, <1>12, <2>1 DEF Unseen
<1> QED BY <1>11, <1>12

LEMMA ViewResponse ==
  ASSUME SessionInv, NEW p \in Incoming, NEW k \in Nat, GetsResponse(p, k)
  PROVE  Finishes(main_store.entries[k])
<1> DEFINE s == main_store
           e == s.entries[k]
<1>0. /\ WellFormed(s, CarriedEntries) /\ b2c \in Seq(Incoming)
  BY QueuesNow
<1>1. /\ UNCHANGED <<log, srv_ids, forgets, kind_of, accepted, c2b, write_buf>>
      /\ b2c # <<>> /\ p = Head(b2c) /\ b2c' = Tail(b2c)
      /\ AnswersRequest(p) /\ k \in 1 .. s.pos
      /\ e.kind = p.kind /\ e.id = p.id
      /\ main_store' = Settled(s, k)
      /\ calls' \in {calls, Reported(calls, {e.val}, TRUE)}
  BY DEF GetsResponse, Takes, IsAnswer, broker, lost
<1>2. /\ MarkedIn(s) = MarkedIn(main_store') \cup {e}
      /\ QueuedIn(main_store') = QueuedIn(s) \cup Successor(e)
      /\ e \in CarriedEntries
  BY <1>0, <1>1, StoredSettled DEF Successor
<1>3. WellFormed(main_store', CarriedEntries)
  <2>1. k \in 1 .. Count(s)
    <3>1. s.pos \in Nat /\ s.pos <= Count(s) /\ Count(s) \in Nat
      BY MainKept
    <3> QED BY <1>1, <3>1
  <2> QED BY <1>0, <1>1, <2>1, SettledType
<1> HIDE DEF e
<1>4. /\ StoredIn(s) = MarkedIn(s) \cup QueuedIn(s)
      /\ StoredIn(main_store') = MarkedIn(main_store') \cup
                                   QueuedIn(main_store')
  BY <1>0, <1>3, StoredParts
<1>5. /\ e \in StoredIn(s)
      /\ StoredIn(s)' \subseteq StoredIn(s) \cup Successor(e)
      /\ Successor(e) \subseteq StoredIn(s)'
      /\ StoredIn(s) \subseteq StoredIn(s)' \cup {e}
  BY <1>2, <1>4
<1>6. /\ e.kind \in RequestCarriers
      /\ \A x \in Successor(e) : x.kind \in RequestCarriers
  <2>1. Awaited(e)
    <3>1. p.kind \in ResponseKinds /\ p.kind # "CONNECT"
      BY <1>1, IncomingFacts, ConnectFacts DEF AnswersRequest
    <3> QED BY <1>1, <3>1 DEF Awaited, e
  <2>2. e.kind \in RequestCarriers
    BY <1>2, <2>1, CarriedFacts
  <2>3. ASSUME e.kind = "PUBLISH_2"
        PROVE  PubrelFor(e).kind \in RequestCarriers
    BY <1>2, <2>3, PubrelType DEF RequestCarriers
  <2> QED BY <2>2, <2>3 DEF Successor
<1>7. /\ Requesting' \subseteq Requesting \cup Successor(e)
      /\ Successor(e) \subseteq Requesting'
      /\ Requesting \subseteq Requesting' \cup {e}
      /\ e \in Requesting
  BY <1>5, <1>6 DEF Requesting, Carried
<1>8. OnPath' \subseteq OnPath \cup Successor(e)
  <2>1. PacketsOf(c2b)' = PacketsOf(c2b)
        /\ PacketsOf(write_buf)' = PacketsOf(write_buf)
    BY <1>1
  <2> QED BY <1>7, <2>1, OnPathKept
<1>9. p \in Answers
  <2>1. p \in PacketsOf(b2c)
    BY <1>0, <1>1, PacketsTail
  <2> QED BY <1>1, <2>1 DEF Answers
<1>10. Answers' \subseteq Answers
  BY <1>0, <1>1, AnswersTail
<1>11. calls' \in {calls, Reported(calls, {e.val}, TRUE)}
  BY <1>1 DEF e
<1>12. \E x \in Answers : x.kind = e.kind /\ x.id = e.id
  BY <1>1, <1>9 DEF e
<1>13. Finishes(e)
  BY <1>1, <1>7, <1>8, <1>10, <1>11, <1>12 DEF Finishes
<1> QED BY <1>13 DEF e

LEMMA ViewAcknowledges ==
  ASSUME SessionInv, NEW p \in Incoming, GetsPublish(p) \/ GetsPubrel(p)
  PROVE  Unseen
<1>0. /\ WellFormed(main_store, CarriedEntries) /\ b2c \in Seq(Incoming)
  BY QueuesNow
<1>1. /\ UNCHANGED <<log, srv_ids, forgets, kind_of, accepted, calls, c2b,
                     write_buf>>
      /\ b2c # <<>> /\ b2c' = Tail(b2c)
      /\ p.type \in {"publish", "pubrel"}
      /\ \E kind \in AckKinds : main_store' = Acknowledging(kind, p.id)
  BY DEF GetsPublish, GetsPubrel, Takes, broker, lost, AckKinds
<1>2. PICK kind \in AckKinds : main_store' = Acknowledging(kind, p.id)
  BY <1>1
<1>3. p.id \in InboundIds
  BY <1>1, IncomingFacts
<1> DEFINE a == Entry(kind, p.id, None)
<1>4. a \in CarriedEntries /\ a.kind = kind
  BY <1>3, AckEntryType
<1>5. a.kind \notin RequestCarriers
  BY <1>4 DEF AckKinds, RequestCarriers, RequestKinds
<1> HIDE DEF a
<1>6. main_store' = main_store \/ main_store' = Appended(main_store, a)
  BY <1>2 DEF Acknowledging, a
<1>7. Requesting' = Requesting
  <2>1. CASE main_store' = main_store
    BY <2>1, SameStore
  <2>2. CASE main_store' = Appended(main_store, a)
    <3>1. main_store'.entries = Append(main_store.entries, a)
      BY <1>0, <2>2 DEF Appended, WellFormed
    <3>2. StoredIn(main_store)' = StoredIn(main_store) \cup {a}
      BY <1>0, <1>4, <3>1, PacketsAppend DEF StoredIn, WellFormed
    <3> QED BY <1>5, <3>2 DEF Requesting, Carried
  <2> QED BY <1>6, <2>1, <2>2
<1>8. PacketsOf(c2b)' = PacketsOf(c2b)
      /\ PacketsOf(write_buf)' = PacketsOf(write_buf)
  BY <1>1
<1>9. OnPath' \subseteq OnPath \cup {}
  BY <1>7, <1>8, OnPathKept
<1>10. Answers' \subseteq Answers
  BY <1>0, <1>1, AnswersTail
<1> QED BY <1>1, <1>7, <1>9, <1>10 DEF Unseen

LEMMA ViewForgets ==
  ASSUME SessionInv, Forgets
  PROVE  SessionLost
<1>1. /\ UNCHANGED <<log, kind_of, accepted, calls, c2b, write_buf, b2c,
                     main_store>>
      /\ ~up /\ srv_ids' = {} /\ forgets' = forgets + 1
  BY DEF Forgets, Ours, Wires
<1>2. Requesting' = Requesting
  BY <1>1, SameStore
<1>3. PacketsOf(c2b)' = PacketsOf(c2b)
      /\ PacketsOf(write_buf)' = PacketsOf(write_buf)
  BY <1>1
<1>4. OnPath' \subseteq OnPath \cup {}
  BY <1>2, <1>3, OnPathKept
<1>5. Answers = {}
  BY <1>1, PathFacts
<1>6. Answers' \subseteq Answers
  BY <1>1, AnswersSame
<1> QED BY <1>1, <1>2, <1>4, <1>5, <1>6 DEF SessionLost

LEMMA ViewBrokerTakes ==
  ASSUME SessionInv, NEW p \in Outgoing,
         \/ BrokerAnswers(p) \/ BrokerIgnores(p)
         \/ \E m \in Inbound : BrokerReleases(p, m) \/ BrokerCompletes(p, m)
  PROVE  Arrives(p)
<1>0. b2c \in Seq(Incoming) /\ c2b \in Seq(Outgoing)
  BY QueuesNow
<1>1. BrokerTakes(p)
  BY DEF BrokerAnswers, BrokerIgnores, BrokerReleases, BrokerCompletes
<1>2. /\ UNCHANGED <<main_store, write_buf, calls, accepted, forgets, kind_of>>
      /\ c2b # <<>> /\ p = Head(c2b) /\ c2b' = Tail(c2b)
      /\ log' = IF Publishes(p) THEN Append(log, p.val) ELSE log
      /\ srv_ids' = IF p.kind = "PUBLISH_2" THEN srv_ids \cup {p.id}
                    ELSE IF p.kind = "PUBREL" THEN srv_ids \ {p.id}
                    ELSE srv_ids
  BY <1>1 DEF BrokerTakes, Ours, lost
<1>3. Requesting' = Requesting
  BY <1>2, SameStore
<1>4. /\ PacketsOf(c2b) = {p} \cup PacketsOf(c2b)'
      /\ PacketsOf(write_buf)' = PacketsOf(write_buf)
  BY <1>0, <1>2, PacketsTail
<1>5. OnPath' \subseteq OnPath \cup {}
  BY <1>3, <1>4, OnPathKept
<1>6. Answers' \subseteq Answers \cup
                           (IF Awaited(p) THEN {Response(p)} ELSE {})
  <2>1. CASE BrokerAnswers(p)
    <3>1. p.kind \in ResponseKinds /\ b2c' = Append(b2c, Response(p))
      BY <2>1 DEF BrokerAnswers
    <3>2. /\ Response(p) \in Incoming
          /\ AnswersRequest(Response(p)) <=> Awaited(p)
      BY <3>1, ResponseType
    <3> QED BY <1>0, <3>1, <3>2, AnswersAppend
  <2>2. CASE BrokerIgnores(p) \/ \E m \in Inbound : BrokerCompletes(p, m)
    <3>1. b2c' = b2c
      BY <2>2 DEF BrokerIgnores, BrokerCompletes
    <3> QED BY <3>1, AnswersSame
  <2>3. ASSUME NEW m \in Inbound, BrokerReleases(p, m)
        PROVE  Answers' \subseteq Answers \cup
                             (IF Awaited(p) THEN {Response(p)} ELSE {})
    <3>1. /\ b2c' = Append(b2c, PubrelTo(m, out[m]))
          /\ out[m].st = "sent" /\ out[m].qos = 2
      BY <2>3, ReleasesTypes DEF BrokerReleases
    <3>2. /\ PubrelTo(m, out[m]) \in Incoming
          /\ PubrelTo(m, out[m]).type = "pubrel"
      BY <3>1, SentAgainType
    <3>3. ~AnswersRequest(PubrelTo(m, out[m]))
      BY <3>2 DEF AnswersRequest
    <3> QED BY <1>0, <3>1, <3>2, <3>3, AnswersAppend
  <2> QED BY <2>1, <2>2, <2>3
<1> QED BY <1>2, <1>3, <1>4, <1>5, <1>6 DEF Arrives

LEMMA ViewBrokerSends ==
  ASSUME SessionInv, NEW m \in Inbound,
         \/ \E qos \in {1, 2}, id \in InboundIds : SendsFirst(m, qos, id)
         \/ SendsAgain(m) \/ SendsPubrel(m)
  PROVE  Unseen
<1>1. PICK p \in Incoming : BrokerWrites(m, p) /\ ~AnswersRequest(p)
  <2>1. ASSUME NEW qos \in {1, 2}, NEW id \in InboundIds,
               SendsFirst(m, qos, id)
        PROVE  \E p \in Incoming : BrokerWrites(m, p) /\ ~AnswersRequest(p)
    <3> DEFINE p == Packet("publish", qos, id, m)
    <3>1. p \in Incoming /\ p.type = "publish"
      BY SentType DEF Packet
    <3>2. BrokerWrites(m, p)
      BY <2>1 DEF SendsFirst
    <3> HIDE DEF p
    <3> QED BY <3>1, <3>2 DEF AnswersRequest
  <2>2. CASE SendsAgain(m)
    BY <2>2, SentAgainType DEF SendsAgain, AnswersRequest
  <2>3. CASE SendsPubrel(m)
    BY <2>3, SentAgainType DEF SendsPubrel, AnswersRequest
  <2> QED BY <2>1, <2>2, <2>3
<1>2. /\ UNCHANGED <<main_store, log, srv_ids, forgets, kind_of, calls,
                     accepted, write_buf, c2b>>
      /\ b2c' = Append(b2c, p)
  BY <1>1 DEF BrokerWrites, Ours, lost
<1>3. b2c \in Seq(Incoming)
  BY QueuesNow
<1>4. Answers' \subseteq Answers
  BY <1>1, <1>2, <1>3, AnswersAppend
<1>5. PacketsOf(c2b)' = PacketsOf(c2b)
      /\ PacketsOf(write_buf)' = PacketsOf(write_buf)
  BY <1>2
<1> QED BY <1>2, <1>4, <1>5, UnseenSame

LEMMA ViewStep ==
  ASSUME SessionInv, SessionStep
  PROVE  \/ Unseen \/ SessionLost
         \/ \E e \in CarriedEntries : Begins(e) \/ Leaves(e) \/ Finishes(e)
         \/ \E p \in Outgoing : Arrives(p)
<1> DEFINE View == \/ Unseen \/ SessionLost
                   \/ \E e \in CarriedEntries :
                        Begins(e) \/ Leaves(e) \/ Finishes(e)
                   \/ \E p \in Outgoing : Arrives(p)
<1>1. CASE \/ Opens \/ Stops \/ Breaks \/ EncodesConnect \/ Sends
           \/ TakesConnack \/ BeginsConnack \/ EndsConnack
  BY <1>1, ViewQuiet
<1>2. CASE \E e \in CarriedEntries : Accepts(e) \/ Encodes(e)
  BY <1>2, ViewAccepts, ViewEncodes
<1>3. ASSUME NEW p \in Incoming, NEW k \in Nat, GetsResponse(p, k)
      PROVE  View
  <2>1. Finishes(main_store.entries[k])
    BY <1>3, ViewResponse
  <2>2. main_store.entries[k] \in CarriedEntries
    BY <2>1, RequestingFacts DEF Finishes
  <2> QED BY <2>1, <2>2
<1>4. CASE \E p \in Incoming : GetsPublish(p) \/ GetsPubrel(p)
  BY <1>4, ViewAcknowledges
<1>5. CASE Forgets
  BY <1>5, ViewForgets
<1>6. ASSUME NEW p \in Outgoing,
             \/ BrokerAnswers(p) \/ BrokerIgnores(p)
             \/ \E m \in Inbound :
                  BrokerReleases(p, m) \/ BrokerCompletes(p, m)
      PROVE  View
  BY <1>6, ViewBrokerTakes
<1>7. CASE \E m \in Inbound :
             \/ \E qos \in {1, 2}, id \in InboundIds : SendsFirst(m, qos, id)
             \/ SendsAgain(m) \/ SendsPubrel(m)
  BY <1>7, ViewBrokerSends
<1> QED
  BY <1>1, <1>2, <1>3, <1>4, <1>5, <1>6, <1>7, Zenon
     DEF SessionStep, ClientStep, BrokerStep

-----------------------------------------------------------------------------
(* A packet carries a request of its own kind, a PUBREL a QoS 2 message;   *)
(* requests are numbered as they are accepted.                             *)
Kinded(e) ==
  /\ kind_of[e.val] = IF e.kind = "PUBREL" THEN "PUBLISH_2" ELSE e.kind
  /\ e.val \in Requests /\ e.val <= accepted
KindInv ==
  /\ \A e \in OnPath : e.kind \in RequestCarriers /\ Kinded(e)
  /\ \A r \in Logged : r \in Requests /\ r <= accepted

Counters ==
  /\ accepted \in Nat /\ forgets \in Nat /\ log \in Seq(Requests)
  /\ kind_of \in [Requests -> SessionKinds \cup {"NONE"}]
  /\ calls \in [Requests -> Seq(BOOLEAN)]
  /\ \A r \in Requests : r > accepted => calls[r] = <<>>
  /\ Requests = 1 .. NumRequests /\ NumRequests \in Nat

LEMMA CountersNow ==
  ASSUME SessionInv
  PROVE  Counters
<1>1. accepted \in Nat /\ calls \in [Requests -> Seq(BOOLEAN)]
  BY ClientNow, SizeFacts DEF TypeOK
<1>2. NewUnreported
  BY DEF SessionInv, RequestInv, Ledger
<1> QED BY <1>1, <1>2, SizeFacts
    DEF Counters, SessionInv, BrokerTypes, NewUnreported, Requests

LEMMA LogGrows ==
  ASSUME SessionInv, NEW p, p.val \in Requests,
         log' = Append(log, p.val)
  PROVE  Logged' = Logged \cup {p.val}
BY CountersNow, PacketsAppend DEF Counters, Logged

LEMMA PathHolds ==
  ASSUME SessionInv
  PROVE  /\ Requesting \subseteq OnPath
         /\ \A p \in PacketsOf(c2b) :
              p.kind \in RequestCarriers => p \in OnPath
         /\ \A p \in PacketsOf(c2b) :
              Awaited(p) /\ p.kind \in RequestCarriers => p \in Requesting
         /\ \A p \in Outgoing : Awaited(p) => p.kind \in RequestCarriers
<1>1. \A p \in Outgoing : Awaited(p) => p.kind \in RequestCarriers
  BY CarriedFacts, ConnectFacts DEF Outgoing
<1>2. MarkedIn(main_store) \subseteq StoredIn(main_store)
  BY RequestingFacts
<1> QED BY <1>1, <1>2, PathFacts DEF OnPath, Requesting, Carried

(* What the broker publishes is a request on its way.                      *)
LEMMA PublishedPacket ==
  ASSUME SessionInv, KindInv, NEW p, Arrives(p), Publishes(p)
  PROVE  /\ p \in OnPath /\ Kinded(p)
         /\ p.kind \in {"PUBLISH_0", "PUBLISH_1", "PUBLISH_2"}
         /\ kind_of[p.val] = p.kind
         /\ log' = Append(log, p.val) /\ Logged' = Logged \cup {p.val}
<1>1. /\ p \in PacketsOf(c2b)
      /\ p.kind \in {"PUBLISH_0", "PUBLISH_1", "PUBLISH_2"}
  BY DEF Arrives, Publishes
<1>2. p \in OnPath
  BY <1>1, PathHolds DEF RequestCarriers, RequestKinds
<1>3. Kinded(p) /\ p.val \in Requests
  BY <1>2 DEF KindInv, Kinded
<1>4. log' = Append(log, p.val)
  BY DEF Arrives
<1> QED BY <1>1, <1>2, <1>3, <1>4, LogGrows DEF Kinded

LEMMA KindKept ==
  ASSUME SessionInv, KindInv, SessionStep
  PROVE  KindInv'
<1>0. /\ accepted \in Nat /\ Requests = 1 .. NumRequests
      /\ kind_of \in [Requests -> SessionKinds \cup {"NONE"}]
  BY CountersNow DEF Counters
<1>a. ASSUME UNCHANGED <<kind_of, accepted>>, OnPath' \subseteq OnPath,
             \A r \in Logged' : r \in Logged \/
               \E p \in OnPath : r = p.val
      PROVE  KindInv'
  BY <1>a DEF KindInv, Kinded
<1>1. CASE Unseen \/ SessionLost
  BY <1>1, <1>a DEF Unseen, SessionLost, Logged
<1>2. ASSUME NEW e \in CarriedEntries, Begins(e)
      PROVE  KindInv'
  <2>1. /\ e.kind \in SessionKinds /\ e.val = accepted + 1
        /\ accepted' = accepted + 1 /\ log' = log
        /\ kind_of' = [kind_of EXCEPT ![accepted + 1] = e.kind]
        /\ OnPath' \subseteq OnPath \cup {e}
    BY <1>2 DEF Begins
  <2>2. e.kind \in RequestCarriers /\ e.kind # "PUBREL" /\ e.val \in Requests
    BY <2>1, SessionFacts, CarriedFacts DEF RequestKinds
  <2>3. \A r \in Requests : r <= accepted => /\ kind_of'[r] = kind_of[r]
                                             /\ r <= accepted + 1
    BY <1>0, <2>1
  <2>4. kind_of'[e.val] = e.kind /\ accepted + 1 <= accepted + 1
    BY <1>0, <2>1, <2>2
  <2>5. ASSUME NEW x \in OnPath
        PROVE  x.kind \in RequestCarriers /\ Kinded(x)'
    BY <2>1, <2>3 DEF KindInv, Kinded
  <2>6. Kinded(e)'
    BY <2>1, <2>2, <2>4 DEF Kinded
  <2>7. \A r \in Logged' : r \in Requests /\ r <= accepted'
    BY <2>1, <2>3 DEF KindInv, Logged
  <2> QED BY <2>1, <2>2, <2>5, <2>6, <2>7 DEF KindInv
<1>3. ASSUME NEW e, Leaves(e)
      PROVE  KindInv'
  BY <1>3, <1>a DEF Leaves, Logged
<1>4. ASSUME NEW e, Finishes(e)
      PROVE  KindInv'
  <2>1. /\ e \in OnPath /\ e \in CarriedEntries
        /\ UNCHANGED <<kind_of, accepted, log>>
        /\ OnPath' \subseteq OnPath \cup Successor(e)
    BY <1>4, PathHolds, RequestingFacts DEF Finishes
  <2>2. ASSUME NEW x \in Successor(e)
        PROVE  x.kind \in RequestCarriers /\ Kinded(x)
    <3>1. e.kind = "PUBLISH_2" /\ x = PubrelFor(e)
      BY DEF Successor
    <3>2. x.kind = "PUBREL" /\ x.val = e.val
      BY <2>1, <3>1, PubrelType
    <3> QED BY <2>1, <3>1, <3>2 DEF KindInv, Kinded, RequestCarriers
  <2> QED BY <2>1, <2>2 DEF KindInv, Kinded, Logged
<1>5. ASSUME NEW p, Arrives(p)
      PROVE  KindInv'
  <2>1. UNCHANGED <<kind_of, accepted>> /\ OnPath' \subseteq OnPath
    BY <1>5 DEF Arrives
  <2>2. CASE Publishes(p)
    BY <1>a, <1>5, <2>1, <2>2, PublishedPacket
  <2>3. CASE ~Publishes(p)
    BY <1>a, <1>5, <2>1, <2>3 DEF Arrives, Logged
  <2> QED BY <2>2, <2>3
<1> QED BY <1>1, <1>2, <1>3, <1>4, <1>5, ViewStep

(* The request whose SUBACK has only begun.                                *)
HalfInv == \A r \in Halved : kind_of[r] = "SUBSCRIBE" /\ r <= accepted

LEMMA KindsStay ==
  ASSUME SessionInv, SessionStep, NEW r \in Nat, r <= accepted
  PROVE  kind_of'[r] = kind_of[r] /\ r <= accepted'
<1>1. CASE UNCHANGED <<kind_of, accepted>>
  BY <1>1
<1>2. ASSUME NEW e, Begins(e)
      PROVE  kind_of'[r] = kind_of[r] /\ r <= accepted'
  <2>1. /\ accepted \in Nat /\ accepted' = accepted + 1
        /\ kind_of' = [kind_of EXCEPT ![accepted + 1] = e.kind]
        /\ kind_of \in [Requests -> SessionKinds \cup {"NONE"}]
    BY <1>2, CountersNow DEF Begins, Counters
  <2>2. r # accepted + 1 /\ r <= accepted + 1
    BY <2>1
  <2> QED BY <2>1, <2>2
<1> QED
  BY <1>1, <1>2, ViewStep
     DEF Unseen, SessionLost, Leaves, Finishes, Arrives

LEMMA HalfKept ==
  ASSUME SessionInv, KindInv, HalfInv, SNext
  PROVE  HalfInv'
<1> SUFFICES ASSUME NEW r \in Halved'
             PROVE  kind_of'[r] = "SUBSCRIBE" /\ r <= accepted'
  BY DEF HalfInv
<1>1. ~closed' /\ rx_value'.kind = "SUBSCRIBE" /\ r = rx_value'.val
  BY DEF Halved
<1>2. SessionStep /\ RunsOn
  BY NextIsStep, StepRuns
<1>3. ASSUME r \in Nat, kind_of[r] = "SUBSCRIBE", r <= accepted
      PROVE  kind_of'[r] = "SUBSCRIBE" /\ r <= accepted'
  BY <1>2, <1>3, KindsStay
<1>4. rx_value'.kind # "NONE"
  BY <1>1
<1>5. CASE ~closed /\ UNCHANGED rx_value
  <2>1. r \in Halved
    BY <1>1, <1>5 DEF Halved
  <2>2. rx_value \in CarriedEntries /\ rx_value.kind = "SUBSCRIBE"
    BY <1>1, <1>5, ClientNow, ConnectFacts DEF Halves, NoEntry
  <2>3. r \in Nat
    BY <1>1, <1>5, <2>2, CarriedFacts, SizeFacts
       DEF RequestCarriers, RequestKinds, Requests
  <2> QED BY <1>3, <2>1, <2>3 DEF HalfInv
<1>6. CASE ReceivePart
  <2>1. PICK k \in 1 .. Count(main_store) :
          rx_value' = main_store.entries[k]
    BY <1>1, <1>6, PartStep, ConnectFacts
  <2> DEFINE e == main_store.entries[k]
  <2>2. e \in Requesting
    <3>1. e \in StoredIn(main_store)
      BY <2>1, MainKept DEF StoredIn, PacketsOf
    <3> QED BY <1>1, <2>1, <3>1
               DEF Requesting, Carried, RequestCarriers, RequestKinds
  <2>3. Kinded(e)
    BY <2>2, PathHolds DEF KindInv
  <2> QED BY <1>1, <1>3, <2>1, <2>3, SizeFacts DEF Kinded, Requests
<1> QED BY <1>1, <1>2, <1>4, <1>5, <1>6 DEF RunsOn, NoEntry

-----------------------------------------------------------------------------
(* What the broker has published.  A QoS 2 message that is stored has been *)
(* published if the broker has its id, and otherwise only for sessions     *)
(* that it has lost; a message with its PUBREL or an answer has been       *)
(* published; the broker has only ids of messages that are stored, and     *)
(* none of those whose PUBREL it has answered.                             *)
MessagePublished(e) ==
  /\ e.kind = "PUBLISH_2" =>
       IF e.id \in srv_ids THEN e.val \in Logged
                           ELSE OccursIn(log, e.val) <= forgets
  /\ e.kind = "PUBREL" => e.val \in Logged
AnswerPublished(e, p) ==
  /\ p.kind = e.kind /\ p.id = e.id
  /\ e.kind \in {"PUBLISH_1", "PUBLISH_2"}
  => e.val \in Logged
IdStored(id) ==
  \E e \in Requesting : e.id = id /\ e.kind \in {"PUBLISH_2", "PUBREL"}
PublishedOnce ==
  \A r \in Requests :
    kind_of[r] = "PUBLISH_2" => OccursIn(log, r) <= 1 + forgets
ReportedPublished ==
  \A r \in Requests :
    kind_of[r] \in {"PUBLISH_1", "PUBLISH_2"} /\ calls[r] # <<>> =>
      r \in Logged
OutInv ==
  /\ \A e \in Requesting : MessagePublished(e)
  /\ \A e \in Requesting, p \in Answers : AnswerPublished(e, p)
  /\ \A id \in srv_ids : IdStored(id)
  /\ \A p \in Answers : p.kind = "PUBREL" => p.id \notin srv_ids
  /\ PublishedOnce /\ ReportedPublished

LEMMA OutUnseen ==
  ASSUME OutInv, HalfInv, Unseen
  PROVE  OutInv'
<1>1. calls' \in {calls, Reported(calls, Halved, TRUE)} /\ UNCHANGED kind_of
  BY DEF Unseen
<1>2. ASSUME NEW r, kind_of[r] # "SUBSCRIBE"
      PROVE  Reported(calls, Halved, TRUE)[r] = calls[r] \/ r \notin Requests
  BY <1>2, Zenon DEF HalfInv, Reported
<1>3. ASSUME NEW r \in Requests, kind_of[r] \in {"PUBLISH_1", "PUBLISH_2"}
      PROVE  calls'[r] = calls[r]
  BY <1>1, <1>2, <1>3
<1>4. ReportedPublished'
  <2>1. UNCHANGED <<log, kind_of>> /\ ReportedPublished
    BY DEF Unseen, OutInv
  <2> QED BY <1>3, <2>1 DEF ReportedPublished, Logged
<1> QED
  BY <1>4 DEF OutInv, Unseen, MessagePublished, AnswerPublished, IdStored,
              PublishedOnce, Logged

(* The broker loses the session, and what it will publish again with it.   *)
LEMMA OutLost ==
  ASSUME SessionInv, KindInv, OutInv, SessionLost
  PROVE  OutInv'
<1>0. /\ Requesting' = Requesting /\ Answers' = {} /\ srv_ids' = {}
      /\ forgets' = forgets + 1 /\ forgets \in Nat
      /\ UNCHANGED <<log, kind_of, calls>>
      /\ \A r : OccursIn(log, r) \in Nat
  BY CountersNow, OccursFacts DEF SessionLost, Counters
<1>1. \A e \in Requesting' : MessagePublished(e)'
  <2> SUFFICES ASSUME NEW e \in Requesting
               PROVE  MessagePublished(e)'
    BY <1>0
  <2>1. CASE e.kind = "PUBLISH_2"
    <3>1. e \in OnPath /\ e.val \in Requests
      BY PathHolds, RequestingFacts
    <3>2. kind_of[e.val] = "PUBLISH_2"
      BY <2>1, <3>1 DEF KindInv, Kinded
    <3>3. OccursIn(log, e.val) <= 1 + forgets
      BY <3>1, <3>2 DEF OutInv, PublishedOnce
    <3>4. OccursIn(log', e.val) <= forgets'
      BY <1>0, <3>3
    <3> QED BY <1>0, <2>1, <3>4 DEF MessagePublished
  <2>2. CASE e.kind # "PUBLISH_2"
    BY <1>0, <2>2 DEF OutInv, MessagePublished, Logged
  <2> QED BY <2>1, <2>2
<1>2. PublishedOnce'
  <2>1. ASSUME NEW r \in Requests, kind_of[r] = "PUBLISH_2"
        PROVE  OccursIn(log, r) <= 1 + (forgets + 1)
    BY <1>0, <2>1 DEF OutInv, PublishedOnce
  <2> QED BY <1>0, <2>1 DEF PublishedOnce
<1>3. ReportedPublished'
  BY <1>0 DEF OutInv, ReportedPublished, Logged
<1> QED BY <1>0, <1>1, <1>2, <1>3 DEF OutInv

(* A new request has a packet id that no other one has, and the broker has *)
(* not seen it.                                                            *)
LEMMA OutBegins ==
  ASSUME SessionInv, KindInv, OutInv, NEW e, Begins(e),
         DistinctIds(Requesting')
  PROVE  OutInv'
<1>0. /\ e \in CarriedEntries /\ e.kind \in SessionKinds
      /\ e.val = accepted + 1
      /\ kind_of' = [kind_of EXCEPT ![accepted + 1] = e.kind]
      /\ Requesting' = Requesting \cup {e} /\ Answers' \subseteq Answers
      /\ UNCHANGED <<log, srv_ids, forgets, calls>>
  BY DEF Begins
<1>1. /\ accepted \in Nat /\ forgets \in Nat /\ log \in Seq(Requests)
      /\ calls[accepted + 1] = <<>>
      /\ \A r \in Requests :
           kind_of'[r] = IF r = accepted + 1 THEN e.kind ELSE kind_of[r]
  <2>1. /\ accepted \in Nat /\ forgets \in Nat /\ log \in Seq(Requests)
        /\ \A r \in Requests : r > accepted => calls[r] = <<>>
        /\ kind_of \in [Requests -> SessionKinds \cup {"NONE"}]
    BY CountersNow DEF Counters
  <2>2. accepted + 1 \in Requests /\ accepted + 1 > accepted
    BY <1>0, <2>1, SessionFacts, CarriedFacts
  <2> QED BY <1>0, <2>1, <2>2
<1>2. accepted + 1 \notin Logged /\ \A x \in Requesting : x # e
  <2>1. \A r : r <= accepted => r # accepted + 1
    BY <1>1
  <2>2. \A r \in Logged : r <= accepted
    BY DEF KindInv
  <2>3. \A x \in Requesting : x.val <= accepted
    BY RequestingFacts
  <2> QED BY <1>0, <2>1, <2>2, <2>3
<1>3. ASSUME e.kind # "PUBLISH_0"
      PROVE  \A x \in Requesting : x.kind # "PUBLISH_0" => x.id # e.id
  BY <1>0, <1>2, <1>3 DEF DistinctIds
<1>4. OccursIn(log, accepted + 1) = 0
  BY <1>1, <1>2, OccursFacts DEF Logged
<1>5. \A x \in Requesting' : MessagePublished(x)'
  <2>1. \A x \in Requesting : MessagePublished(x)'
    BY <1>0 DEF OutInv, MessagePublished, Logged
  <2>2. MessagePublished(e)'
    <3>1. e.kind # "PUBREL"
      BY <1>0, SessionFacts DEF RequestKinds
    <3>2. ASSUME e.kind = "PUBLISH_2"
          PROVE  e.id \notin srv_ids
      BY <1>3, <3>2 DEF OutInv, IdStored
    <3>3. OccursIn(log', e.val) <= forgets'
      BY <1>0, <1>1, <1>4
    <3> QED BY <1>0, <3>1, <3>2, <3>3 DEF MessagePublished
  <2> QED BY <1>0, <2>1, <2>2
<1>6. ASSUME NEW x \in Requesting', NEW p \in Answers'
      PROVE  AnswerPublished(x, p)'
  <2>1. CASE x \in Requesting
    BY <1>0, <2>1 DEF OutInv, AnswerPublished, Logged
  <2>2. CASE x = e
    <3>1. PICK y \in MarkedIn(main_store) : y.kind = p.kind /\ y.id = p.id
      BY <1>0, PathFacts
    <3>2. ASSUME e.kind \in {"PUBLISH_1", "PUBLISH_2"}, p.kind = e.kind,
                 p.id = e.id
          PROVE  FALSE
      <4>1. y \in Requesting
        BY <3>1, <3>2, RequestingFacts
           DEF Requesting, Carried, RequestCarriers, RequestKinds
      <4> QED BY <1>3, <3>1, <3>2, <4>1
    <3> QED BY <2>2, <3>2 DEF AnswerPublished
  <2> QED BY <1>0, <2>1, <2>2
<1>7. \A id \in srv_ids' : IdStored(id)'
  BY <1>0 DEF OutInv, IdStored
<1>8. \A p \in Answers' : p.kind = "PUBREL" => p.id \notin srv_ids'
  BY <1>0 DEF OutInv
<1>9. PublishedOnce'
  <2> SUFFICES ASSUME NEW r \in Requests, kind_of'[r] = "PUBLISH_2"
               PROVE  OccursIn(log, r) <= 1 + forgets
    BY <1>0 DEF PublishedOnce
  <2>1. CASE r = accepted + 1
    BY <1>1, <1>4, <2>1
  <2>2. CASE r # accepted + 1
    BY <1>1, <2>2 DEF OutInv, PublishedOnce
  <2> QED BY <2>1, <2>2
<1>10. ReportedPublished'
  <2> SUFFICES ASSUME NEW r \in Requests, calls[r] # <<>>,
                      kind_of'[r] \in {"PUBLISH_1", "PUBLISH_2"}
               PROVE  r \in Logged
    BY <1>0 DEF ReportedPublished, Logged
  <2>1. kind_of'[r] = kind_of[r]
    BY <1>1
  <2> QED BY <2>1 DEF OutInv, ReportedPublished
<1> QED BY <1>5, <1>6, <1>7, <1>8, <1>9, <1>10 DEF OutInv

(* A callback is called: of an encoded QoS 0 message, or of an answered    *)
(* request.                                                                *)
LEMMA ReportedKept ==
  ASSUME SessionInv, ReportedPublished, UNCHANGED <<log, kind_of>>,
         NEW v \in Requests, calls' \in {calls, Reported(calls, {v}, TRUE)},
         kind_of[v] \in {"PUBLISH_1", "PUBLISH_2"} /\ calls' # calls =>
           v \in Logged
  PROVE  ReportedPublished'
<1> SUFFICES ASSUME NEW r \in Requests, calls'[r] # <<>>,
                    kind_of[r] \in {"PUBLISH_1", "PUBLISH_2"}
             PROVE  r \in Logged
  BY DEF ReportedPublished, Logged
<1>1. CASE calls'[r] = calls[r]
  BY <1>1 DEF ReportedPublished
<1>2. CASE calls'[r] # calls[r]
  <2>1. calls' = Reported(calls, {v}, TRUE)
    BY <1>2
  <2>2. r = v
    BY <1>2, <2>1, Zenon DEF Reported
  <2> QED BY <1>2, <2>2
<1> QED BY <1>1, <1>2

LEMMA OutLeaves ==
  ASSUME SessionInv, KindInv, OutInv, NEW e, Leaves(e)
  PROVE  OutInv'
<1>0. /\ e \in Requesting /\ e.kind = "PUBLISH_0"
      /\ Requesting' \subseteq Requesting
      /\ Requesting \subseteq Requesting' \cup {e}
      /\ Answers' \subseteq Answers
      /\ calls' = Reported(calls, {e.val}, TRUE)
      /\ UNCHANGED <<log, srv_ids, forgets, kind_of>>
  BY DEF Leaves
<1>1. \A x \in Requesting' : MessagePublished(x)'
  BY <1>0 DEF OutInv, MessagePublished, Logged
<1>2. \A x \in Requesting', p \in Answers' : AnswerPublished(x, p)'
  BY <1>0 DEF OutInv, AnswerPublished, Logged
<1>3. \A id \in srv_ids' : IdStored(id)'
  BY <1>0 DEF OutInv, IdStored
<1>4. \A p \in Answers' : p.kind = "PUBREL" => p.id \notin srv_ids'
  BY <1>0 DEF OutInv
<1>5. PublishedOnce'
  BY <1>0 DEF OutInv, PublishedOnce
<1>6. ReportedPublished'
  <2>1. kind_of[e.val] = "PUBLISH_0" /\ e.val \in Requests
    BY <1>0, PathHolds DEF KindInv, Kinded
  <2> QED BY <1>0, <2>1, ReportedKept DEF OutInv
<1> QED BY <1>1, <1>2, <1>3, <1>4, <1>5, <1>6 DEF OutInv

LEMMA OutFinishes ==
  ASSUME SessionInv, KindInv, OutInv, NEW e, Finishes(e),
         DistinctIds(Requesting)
  PROVE  OutInv'
<1>0. /\ e \in Requesting /\ e.val \in Requests /\ e \in CarriedEntries
      /\ Requesting' \subseteq Requesting \cup Successor(e)
      /\ Successor(e) \subseteq Requesting'
      /\ Requesting \subseteq Requesting' \cup {e}
      /\ Answers' \subseteq Answers
      /\ calls' \in {calls, Reported(calls, {e.val}, TRUE)}
      /\ UNCHANGED <<log, srv_ids, forgets, kind_of>>
  BY RequestingFacts DEF Finishes
<1>1. PICK p \in Answers : p.kind = e.kind /\ p.id = e.id
  BY DEF Finishes
<1>2. e.kind \in {"PUBLISH_1", "PUBLISH_2"} => e.val \in Logged
  BY <1>0, <1>1 DEF OutInv, AnswerPublished
<1>3. ASSUME NEW x \in Successor(e)
      PROVE  /\ e.kind = "PUBLISH_2" /\ x.kind = "PUBREL"
             /\ x.id = e.id /\ x.val = e.val
  <2>1. e.kind = "PUBLISH_2" /\ x = PubrelFor(e)
    BY DEF Successor
  <2> QED BY <1>0, <2>1, PubrelType
<1>4. \A x \in Requesting' : MessagePublished(x)'
  BY <1>0, <1>2, <1>3 DEF OutInv, MessagePublished, Logged
<1>5. \A x \in Requesting', q \in Answers' : AnswerPublished(x, q)'
  BY <1>0, <1>3 DEF OutInv, AnswerPublished, Logged
<1>6. ASSUME NEW id \in srv_ids'
      PROVE  IdStored(id)'
  <2>1. PICK x \in Requesting : x.id = id /\ x.kind \in {"PUBLISH_2", "PUBREL"}
    BY <1>0 DEF OutInv, IdStored
  <2>2. CASE x # e
    BY <1>0, <2>1, <2>2 DEF IdStored
  <2>3. CASE x = e
    <3>1. e.kind # "PUBREL"
      BY <1>0, <1>1, <2>1, <2>3 DEF OutInv
    <3>2. PICK y \in Successor(e) : TRUE
      BY <2>1, <2>3, <3>1 DEF Successor
    <3> QED BY <1>0, <1>3, <2>1, <2>3, <3>2 DEF IdStored
  <2> QED BY <2>2, <2>3
<1>7. \A q \in Answers' : q.kind = "PUBREL" => q.id \notin srv_ids'
  BY <1>0 DEF OutInv
<1>8. PublishedOnce'
  BY <1>0 DEF OutInv, PublishedOnce
<1>9. ReportedPublished'
  <2>1. ASSUME kind_of[e.val] \in {"PUBLISH_1", "PUBLISH_2"}, calls' # calls
        PROVE  e.val \in Logged
    <3>1. e.kind \in {"PUBLISH_1", "PUBLISH_2", "PUBREL"}
      <4>1. kind_of[e.val] = IF e.kind = "PUBREL" THEN "PUBLISH_2" ELSE e.kind
        BY <1>0, PathHolds DEF KindInv, Kinded
      <4> QED BY <1>0, <2>1, <4>1
    <3> QED BY <1>0, <1>2, <3>1 DEF OutInv, MessagePublished
  <2> QED BY <1>0, <2>1, ReportedKept DEF OutInv
<1> QED BY <1>4, <1>5, <1>6, <1>7, <1>8, <1>9 DEF OutInv

(* The broker takes a packet.                                              *)
LEMMA OutArrives ==
  ASSUME SessionInv, KindInv, OutInv, NEW p, Arrives(p),
         DistinctIds(Requesting)
  PROVE  OutInv'
<1>0. /\ p \in PacketsOf(c2b) /\ p \in Outgoing
      /\ Requesting' = Requesting
      /\ Answers' \subseteq Answers \cup
                              (IF Awaited(p) THEN {Response(p)} ELSE {})
      /\ log' = IF Publishes(p) THEN Append(log, p.val) ELSE log
      /\ srv_ids' = IF p.kind = "PUBLISH_2" THEN srv_ids \cup {p.id}
                    ELSE IF p.kind = "PUBREL" THEN srv_ids \ {p.id}
                    ELSE srv_ids
      /\ UNCHANGED <<forgets, kind_of, calls>>
      /\ forgets \in Nat /\ log \in Seq(Requests)
  BY CountersNow DEF Arrives, Counters
<1>1. Awaited(p) => p \in Requesting
  BY <1>0, PathHolds
<1>2. /\ p.kind \in {"PUBLISH_1", "PUBLISH_2", "PUBREL"} => Awaited(p)
      /\ p.kind \in {"PUBLISH_0", "PUBLISH_1"} => Publishes(p)
      /\ p.kind = "PUBLISH_2" => (Publishes(p) <=> p.id \notin srv_ids)
      /\ Publishes(p) => p.kind \in {"PUBLISH_0", "PUBLISH_1", "PUBLISH_2"}
  BY DEF Awaited, ResponseKinds, Publishes
<1>3. Publishes(p) =>
        /\ kind_of[p.val] = p.kind /\ p.val \in Requests
        /\ Logged' = Logged \cup {p.val}
  BY PublishedPacket DEF Kinded
<1>4. Logged \subseteq Logged' /\ (~Publishes(p) => Logged' = Logged)
  BY <1>0, <1>3 DEF Logged
<1>5. \A r : OccursIn(log, r) \in Nat
  BY <1>0, OccursFacts
<1>6. ASSUME NEW r, ~Publishes(p) \/ p.val # r
      PROVE  OccursIn(log', r) = OccursIn(log, r)
  BY <1>0, <1>3, <1>6, OccursAppend
<1>7. ASSUME Publishes(p)
      PROVE  OccursIn(log', p.val) = OccursIn(log, p.val) + 1
  BY <1>0, <1>3, <1>7, OccursAppend
<1>8. p.kind = "PUBLISH_2" => p.val \in Logged'
  <2> SUFFICES ASSUME p.kind = "PUBLISH_2", ~Publishes(p)
               PROVE  p.val \in Logged
    BY <1>3, <1>4
  <2>1. p \in Requesting /\ p.id \in srv_ids
    BY <1>1, <1>2
  <2> QED BY <2>1 DEF OutInv, MessagePublished
<1>9. ASSUME NEW e \in Requesting
      PROVE  MessagePublished(e)'
  <2>0. MessagePublished(e)
    BY DEF OutInv
  <2>1. CASE e.kind = "PUBLISH_2"
    <3>1. CASE p.kind \in {"PUBLISH_2", "PUBREL"} /\ p.id = e.id
      <4>1. p = e
        BY <1>1, <1>2, <2>1, <3>1 DEF DistinctIds
      <4>2. e.val \in Logged' /\ e.id \in srv_ids'
        BY <1>0, <1>8, <2>1, <4>1
      <4> QED BY <2>1, <4>2 DEF MessagePublished
    <3>2. CASE ~(p.kind \in {"PUBLISH_2", "PUBREL"} /\ p.id = e.id)
      <4>1. e.id \in srv_ids' <=> e.id \in srv_ids
        BY <1>0, <3>2
      <4>2. ASSUME Publishes(p)
            PROVE  p.val # e.val
        <5>1. kind_of[e.val] = "PUBLISH_2"
          BY <2>1, PathHolds DEF KindInv, Kinded
        <5>2. ASSUME p.val = e.val
              PROVE  FALSE
          <6>1. p.kind = "PUBLISH_2"
            BY <1>3, <4>2, <5>1, <5>2
          <6>2. p = e
            BY <1>1, <1>2, <5>2, <6>1, RequestingFacts
          <6> QED BY <3>2, <6>1, <6>2
        <5> QED BY <5>2
      <4>3. OccursIn(log', e.val) = OccursIn(log, e.val)
        BY <1>6, <4>2
      <4> QED BY <1>0, <1>4, <2>0, <2>1, <4>1, <4>3 DEF MessagePublished
    <3> QED BY <3>1, <3>2
  <2>2. CASE e.kind # "PUBLISH_2"
    BY <1>4, <2>0, <2>2 DEF MessagePublished
  <2> QED BY <2>1, <2>2
<1>10. ASSUME NEW e \in Requesting, NEW q \in Answers'
       PROVE  AnswerPublished(e, q)'
  <2>1. CASE q \in Answers
    BY <1>4, <2>1 DEF OutInv, AnswerPublished
  <2>2. CASE q \notin Answers
    <3>1. Awaited(p) /\ q.kind = p.kind /\ q.id = p.id
      BY <1>0, <2>2 DEF Response, Packet
    <3>2. ASSUME q.kind = e.kind, q.id = e.id,
                 e.kind \in {"PUBLISH_1", "PUBLISH_2"}
          PROVE  e.val \in Logged'
      <4>1. p = e
        BY <1>1, <3>1, <3>2 DEF DistinctIds
      <4> QED BY <1>2, <1>3, <1>8, <3>2, <4>1
    <3> QED BY <3>2 DEF AnswerPublished
  <2> QED BY <2>1, <2>2
<1>11. ASSUME NEW id \in srv_ids'
       PROVE  IdStored(id)'
  <2>1. id \in srv_ids \/ (p.kind = "PUBLISH_2" /\ id = p.id)
    BY <1>0
  <2>2. IdStored(id)
    BY <1>1, <1>2, <2>1 DEF OutInv, IdStored
  <2> QED BY <1>0, <2>2 DEF IdStored
<1>12. ASSUME NEW q \in Answers', q.kind = "PUBREL", q.id \in srv_ids'
       PROVE  FALSE
  <2>1. CASE q \in Answers
    <3>1. q.id \notin srv_ids
      BY <1>12, <2>1 DEF OutInv
    <3>2. p.kind = "PUBLISH_2" /\ p.id = q.id
      BY <1>0, <1>12, <3>1
    <3>3. PICK y \in MarkedIn(main_store) : y.kind = q.kind /\ y.id = q.id
      BY <2>1, PathFacts
    <3>4. y \in Requesting
      BY <1>12, <3>3, RequestingFacts DEF Requesting, Carried, RequestCarriers
    <3>5. p = y
      BY <1>1, <1>2, <1>12, <3>2, <3>3, <3>4 DEF DistinctIds
    <3> QED BY <1>12, <3>2, <3>3, <3>5
  <2>2. CASE q \notin Answers
    <3>1. Awaited(p) /\ q.kind = p.kind /\ q.id = p.id
      BY <1>0, <2>2 DEF Response, Packet
    <3> QED BY <1>0, <1>12, <3>1
  <2> QED BY <2>1, <2>2
<1>13. ASSUME NEW r \in Requests, kind_of[r] = "PUBLISH_2"
       PROVE  OccursIn(log', r) <= 1 + forgets
  <2>0. OccursIn(log, r) <= 1 + forgets
    BY <1>13 DEF OutInv, PublishedOnce
  <2>1. CASE ~Publishes(p) \/ p.val # r
    BY <1>6, <2>0, <2>1
  <2>2. CASE Publishes(p) /\ p.val = r
    <3>1. p.kind = "PUBLISH_2"
      BY <1>3, <1>13, <2>2
    <3>2. OccursIn(log, r) <= forgets
      BY <1>1, <1>2, <2>2, <3>1 DEF OutInv, MessagePublished
    <3> QED BY <1>0, <1>5, <1>7, <2>2, <3>2
  <2> QED BY <2>1, <2>2
<1>14. PublishedOnce'
  BY <1>0, <1>13 DEF PublishedOnce
<1>15. ReportedPublished'
  BY <1>0, <1>4 DEF OutInv, ReportedPublished
<1> QED BY <1>0, <1>9, <1>10, <1>11, <1>12, <1>14, <1>15 DEF OutInv

LEMMA NextPublished ==
  ASSUME SessionInv, KindInv, HalfInv, OutInv, IdsDistinct, IdsDistinct',
         [SNext]_svars
  PROVE  KindInv' /\ HalfInv' /\ OutInv'
<1>1. CASE SNext
  <2>1. SessionStep /\ SessionInv'
    BY <1>1, NextIsStep
  <2>2. KindInv'
    BY <2>1, KindKept
  <2>3. DistinctIds(Requesting)
    BY IdsInStore DEF IdsDistinct, Requesting
  <2>4. DistinctIds(Requesting)'
    BY IdsInStore DEF IdsDistinct, Requesting
  <2>5. OutInv'
    BY <2>1, <2>3, <2>4, ViewStep, OutUnseen, OutLost, OutBegins, OutLeaves,
       OutFinishes, OutArrives
  <2>6. HalfInv'
    BY <1>1, HalfKept
  <2> QED BY <2>2, <2>5, <2>6
<1>2. CASE UNCHANGED svars
  <2>1. UNCHANGED <<main_store, write_buf, c2b, b2c, log, srv_ids, forgets,
                    kind_of, calls, accepted, closed, rx_value>>
    BY <1>2
       DEF svars, net, broker, lost, vars, state, stores, txs, history
  <2>2. Requesting' = Requesting /\ OnPath' = OnPath /\ Answers' = Answers
    BY <2>1 DEF Requesting, OnPath, Answers
  <2>3. Unseen
    BY <2>1, <2>2 DEF Unseen
  <2>4. KindInv'
    BY <2>1, <2>2 DEF KindInv, Kinded, Logged
  <2>5. HalfInv'
    BY <2>1 DEF HalfInv, Halved
  <2> QED BY <2>3, <2>4, <2>5, OutUnseen
<1> QED BY <1>1, <1>2

LEMMA InitPublished == SInit => KindInv /\ HalfInv /\ OutInv
<1> SUFFICES ASSUME SInit PROVE KindInv /\ HalfInv /\ OutInv
  OBVIOUS
<1>1. /\ main_store.entries = <<>> /\ c2b = <<>> /\ b2c = <<>>
      /\ write_buf = <<>> /\ srv_ids = {} /\ log = <<>> /\ forgets = 0
      /\ kind_of = [r \in Requests |-> "NONE"]
  BY DEF SInit, Init, EmptyStore
<1>2. PacketsOf(<<>>) = {}
  BY PacketsEmpty
<1>3. Requesting = {} /\ OnPath = {} /\ Answers = {} /\ Logged = {}
  BY <1>1, <1>2
     DEF Requesting, OnPath, Answers, Logged, Carried, StoredIn
<1>4. \A r \in Requests : kind_of[r] = "NONE"
  BY <1>1
<1>5. HalfInv
  BY DEF HalfInv, Halved, SInit, Init, NoEntry
<1> QED BY <1>1, <1>3, <1>4, <1>5
    DEF KindInv, OutInv, PublishedOnce, ReportedPublished

LEMMA PublishedNow ==
  ASSUME SessionInv, OutInv
  PROVE  OutAtMostOnce /\ SuccessIsPublished
<1>1. \A r : Occurrences(r) = OccursIn(log, r)
  BY DEF Occurrences, OccursIn
<1>2. OutAtMostOnce
  BY <1>1 DEF OutInv, PublishedOnce, OutAtMostOnce
<1>3. ASSUME NEW r \in Requests, calls[r] = <<TRUE>>,
             kind_of[r] \in {"PUBLISH_1", "PUBLISH_2"}
      PROVE  Occurrences(r) >= 1
  <2>1. calls[r] # <<>>
    BY <1>3
  <2>2. r \in Logged
    BY <1>3, <2>1 DEF OutInv, ReportedPublished
  <2>3. log \in Seq(Requests)
    BY CountersNow DEF Counters
  <2> QED BY <1>1, <2>2, <2>3, OccursFacts DEF Logged
<1> QED BY <1>2, <1>3 DEF SuccessIsPublished

(* As long as no two requests in main_store have the same packet id (the   *)
(* client counts the ids and does not look), the broker publishes a QoS 2  *)
(* message no more than once, and once more for each session that it has   *)
(* lost: rx_buffer_finish_packet turns the entry into a PUBREL in time,    *)
(* and client_cleanup_stores keeps it over a break.                        *)
THEOREM PublishedAtMostOnce == SSpec /\ []IdsDistinct => []OutAtMostOnce
<1>1. SInit => SessionInv /\ KindInv /\ HalfInv /\ OutInv
  BY InitSession, InitPublished
<1>2. /\ SessionInv /\ KindInv /\ HalfInv /\ OutInv
      /\ IdsDistinct /\ IdsDistinct' /\ [SNext]_svars
      => (SessionInv /\ KindInv /\ HalfInv /\ OutInv)'
  BY NextSession, NextPublished
<1>3. SessionInv /\ OutInv => OutAtMostOnce
  BY PublishedNow
<1> QED BY <1>1, <1>2, <1>3, PTL DEF SSpec

(* Under the same condition a callback that reports a QoS 1 or QoS 2       *)
(* message as successful tells the truth: the broker has published it      *)
(* (rx_buffer_pop_packet, client_on_publish).                              *)
THEOREM SuccessMeansPublished == SSpec /\ []IdsDistinct => []SuccessIsPublished
<1>1. SInit => SessionInv /\ KindInv /\ HalfInv /\ OutInv
  BY InitSession, InitPublished
<1>2. /\ SessionInv /\ KindInv /\ HalfInv /\ OutInv
      /\ IdsDistinct /\ IdsDistinct' /\ [SNext]_svars
      => (SessionInv /\ KindInv /\ HalfInv /\ OutInv)'
  BY NextSession, NextPublished
<1>3. SessionInv /\ OutInv => SuccessIsPublished
  BY PublishedNow
<1> QED BY <1>1, <1>2, <1>3, PTL DEF SSpec

-----------------------------------------------------------------------------
(* The order of messages: in the queues, and in the log.                   *)
Pub(e) == e.kind \in {"PUBLISH_0", "PUBLISH_1", "PUBLISH_2"}
RisingPubs(q) ==
  \A i, j \in 1 .. Len(q) :
    i < j /\ Pub(q[i]) /\ Pub(q[j]) => q[i].val < q[j].val
Precede(S, T) ==
  \A x \in S, y \in T : Pub(x) /\ Pub(y) => x.val < y.val
FirstsInOrder(l) ==
  \A i \in 1 .. Len(l) :
    (\A k \in 1 .. i - 1 : l[k] # l[i]) => \A k \in 1 .. i - 1 : l[k] < l[i]

LEMMA RisingTail ==
  ASSUME NEW E, NEW q \in Seq(E), q # <<>>, RisingPubs(q)
  PROVE  RisingPubs(Tail(q)) /\ Precede({Head(q)}, PacketsOf(Tail(q)))
<1> DEFINE t == Tail(q)
<1>1. /\ Len(q) \in Nat /\ Len(q) >= 1 /\ Len(t) = Len(q) - 1
      /\ \A i \in 1 .. Len(q) - 1 : t[i] = q[i + 1]
      /\ Head(q) = q[1]
  BY TailFacts
<1> HIDE DEF t
<1>2. ASSUME NEW i \in 1 .. Len(t), NEW j \in 1 .. Len(t), i < j,
             Pub(t[i]), Pub(t[j])
      PROVE  t[i].val < t[j].val
  <2>1. /\ i + 1 \in 1 .. Len(q) /\ j + 1 \in 1 .. Len(q) /\ i + 1 < j + 1
        /\ t[i] = q[i + 1] /\ t[j] = q[j + 1]
    BY <1>1, <1>2
  <2> QED BY <1>2, <2>1 DEF RisingPubs
<1>3. ASSUME NEW j \in 1 .. Len(t), Pub(Head(q)), Pub(t[j])
      PROVE  Head(q).val < t[j].val
  <2>1. /\ 1 \in 1 .. Len(q) /\ j + 1 \in 1 .. Len(q) /\ 1 < j + 1
        /\ t[j] = q[j + 1]
    BY <1>1
  <2> QED BY <1>1, <1>3, <2>1 DEF RisingPubs
<1>4. Precede({Head(q)}, PacketsOf(t))
  BY <1>3, Zenon DEF Precede, PacketsOf
<1> QED BY <1>2, <1>4 DEF RisingPubs, t

LEMMA RisingAppend ==
  ASSUME NEW E, NEW q \in Seq(E), NEW e \in E, RisingPubs(q),
         Precede(PacketsOf(q), {e})
  PROVE  RisingPubs(Append(q, e))
<1> DEFINE p == Append(q, e)
<1>1. /\ Len(q) \in Nat /\ Len(p) = Len(q) + 1
      /\ \A i \in 1 .. Len(q) : p[i] = q[i]
      /\ p[Len(q) + 1] = e
  BY AppendFacts
<1> HIDE DEF p
<1>2. ASSUME NEW i \in 1 .. Len(p), NEW j \in 1 .. Len(p), i < j,
             Pub(p[i]), Pub(p[j])
      PROVE  p[i].val < p[j].val
  <2>1. i \in 1 .. Len(q) /\ p[i] = q[i]
    BY <1>1, <1>2
  <2>2. CASE j \in 1 .. Len(q)
    BY <1>1, <1>2, <2>1, <2>2 DEF RisingPubs
  <2>3. CASE j = Len(q) + 1
    <3>1. q[i] \in PacketsOf(q) /\ p[j] = e
      BY <1>1, <2>1, <2>3 DEF PacketsOf
    <3> QED BY <1>2, <2>1, <3>1 DEF Precede
  <2> QED BY <1>1, <2>2, <2>3
<1> QED BY <1>2 DEF RisingPubs, p

LEMMA FirstsAppend ==
  ASSUME NEW E, NEW l \in Seq(E), NEW v \in E, FirstsInOrder(l),
         v \in PacketsOf(l) \/ \A y \in PacketsOf(l) : y < v
  PROVE  FirstsInOrder(Append(l, v))
<1> DEFINE p == Append(l, v)
<1>1. /\ Len(l) \in Nat /\ Len(p) = Len(l) + 1
      /\ \A i \in 1 .. Len(l) : p[i] = l[i]
      /\ p[Len(l) + 1] = v
  BY AppendFacts
<1> HIDE DEF p
<1> SUFFICES ASSUME NEW i \in 1 .. Len(p), NEW k \in 1 .. i - 1,
                    \A j \in 1 .. i - 1 : p[j] # p[i]
             PROVE  p[k] < p[i]
  BY Zenon DEF FirstsInOrder, p
<1>2. \A j \in 1 .. i - 1 : j \in 1 .. Len(l) /\ p[j] = l[j]
  BY <1>1
<1>3. CASE i \in 1 .. Len(l)
  BY <1>1, <1>2, <1>3 DEF FirstsInOrder
<1>4. CASE i = Len(l) + 1
  <2>1. i - 1 = Len(l) /\ p[i] = v
    BY <1>1, <1>4
  <2>2. v \notin PacketsOf(l)
    BY <1>2, <2>1 DEF PacketsOf
  <2>3. l[k] \in PacketsOf(l)
    BY <1>2 DEF PacketsOf
  <2> QED BY <1>2, <2>1, <2>2, <2>3
<1> QED BY <1>1, <1>3, <1>4

-----------------------------------------------------------------------------
(* A request on its way to the broker has been published, or comes after   *)
(* all that have been.  Once the connection is greeted, a marked message   *)
(* that has not been published is still on its way, and what waits in the  *)
(* store comes after everything on its way.                                *)
Ahead(x) == x \in Logged \/ \A y \in Logged : y < x
Greeting == \E p \in PacketsOf(c2b) : p.kind # "CONNECT"
InTransit(e) == e \in PacketsOf(c2b) \cup PacketsOf(write_buf)
OrderInv ==
  /\ \A e \in OnPath : Pub(e) => Ahead(e.val)
  /\ RisingPubs(c2b) /\ RisingPubs(write_buf)
  /\ Precede(PacketsOf(c2b), PacketsOf(write_buf))
  /\ Precede(PacketsOf(c2b), QueuedIn(main_store))
  /\ Precede(PacketsOf(write_buf), QueuedIn(main_store))
  /\ up /\ (current = "main" \/ Greeting) =>
       \A e \in MarkedIn(main_store) :
         Pub(e) => e.val \in Logged \/ InTransit(e)
  /\ FirstsInOrder(log)

LEMMA PubFacts ==
  ASSUME NEW e, Pub(e)
  PROVE  e.kind \in RequestKinds /\ e.kind \in RequestCarriers
BY DEF Pub, RequestKinds, RequestCarriers

LEMMA OnPathWhole ==
  \A x : x \in OnPath <=>
           /\ x.kind \in RequestCarriers
           /\ \/ x \in StoredIn(main_store)
              \/ x \in PacketsOf(c2b) \/ x \in PacketsOf(write_buf)
BY DEF OnPath, Carried

(* Nothing moves towards the broker.                                       *)
LEMMA OrderSame ==
  ASSUME OrderInv, log' = log, \A x \in OnPath' : Pub(x) => x \in OnPath,
         c2b' \in {c2b, <<>>}, write_buf' \in {write_buf, <<>>},
         \A x \in QueuedIn(main_store)' :
           Pub(x) => x \in QueuedIn(main_store),
         \A x \in MarkedIn(main_store)' :
           Pub(x) => x \in MarkedIn(main_store),
         up' /\ (current' = "main" \/ Greeting') =>
           /\ up /\ (current = "main" \/ Greeting)
           /\ UNCHANGED <<c2b, write_buf>>
  PROVE  OrderInv'
<1>1. PacketsOf(<<>>) = {} /\ RisingPubs(<<>>)
  BY PacketsEmpty DEF RisingPubs
<1>2. /\ PacketsOf(c2b)' \subseteq PacketsOf(c2b)
      /\ PacketsOf(write_buf)' \subseteq PacketsOf(write_buf)
      /\ RisingPubs(c2b)' /\ RisingPubs(write_buf)'
  BY <1>1 DEF OrderInv
<1>3. Logged' = Logged
  BY DEF Logged
<1>4. \A e \in OnPath' : Pub(e) => Ahead(e.val)'
  BY <1>3 DEF OrderInv, Ahead
<1>5. /\ Precede(PacketsOf(c2b), PacketsOf(write_buf))'
      /\ Precede(PacketsOf(c2b), QueuedIn(main_store))'
      /\ Precede(PacketsOf(write_buf), QueuedIn(main_store))'
  BY <1>2 DEF OrderInv, Precede
<1>6. up' /\ (current' = "main" \/ Greeting') =>
        \A e \in MarkedIn(main_store)' :
          Pub(e) => e.val \in Logged' \/ InTransit(e)'
  BY <1>3 DEF OrderInv, InTransit
<1>7. FirstsInOrder(log)'
  BY DEF OrderInv
<1> QED BY <1>2, <1>4, <1>5, <1>6, <1>7 DEF OrderInv

(* The steps of OrderSame: connections open, break and end, answers arrive *)
(* at the client, the broker sends messages or forgets.                    *)
LEMMA OrderQuiet ==
  ASSUME SessionInv, OrderInv,
         Opens \/ Stops \/ BeginsConnack \/ Breaks \/ Forgets
  PROVE  OrderInv'
<1>0. PacketsOf(<<>>) = {} /\ up \in BOOLEAN
  BY PacketsEmpty, QueuesNow
<1>1. log' = log /\ OnPath' \subseteq OnPath
  BY ViewQuiet, ViewForgets DEF Unseen, SessionLost
<1>2. main_store' = main_store
  BY DEF Opens, Stops, BeginsConnack, Breaks, Forgets, Ours
<1>3. /\ c2b' \in {c2b, <<>>} /\ write_buf' \in {write_buf, <<>>}
      /\ up' /\ (current' = "main" \/ Greeting') =>
           /\ up /\ (current = "main" \/ Greeting)
           /\ UNCHANGED <<c2b, write_buf>>
  <2>1. CASE Opens
    <3>1. c2b' = <<>> /\ write_buf' = <<>> /\ current' = "connect"
      BY <2>1 DEF Opens
    <3>2. ~Greeting'
      BY <1>0, <3>1 DEF Greeting
    <3> QED BY <3>1, <3>2
  <2>2. CASE Stops
    <3>1. /\ UNCHANGED <<up, c2b, write_buf>>
          /\ current' \in {current, "connect"}
      BY <2>2 DEF Stops, Ours, Wires, Where
    <3>2. Greeting' <=> Greeting
      BY <3>1 DEF Greeting
    <3> QED BY <3>1, <3>2
  <2>3. CASE Breaks
    BY <2>3 DEF Breaks, Ours
  <2>4. CASE Forgets
    BY <2>4 DEF Forgets, Ours, Wires
  <2>5. CASE BeginsConnack
    <3>1. /\ UNCHANGED <<up, c2b, write_buf>>
          /\ current' = current
      BY <2>5 DEF BeginsConnack, Takes
    <3>2. Greeting' <=> Greeting
      BY <3>1 DEF Greeting
    <3> QED BY <3>1, <3>2
  <2> QED BY <2>1, <2>2, <2>3, <2>4, <2>5
<1>4. /\ QueuedIn(main_store)' = QueuedIn(main_store)
      /\ MarkedIn(main_store)' = MarkedIn(main_store)
  BY <1>2
<1> QED BY <1>1, <1>3, <1>4, OrderSame

LEMMA OrderReceives ==
  ASSUME SessionInv, OrderInv, NEW p \in Incoming,
         \/ GetsPublish(p) \/ GetsPubrel(p)
         \/ \E k \in Nat : GetsResponse(p, k)
  PROVE  OrderInv'
<1> DEFINE s == main_store
<1>0. WellFormed(s, CarriedEntries)
  BY QueuesNow
<1>1. /\ UNCHANGED <<log, up, c2b, write_buf>>
      /\ current = "main" /\ current' = "main"
  BY DEF GetsPublish, GetsPubrel, GetsResponse, Takes, broker
<1>2. /\ \A x \in OnPath' : Pub(x) => x \in OnPath
      /\ \A x \in QueuedIn(s)' : Pub(x) => x \in QueuedIn(s)
      /\ \A x \in MarkedIn(s)' : Pub(x) => x \in MarkedIn(s)
  <2>1. CASE GetsPublish(p) \/ GetsPubrel(p)
    <3>1. OnPath' \subseteq OnPath
      BY <2>1, ViewAcknowledges DEF Unseen
    <3>2. /\ \E kind \in AckKinds : main_store' = Acknowledging(kind, p.id)
          /\ p.type \in {"publish", "pubrel"}
      BY <2>1 DEF GetsPublish, GetsPubrel, AckKinds
    <3>3. PICK kind \in AckKinds : main_store' = Acknowledging(kind, p.id)
      BY <3>2
    <3>4. p.id \in InboundIds
      BY <3>2, IncomingFacts
    <3> DEFINE a == Entry(kind, p.id, None)
    <3>5. a \in CarriedEntries /\ a.kind = kind
      BY <3>4, AckEntryType
    <3>6. ~Pub(a)
      BY <3>5 DEF AckKinds, Pub
    <3> HIDE DEF a
    <3>7. main_store' = s \/ main_store' = Appended(s, a)
      BY <3>3 DEF Acknowledging, a
    <3>8. /\ MarkedIn(s)' = MarkedIn(s)
          /\ QueuedIn(s)' \subseteq QueuedIn(s) \cup {a}
      BY <1>0, <3>5, <3>7, StoredAppended
    <3> QED BY <3>1, <3>6, <3>8
  <2>2. ASSUME NEW k \in Nat, GetsResponse(p, k)
        PROVE  /\ \A x \in OnPath' : Pub(x) => x \in OnPath
               /\ \A x \in QueuedIn(s)' : Pub(x) => x \in QueuedIn(s)
               /\ \A x \in MarkedIn(s)' : Pub(x) => x \in MarkedIn(s)
    <3> DEFINE e == s.entries[k]
    <3>1. OnPath' \subseteq OnPath \cup Successor(e)
      BY <2>2, ViewResponse DEF Finishes
    <3>2. k \in 1 .. s.pos /\ main_store' = Settled(s, k)
      BY <2>2 DEF GetsResponse, IsAnswer
    <3>3. /\ MarkedIn(s) = MarkedIn(s)' \cup {e}
          /\ QueuedIn(s)' = QueuedIn(s) \cup Successor(e)
          /\ e \in CarriedEntries
      BY <1>0, <3>2, StoredSettled DEF Successor
    <3> HIDE DEF e
    <3>4. \A x \in Successor(e) : ~Pub(x)
      BY <3>3, PubrelType DEF Successor, Pub
    <3> QED BY <3>1, <3>3, <3>4
  <2> QED BY <2>1, <2>2
<1>3. Greeting' <=> Greeting
  BY <1>1 DEF Greeting
<1> QED BY <1>1, <1>2, <1>3, OrderSame

LEMMA OrderBrokerSends ==
  ASSUME SessionInv, OrderInv, NEW m \in Inbound,
         \/ \E qos \in {1, 2}, id \in InboundIds : SendsFirst(m, qos, id)
         \/ SendsAgain(m) \/ SendsPubrel(m)
  PROVE  OrderInv'
<1>1. UNCHANGED <<main_store, log, up, c2b, write_buf, current>>
  BY DEF SendsFirst, SendsAgain, SendsPubrel, BrokerWrites, Ours, Where
<1>2. OnPath' \subseteq OnPath
  BY ViewBrokerSends DEF Unseen
<1>3. Greeting' <=> Greeting
  BY <1>1 DEF Greeting
<1>4. /\ QueuedIn(main_store)' = QueuedIn(main_store)
      /\ MarkedIn(main_store)' = MarkedIn(main_store)
  BY <1>1
<1> QED BY <1>1, <1>2, <1>3, <1>4, OrderSame

(* A new connection is greeted: everything has to be sent again.           *)
LEMMA OrderConnack ==
  ASSUME SessionInv, OrderInv, TakesConnack \/ EndsConnack
  PROVE  OrderInv'
<1>1. /\ UNCHANGED <<log, c2b, write_buf>> /\ write_buf = <<>> /\ c2b = <<>>
      /\ main_store' = UnmarkAll(main_store)
  BY DEF TakesConnack, EndsConnack, Takes, AwaitingConnack, HalfConnack,
         Wires, broker
<1>2. WellFormed(main_store, CarriedEntries)
  BY QueuesNow
<1>3. MarkedIn(main_store)' = {}
  BY <1>1, <1>2, StoredUnmarked
<1>4. /\ PacketsOf(c2b)' = {} /\ PacketsOf(write_buf)' = {}
      /\ RisingPubs(c2b)' /\ RisingPubs(write_buf)'
  BY <1>1, PacketsEmpty DEF RisingPubs
<1>5. \A e \in OnPath' : Pub(e) => Ahead(e.val)'
  <2>1. OnPath' \subseteq OnPath
    BY ViewQuiet DEF Unseen
  <2> QED BY <1>1, <2>1 DEF OrderInv, Ahead, Logged
<1> QED BY <1>1, <1>3, <1>4, <1>5 DEF OrderInv, Precede

(* A new request comes last.                                               *)
LEMMA OrderAccepts ==
  ASSUME SessionInv, KindInv, OrderInv, NEW e \in CarriedEntries, Accepts(e)
  PROVE  OrderInv'
<1>0. /\ WellFormed(main_store, CarriedEntries)
      /\ accepted \in Nat /\ Requests \subseteq Nat
  BY QueuesNow, CountersNow DEF Counters
<1>1. /\ UNCHANGED <<log, up, current, c2b, write_buf>>
      /\ main_store' = Appended(main_store, e)
      /\ e.val = accepted + 1
  BY DEF Accepts, Where, Wires, broker
<1>2. /\ MarkedIn(main_store)' = MarkedIn(main_store)
      /\ QueuedIn(main_store)' = QueuedIn(main_store) \cup {e}
  BY <1>0, <1>1, StoredAppended
<1>3. OnPath' \subseteq OnPath \cup {e}
  BY ViewAccepts DEF Begins
<1>4. \A n \in Requests : n <= accepted => n < accepted + 1
  BY <1>0
<1>5. \A y \in Logged : y < e.val
  BY <1>1, <1>4 DEF KindInv
<1>6. ASSUME NEW x, Pub(x), x \in PacketsOf(c2b) \/ x \in PacketsOf(write_buf)
      PROVE  x.val < e.val
  <2>1. x \in OnPath
    BY <1>6, PubFacts, OnPathWhole
  <2> QED BY <1>1, <1>4, <2>1 DEF KindInv, Kinded
<1>7. \A x \in OnPath' : Pub(x) => Ahead(x.val)'
  BY <1>1, <1>3, <1>5 DEF OrderInv, Ahead, Logged
<1>8. /\ Precede(PacketsOf(c2b), QueuedIn(main_store))'
      /\ Precede(PacketsOf(write_buf), QueuedIn(main_store))'
  <2>1. /\ PacketsOf(c2b)' = PacketsOf(c2b)
        /\ PacketsOf(write_buf)' = PacketsOf(write_buf)
    BY <1>1
  <2> QED BY <1>2, <1>6, <2>1 DEF OrderInv, Precede
<1> QED BY <1>1, <1>2, <1>7, <1>8
    DEF OrderInv, Greeting, InTransit, Logged

(* The current entry goes before those behind it.                          *)
LEMMA CurrentFirst ==
  ASSUME SessionInv, HasCurrent(main_store),
         NEW t \in {MarkCurrent(main_store), DropCurrent(main_store)}
  PROVE  Precede({Current(main_store)}, QueuedIn(t))
<1> DEFINE s == main_store
           n == s.pos
<1>1. /\ WellFormed(s, CarriedEntries) /\ n \in Nat /\ Count(s) \in Nat
      /\ n < Count(s)
  BY MainKept DEF HasCurrent
<1>2. ASSUME NEW y \in QueuedIn(t), Pub(Current(s)), Pub(y)
      PROVE  Current(s).val < y.val
  <2>1. PICK j \in n + 2 .. Count(s) : s.entries[j] = y
    BY <1>1, StoredEncoded
  <2>2. n + 1 \in 1 .. Count(s) /\ j \in 1 .. Count(s) /\ n + 1 < j
    BY <1>1
  <2>3. InOrder(s.entries[n + 1], s.entries[j])
    <3>1. GoodStore(s, accepted, received)
      BY DEF SessionInv, RequestInv, Custody
    <3> HIDE DEF n
    <3> QED BY <2>2, <3>1 DEF GoodStore
  <2>4. {Current(s).kind, y.kind} \subseteq RequestKinds
    BY <1>2, PubFacts
  <2> QED BY <2>1, <2>3, <2>4 DEF InOrder, Current
<1> QED BY <1>2 DEF Precede

LEMMA OrderEncodes ==
  ASSUME SessionInv, OrderInv, NEW e \in CarriedEntries, Encodes(e)
  PROVE  OrderInv'
<1> DEFINE s == main_store
<1>0. /\ WellFormed(s, CarriedEntries) /\ write_buf \in Seq(Outgoing)
      /\ e \in Outgoing
  BY QueuesNow
<1>1. /\ UNCHANGED <<log, up, current, c2b>> /\ current = "main"
      /\ HasCurrent(s) /\ e = Current(s)
      /\ write_buf' = Append(write_buf, e)
      /\ main_store' = IF Awaited(e) THEN MarkCurrent(s) ELSE DropCurrent(s)
  BY DEF Encodes, Wires, broker
<1>2. main_store' \in {MarkCurrent(s), DropCurrent(s)}
  BY <1>1, Zenon
<1>3. /\ MarkedIn(main_store') \subseteq MarkedIn(s) \cup {e}
      /\ QueuedIn(s) = QueuedIn(main_store') \cup {e}
  <2>1. /\ MarkedIn(main_store') = MarkedIn(s) \cup
             (IF main_store' = DropCurrent(s) THEN {} ELSE {e})
        /\ QueuedIn(s) = QueuedIn(main_store') \cup {e}
    BY <1>0, <1>1, <1>2, StoredEncoded
  <2> QED BY <2>1
<1>4. Precede({e}, QueuedIn(main_store'))
  BY <1>1, <1>2, CurrentFirst
<1>5. /\ PacketsOf(c2b)' = PacketsOf(c2b)
      /\ PacketsOf(write_buf)' = PacketsOf(write_buf) \cup {e}
  BY <1>0, <1>1, PacketsAppend
<1>6. RisingPubs(write_buf)' /\ RisingPubs(c2b)'
  <2>1. Precede(PacketsOf(write_buf), {e})
    BY <1>3 DEF OrderInv, Precede
  <2> QED BY <1>0, <1>1, <2>1, RisingAppend DEF OrderInv
<1>7. /\ Precede(PacketsOf(c2b), PacketsOf(write_buf))'
      /\ Precede(PacketsOf(c2b), QueuedIn(s))'
      /\ Precede(PacketsOf(write_buf), QueuedIn(s))'
  BY <1>3, <1>4, <1>5 DEF OrderInv, Precede
<1>8. \A x \in OnPath' : Pub(x) => Ahead(x.val)'
  <2>1. OnPath' \subseteq OnPath
    BY ViewEncodes DEF Unseen, Leaves
  <2> QED BY <1>1, <2>1 DEF OrderInv, Ahead, Logged
<1>9. up' => \A x \in MarkedIn(s)' :
        Pub(x) => x.val \in Logged' \/ InTransit(x)'
  BY <1>1, <1>3, <1>5 DEF OrderInv, InTransit, Logged
<1> QED BY <1>1, <1>6, <1>7, <1>8, <1>9 DEF OrderInv

LEMMA OrderEncodesConnect ==
  ASSUME SessionInv, OrderInv, EncodesConnect
  PROVE  OrderInv'
<1> DEFINE e == ConnectEntry
<1>0. write_buf \in Seq(Outgoing) /\ e \in Outgoing /\ ~Pub(e)
  BY QueuesNow, ConnectFacts DEF Pub
<1>1. /\ UNCHANGED <<log, up, current, c2b, main_store>>
      /\ write_buf' = Append(write_buf, e)
  BY DEF EncodesConnect, Wires, broker
<1> HIDE DEF e
<1>2. /\ PacketsOf(c2b)' = PacketsOf(c2b)
      /\ PacketsOf(write_buf)' = PacketsOf(write_buf) \cup {e}
  BY <1>0, <1>1, PacketsAppend
<1>3. RisingPubs(write_buf)' /\ RisingPubs(c2b)'
  <2>1. Precede(PacketsOf(write_buf), {e})
    BY <1>0 DEF Precede
  <2> QED BY <1>0, <1>1, <2>1, RisingAppend DEF OrderInv
<1>4. /\ Precede(PacketsOf(c2b), PacketsOf(write_buf))'
      /\ Precede(PacketsOf(c2b), QueuedIn(main_store))'
      /\ Precede(PacketsOf(write_buf), QueuedIn(main_store))'
  BY <1>0, <1>1, <1>2 DEF OrderInv, Precede
<1>5. \A x \in OnPath' : Pub(x) => Ahead(x.val)'
  <2>1. OnPath' \subseteq OnPath
    BY ViewQuiet DEF Unseen
  <2> QED BY <1>1, <2>1 DEF OrderInv, Ahead, Logged
<1> QED BY <1>1, <1>2, <1>3, <1>4, <1>5
    DEF OrderInv, InTransit, Greeting, Logged

(* The first packet of write_buf follows those on the wire.                *)
LEMMA OrderSends ==
  ASSUME SessionInv, OrderInv, Sends
  PROVE  OrderInv'
<1> DEFINE e == Head(write_buf)
<1>0. c2b \in Seq(Outgoing) /\ write_buf \in Seq(Outgoing)
  BY QueuesNow
<1>1. /\ UNCHANGED <<log, up, current, main_store>>
      /\ up /\ ~closed /\ write_buf # <<>>
      /\ write_buf' = Tail(write_buf) /\ c2b' = Append(c2b, e)
  BY DEF Sends, Where, broker
<1>2. e \in Outgoing
  BY <1>0, <1>1, TailFacts
<1>3. Precede({e}, PacketsOf(write_buf)') /\ RisingPubs(write_buf)'
  BY <1>0, <1>1, RisingTail DEF OrderInv
<1>4. PacketsOf(write_buf) = {e} \cup PacketsOf(write_buf)'
  BY <1>0, <1>1, PacketsTail
<1> HIDE DEF e
<1>5. PacketsOf(c2b)' = PacketsOf(c2b) \cup {e}
  BY <1>0, <1>1, <1>2, PacketsAppend
<1>6. RisingPubs(c2b)'
  <2>1. Precede(PacketsOf(c2b), {e})
    BY <1>4 DEF OrderInv, Precede
  <2> QED BY <1>0, <1>1, <1>2, <2>1, RisingAppend DEF OrderInv
<1>7. /\ Precede(PacketsOf(c2b), PacketsOf(write_buf))'
      /\ Precede(PacketsOf(c2b), QueuedIn(main_store))'
      /\ Precede(PacketsOf(write_buf), QueuedIn(main_store))'
  BY <1>1, <1>3, <1>4, <1>5 DEF OrderInv, Precede
<1>8. \A x \in OnPath' : Pub(x) => Ahead(x.val)'
  <2>1. OnPath' \subseteq OnPath
    BY ViewQuiet DEF Unseen
  <2> QED BY <1>1, <2>1 DEF OrderInv, Ahead, Logged
<1>9. ASSUME current # "main", Greeting'
      PROVE  Greeting
  <2>1. current = "connect"
    BY <1>9, ClientNow
  <2>2. DialPhase
    BY <1>1, <2>1, PhasesNow
  <2>3. c2b = <<>> /\ write_buf = <<ConnectEntry>>
    BY <1>1, <2>2 DEF DialPhase, JustConnect, AwaitingConnack, HalfConnack
  <2>4. e.kind = "CONNECT"
    BY <2>3, ConnectFacts DEF e
  <2> QED BY <1>5, <1>9, <2>4 DEF Greeting
<1>10. up' /\ (current' = "main" \/ Greeting') =>
         \A x \in MarkedIn(main_store)' :
           Pub(x) => x.val \in Logged' \/ InTransit(x)'
  BY <1>1, <1>4, <1>5, <1>9 DEF OrderInv, InTransit, Logged
<1> QED BY <1>1, <1>3, <1>6, <1>7, <1>8, <1>10 DEF OrderInv

(* The broker takes the first packet on the wire: everything on its way    *)
(* comes after it.                                                         *)
LEMMA OrderArrives ==
  ASSUME SessionInv, KindInv, OutInv, OrderInv, NEW p \in Outgoing,
         \/ BrokerAnswers(p) \/ BrokerIgnores(p)
         \/ \E m \in Inbound : BrokerReleases(p, m) \/ BrokerCompletes(p, m)
  PROVE  OrderInv'
<1> DEFINE s == main_store
<1>0. c2b \in Seq(Outgoing) /\ Arrives(p)
  BY QueuesNow, ViewBrokerTakes
<1>1. /\ UNCHANGED <<main_store, write_buf, current, up>>
      /\ c2b # <<>> /\ p = Head(c2b) /\ c2b' = Tail(c2b)
  <2>1. BrokerTakes(p)
    BY DEF BrokerAnswers, BrokerIgnores, BrokerReleases, BrokerCompletes
  <2> QED BY <2>1 DEF BrokerTakes, Ours, Where
<1>2. /\ PacketsOf(c2b) = {p} \cup PacketsOf(c2b)'
      /\ PacketsOf(write_buf)' = PacketsOf(write_buf)
      /\ MarkedIn(s)' = MarkedIn(s) /\ QueuedIn(s)' = QueuedIn(s)
  BY <1>0, <1>1, PacketsTail
<1>3. RisingPubs(c2b)' /\ Precede({p}, PacketsOf(c2b)')
  BY <1>0, <1>1, RisingTail DEF OrderInv
<1>4. RisingPubs(write_buf)'
  BY <1>1 DEF OrderInv
<1>5. /\ Precede(PacketsOf(c2b), PacketsOf(write_buf))'
      /\ Precede(PacketsOf(c2b), QueuedIn(s))'
      /\ Precede(PacketsOf(write_buf), QueuedIn(s))'
  BY <1>2 DEF OrderInv, Precede
<1>6. /\ OnPath' \subseteq OnPath /\ p \in PacketsOf(c2b)
      /\ ~Publishes(p) => log' = log /\ Logged' = Logged
      /\ Publishes(p) => /\ log' = Append(log, p.val)
                         /\ Logged' = Logged \cup {p.val}
                         /\ p \in OnPath /\ Pub(p) /\ p.val \in Requests
  BY <1>0, PublishedPacket DEF Arrives, Logged, Pub, Kinded
<1>7. Pub(p) => p.val \in Logged'
  <2> SUFFICES ASSUME Pub(p), ~Publishes(p)
               PROVE  p.val \in Logged
    BY <1>6
  <2>1. /\ Awaited(p) /\ p.kind = "PUBLISH_2" /\ p.id \in srv_ids
        /\ p.kind \in RequestCarriers
    BY PubFacts DEF Pub, Publishes, Awaited, ResponseKinds
  <2>2. p \in Requesting
    BY <1>6, <2>1, PathHolds
  <2> QED BY <2>1, <2>2 DEF OutInv, MessagePublished
<1>8. up /\ (current = "main" \/ Greeting') =>
        up /\ (current = "main" \/ Greeting)
  BY <1>2 DEF Greeting
<1>9. up' /\ (current' = "main" \/ Greeting') =>
        \A x \in MarkedIn(s)' : Pub(x) => x.val \in Logged' \/ InTransit(x)'
  BY <1>1, <1>2, <1>6, <1>7, <1>8 DEF OrderInv, InTransit
<1>10. \A x \in OnPath' : Pub(x) => Ahead(x.val)'
  <2>1. CASE ~Publishes(p)
    BY <1>6, <2>1 DEF OrderInv, Ahead
  <2>2. CASE Publishes(p)
    <3> SUFFICES ASSUME NEW x \in OnPath', Pub(x)
                 PROVE  x.val \in Logged' \/ p.val < x.val
      BY <1>6, <2>2 DEF OrderInv, Ahead
    <3>1. \/ x \in StoredIn(s)
          \/ x \in PacketsOf(c2b)' \/ x \in PacketsOf(write_buf)
      <4>1. \/ x \in StoredIn(s)'
            \/ x \in PacketsOf(c2b)' \/ x \in PacketsOf(write_buf)'
        BY DEF OnPath, Carried
      <4> QED BY <1>1, <1>2, <4>1
    <3>2. CASE x \in PacketsOf(c2b)'
      BY <1>3, <1>6, <2>2, <3>2 DEF Precede
    <3>3. CASE x \in PacketsOf(write_buf)
      BY <1>6, <2>2, <3>3 DEF OrderInv, Precede
    <3>4. CASE x \in QueuedIn(s)
      BY <1>6, <2>2, <3>4 DEF OrderInv, Precede
    <3>5. CASE x \in MarkedIn(s)
      <4>1. up /\ Greeting
        <5>1. up
          BY <1>6, PathFacts
        <5> QED BY <1>6, <2>2, <5>1 DEF Greeting, Pub
      <4>2. x.val \in Logged \/ InTransit(x)
        BY <3>5, <4>1 DEF OrderInv
      <4>3. CASE x = p
        BY <1>7, <4>3
      <4> QED BY <1>2, <1>6, <2>2, <3>2, <3>3, <4>2, <4>3 DEF InTransit
    <3> QED BY <3>1, <3>2, <3>3, <3>4, <3>5, RequestingFacts
  <2> QED BY <2>1, <2>2
<1>11. FirstsInOrder(log)'
  <2>1. CASE ~Publishes(p)
    BY <1>6, <2>1 DEF OrderInv
  <2>2. CASE Publishes(p)
    <3>1. p.val \in Logged \/ \A y \in Logged : y < p.val
      BY <1>6, <2>2 DEF OrderInv, Ahead
    <3>2. log \in Seq(Requests) /\ FirstsInOrder(log)
      BY CountersNow DEF Counters, OrderInv
    <3>3. FirstsInOrder(Append(log, p.val))
      BY <1>6, <2>2, <3>1, <3>2, FirstsAppend DEF Logged
    <3> QED BY <1>6, <2>2, <3>3
  <2> QED BY <2>1, <2>2
<1> QED BY <1>3, <1>4, <1>5, <1>9, <1>10, <1>11 DEF OrderInv

LEMMA OrderKept ==
  ASSUME SessionInv, KindInv, OutInv, OrderInv, SessionStep
  PROVE  OrderInv'
<1>1. CASE Opens \/ Stops \/ BeginsConnack \/ Breaks \/ Forgets
  BY <1>1, OrderQuiet
<1>2. CASE EncodesConnect \/ Sends \/ TakesConnack \/ EndsConnack
  BY <1>2, OrderEncodesConnect, OrderSends, OrderConnack
<1>3. CASE \E e \in CarriedEntries : Accepts(e) \/ Encodes(e)
  BY <1>3, OrderAccepts, OrderEncodes
<1>4. CASE \E p \in Incoming : \/ \E k \in Nat : GetsResponse(p, k)
                               \/ GetsPublish(p) \/ GetsPubrel(p)
  BY <1>4, OrderReceives
<1>5. CASE \E p \in Outgoing :
             \/ BrokerAnswers(p) \/ BrokerIgnores(p)
             \/ \E m \in Inbound :
                  BrokerReleases(p, m) \/ BrokerCompletes(p, m)
  BY <1>5, OrderArrives
<1>6. CASE \E m \in Inbound :
             \/ \E qos \in {1, 2}, id \in InboundIds : SendsFirst(m, qos, id)
             \/ SendsAgain(m) \/ SendsPubrel(m)
  BY <1>6, OrderBrokerSends
<1> QED
  BY <1>1, <1>2, <1>3, <1>4, <1>5, <1>6, Zenon
     DEF SessionStep, ClientStep, BrokerStep

LEMMA NextOrder ==
  ASSUME SessionInv, KindInv, OutInv, OrderInv, [SNext]_svars
  PROVE  OrderInv'
<1>1. CASE SNext
  BY <1>1, NextIsStep, OrderKept
<1>2. CASE UNCHANGED svars
  <2>1. UNCHANGED <<main_store, write_buf, c2b, log, up, current>>
    BY <1>2
       DEF svars, net, broker, lost, vars, stores, txs, history, Where
  <2>2. /\ OnPath' = OnPath /\ (Greeting' <=> Greeting)
        /\ QueuedIn(main_store)' = QueuedIn(main_store)
        /\ MarkedIn(main_store)' = MarkedIn(main_store)
    BY <2>1 DEF OnPath, Greeting
  <2> QED BY <2>1, <2>2, OrderSame
<1> QED BY <1>1, <1>2

LEMMA InitOrder == SInit => OrderInv
<1> SUFFICES ASSUME SInit PROVE OrderInv
  OBVIOUS
<1>1. /\ main_store.entries = <<>> /\ c2b = <<>> /\ write_buf = <<>>
      /\ log = <<>>
  BY DEF SInit, Init, EmptyStore
<1>2. PacketsOf(<<>>) = {} /\ RisingPubs(<<>>) /\ FirstsInOrder(<<>>)
  BY PacketsEmpty DEF RisingPubs, FirstsInOrder
<1>3. /\ OnPath = {} /\ MarkedIn(main_store) = {}
      /\ QueuedIn(main_store) = {}
  <2>1. main_store.pos = 0 /\ Count(main_store) = 0
    BY <1>1 DEF SInit, Init, EmptyStore, Count
  <2> QED BY <1>1, <1>2, <2>1
          DEF OnPath, Carried, StoredIn, MarkedIn, QueuedIn
<1> QED BY <1>1, <1>2, <1>3 DEF OrderInv, Precede

(* And it sees the messages for the first time in the order in which the   *)
(* application has made the requests, over lost connections too:           *)
(* lmqtt_store_append puts a request at the end, lmqtt_store_mark_current  *)
(* lets those before it go first, the wire keeps the order, and            *)
(* lmqtt_store_unmark_all starts again at the oldest one.                  *)
THEOREM FirstPublishedInOrder == SSpec /\ []IdsDistinct => []PublishedInOrder
<1>1. SInit => SessionInv /\ KindInv /\ HalfInv /\ OutInv /\ OrderInv
  BY InitSession, InitPublished, InitOrder
<1>2. /\ SessionInv /\ KindInv /\ HalfInv /\ OutInv /\ OrderInv
      /\ IdsDistinct /\ IdsDistinct' /\ [SNext]_svars
      => (SessionInv /\ KindInv /\ HalfInv /\ OutInv /\ OrderInv)'
  BY NextSession, NextPublished, NextOrder
<1>3. OrderInv => PublishedInOrder
  BY DEF OrderInv, FirstsInOrder, PublishedInOrder
<1> QED BY <1>1, <1>2, <1>3, PTL DEF SSpec

-----------------------------------------------------------------------------
(* When the ids are distinct: as long as there is an id for each request,  *)
(* and none of them is refused, which costs an id too, the ids in the      *)
(* store are those below next_packet_id until it wraps around.             *)
EnoughIds == NumRequests <= IdModulus /\ ~RetriesWhenFull
IdInv ==
  /\ DistinctIds(Requesting)
  /\ next_packet_id <= accepted
  /\ accepted < NumRequests =>
       \A e \in Requesting : e.kind # "PUBLISH_0" => e.id < next_packet_id

(* No two entries carry the same request, so the set of them is enough.    *)
LEMMA DistinctInStore ==
  ASSUME SessionInv, DistinctIds(Requesting)
  PROVE  IdsDistinct
<1> DEFINE s == main_store
<1>1. GoodStore(s, accepted, received)
  BY DEF SessionInv, RequestInv, Custody
<1>2. ASSUME NEW i \in 1 .. Count(s), NEW j \in 1 .. Count(s), i # j,
             {s.entries[i].kind, s.entries[j].kind} \subseteq IdKinds
      PROVE  s.entries[i].id # s.entries[j].id
  <2>1. Count(s) \in Nat
    BY MainKept
  <2>2. /\ s.entries[i] \in Requesting /\ s.entries[j] \in Requesting
        /\ "PUBLISH_0" \notin {s.entries[i].kind, s.entries[j].kind}
    BY <1>2 DEF IdKinds, Requesting, Carried, StoredIn, PacketsOf, Count
  <2>3. s.entries[i].val # None /\ s.entries[j].val # None
    BY <2>2, RequestingFacts, SizeFacts DEF Requests, None
  <2>4. i < j \/ j < i
    BY <1>2, <2>1
  <2>5. s.entries[i].val # s.entries[j].val
    BY <1>1, <2>3, <2>4, Zenon DEF GoodStore, InOrder
  <2> QED BY <2>2, <2>5, Zenon DEF DistinctIds
<1> QED BY <1>2, Zenon DEF IdsDistinct, DistinctIn

LEMMA IdsTaken ==
  ASSUME SNext, ~Ask
  PROVE  UNCHANGED <<next_packet_id, accepted>>
<1>1. CASE Open
  BY <1>1 DEF Open, Connect, history
<1>2. CASE Prepare
  BY <1>2 DEF Prepare, Encode, Reset
<1>3. CASE Send
  BY <1>3 DEF Send, Write, stores, history
<1>4. CASE Receive
  BY <1>4 DEF Receive, Respond, Unexpected, Fail, ReceivePublish,
              ReceivePubrel, stores, history
<1>5. CASE NoticeBreak \/ LateAnswer
  BY <1>5 DEF NoticeBreak, LateAnswer, Eof, Fail, Timeout, stores, history
<1>6. CASE Break \/ Forget
  BY <1>6 DEF Break, Forget, vars, stores, history
<1>7. CASE BrokerReceive \/ \E m \in Inbound : BrokerSend(m)
  BY <1>7 DEF BrokerReceive, BrokerSend, vars, stores, history
<1>8. CASE ReceivePart
  BY <1>8 DEF ReceivePart, BeginResponse, UpdateCurrent, stores, history
<1>9. CASE ReceiveRest
  BY <1>9 DEF ReceiveRest, FinishResponse, Finish
<1> QED BY <1>1, <1>2, <1>3, <1>4, <1>5, <1>6, <1>7, <1>8, <1>9, Zenon
        DEF SNext

(* A new request takes an id above all those of the store.                 *)
LEMMA IdsAsk ==
  ASSUME EnoughIds, SessionInv, IdInv, Ask
  PROVE  IdInv'
<1>1. PICK kind \in SessionKinds :
        Request(kind) /\ IsQueueable(main_store, Capacity)
  BY DEF Ask, EnoughIds
<1> DEFINE n == next_packet_id
           e == Entry(kind, IF TakesId(kind) THEN n ELSE 0, accepted + 1)
<1>2. /\ accepted < NumRequests /\ accepted' = accepted + 1
      /\ main_store' = Appended(main_store, e)
      /\ n' = IF TakesId(kind) THEN (n + 1) % IdModulus ELSE n
  BY <1>1 DEF Request
<1>3. /\ accepted \in Nat /\ n \in Nat /\ n \in Ids
      /\ NumRequests \in Nat /\ IdModulus \in Nat /\ IdModulus >= 1
      /\ NumRequests <= IdModulus /\ n <= accepted
  BY ClientNow, SizeFacts DEF TypeOK, Ids, EnoughIds, IdInv
<1>4. e \in CarriedEntries
  <2>1. kind \in RequestKinds /\ kind \in RequestCarriers /\ kind \in Kinds
    BY SessionFacts DEF RequestKinds, RequestCarriers, Kinds
  <2>2. accepted + 1 \in Requests
    BY <1>2, <1>3, SizeFacts DEF Requests
  <2>3. e \in Entries
    BY <1>3, <2>1, <2>2, SizeFacts, EntryType
  <2> QED BY <1>3, <2>1, <2>2, <2>3, SizeFacts DEF CarriedEntries, Entry
<1>5. Requesting' \subseteq Requesting \cup {e}
  <2>1. WellFormed(main_store, CarriedEntries)
    BY QueuesNow
  <2>2. main_store'.entries = Append(main_store.entries, e)
    BY <1>2 DEF Appended
  <2>3. StoredIn(main_store)' = StoredIn(main_store) \cup {e}
    BY <1>4, <2>1, <2>2, PacketsAppend DEF StoredIn, WellFormed
  <2> QED BY <2>3 DEF Requesting, Carried
<1>6. /\ e.kind = kind /\ (kind # "PUBLISH_0" => e.id = n)
      /\ kind # "PUBLISH_0" <=> TakesId(kind)
  BY DEF Entry, TakesId
<1> HIDE DEF e
<1>7. accepted + 1 < NumRequests => (n + 1) % IdModulus = n + 1
  <2>1. ASSUME NEW m \in Nat, m < IdModulus
        PROVE  m % IdModulus = m
    BY <1>3, <2>1
  <2> HIDE DEF n
  <2>2. accepted + 1 < NumRequests => n + 1 \in Nat /\ n + 1 < IdModulus
    BY <1>3
  <2> QED BY <2>1, <2>2
<1>8. (n + 1) % IdModulus <= accepted + 1
  <2>1. n + 1 <= IdModulus
    BY <1>3 DEF Ids
  <2> HIDE DEF n
  <2>2. CASE n + 1 < IdModulus
    BY <1>3, <2>2
  <2>3. CASE n + 1 = IdModulus
    BY <1>3, <2>3
  <2> QED BY <1>3, <2>1, <2>2, <2>3
<1>9. n' <= accepted'
  BY <1>2, <1>3, <1>8
<1>10. \A x \in Requesting : /\ x.id \in Nat
                             /\ x.kind # "PUBLISH_0" => x.id < n
  BY <1>2, <1>3, RequestingFacts DEF IdInv, Ids
<1>11. DistinctIds(Requesting)'
  <2> HIDE DEF n
  <2>1. \A x \in Requesting :
          "PUBLISH_0" \notin {x.kind, e.kind} => x.id # e.id
    BY <1>3, <1>6, <1>10
  <2>2. DistinctIds(Requesting)
    BY DEF IdInv
  <2> QED BY <1>5, <2>1, <2>2 DEF DistinctIds
<1>12. ASSUME accepted' < NumRequests, NEW x \in Requesting',
              x.kind # "PUBLISH_0"
       PROVE  x.id < n'
  <2>1. accepted + 1 < NumRequests
    BY <1>2, <1>12
  <2>2. n' = IF TakesId(kind) THEN n + 1 ELSE n
    BY <1>2, <1>7, <2>1
  <2> DEFINE q == n'
  <2>3. q = IF TakesId(kind) THEN n + 1 ELSE n
    BY <2>2
  <2> HIDE DEF q, n
  <2>4. x \in Requesting => x.id < q
    BY <1>3, <1>10, <1>12, <2>3
  <2>5. x = e => x.id < q
    BY <1>3, <1>6, <1>12, <2>3
  <2>6. x.id < q
    BY <1>5, <1>12, <2>4, <2>5
  <2> QED BY <2>6 DEF q, n
<1> QED BY <1>9, <1>11, <1>12 DEF IdInv

LEMMA NextIds ==
  ASSUME EnoughIds, SessionInv, IdInv, [SNext]_svars
  PROVE  IdInv'
<1>a. ASSUME UNCHANGED <<next_packet_id, accepted>>,
             Requesting' \subseteq Requesting
      PROVE  IdInv'
  BY <1>a DEF IdInv, DistinctIds
<1>1. CASE UNCHANGED svars
  <2>1. UNCHANGED <<main_store, next_packet_id, accepted>>
    BY <1>1 DEF svars, vars, stores, history
  <2> QED BY <1>a, <2>1 DEF Requesting
<1>2. CASE SNext /\ Ask
  BY <1>2, IdsAsk
<1>3. CASE SNext /\ ~Ask
  <2>1. /\ UNCHANGED <<next_packet_id, accepted>> /\ accepted \in Nat
        /\ SessionStep /\ SessionInv'
    BY <1>3, IdsTaken, NextIsStep, CountersNow DEF Counters
  <2>2. CASE Requesting' \subseteq Requesting
    BY <1>a, <2>1, <2>2
  <2>3. CASE \E e \in CarriedEntries : Begins(e)
    BY <2>1, <2>3 DEF Begins
  <2>4. ASSUME NEW e \in CarriedEntries, Finishes(e),
               ~(Requesting' \subseteq Requesting)
        PROVE  IdInv'
    <3> DEFINE r == PubrelFor(e)
    <3>1. /\ e \in Requesting /\ e.kind = "PUBLISH_2"
          /\ Requesting' \subseteq Requesting \cup {r} /\ r \in Requesting'
      BY <2>4 DEF Finishes, Successor
    <3>2. r.id = e.id /\ r.val = e.val /\ r.kind = "PUBREL"
      BY <3>1, PubrelType
    <3> HIDE DEF r
    <3>3. /\ GoodStore(main_store', accepted', received')
          /\ Count(main_store') \in Nat
      BY <2>1, LenProperties
         DEF SessionInv, RequestInv, Custody, QueueTypes, WellFormed, Count
    <3>4. ASSUME e \in Requesting'
          PROVE  FALSE
      <4> DEFINE t == main_store'
      <4>1. PICK i \in 1 .. Count(t), j \in 1 .. Count(t) :
              e = t.entries[i] /\ r = t.entries[j]
        BY <3>1, <3>4 DEF Requesting, Carried, StoredIn, PacketsOf, Count
      <4>2. e.val # None /\ r.val # None
        BY <3>1, <3>2, RequestingFacts, SizeFacts DEF Requests, None
      <4>3. ~(i < j) /\ ~(j < i)
        BY <3>2, <3>3, <4>1, <4>2, Zenon DEF GoodStore, InOrder
      <4>4. i = j
        BY <3>3, <4>3
      <4> QED BY <3>1, <3>2, <4>1, <4>4
    <3>5. DistinctIds(Requesting)'
      BY <3>1, <3>2, <3>4, Zenon DEF IdInv, DistinctIds
    <3> QED BY <2>1, <3>1, <3>2, <3>5 DEF IdInv
  <2>5. \/ Requesting' \subseteq Requesting
        \/ \E e \in CarriedEntries : Begins(e) \/ Finishes(e)
    BY <2>1, ViewStep DEF Unseen, SessionLost, Leaves, Arrives
  <2> QED BY <2>2, <2>3, <2>4, <2>5
<1> QED BY <1>1, <1>2, <1>3

LEMMA InitIds == SInit => IdInv
<1> SUFFICES ASSUME SInit PROVE IdInv
  OBVIOUS
<1>1. main_store.entries = <<>> /\ next_packet_id = 0 /\ accepted = 0
  BY DEF SInit, Init, EmptyStore
<1>2. Requesting = {}
  BY <1>1, PacketsEmpty DEF Requesting, Carried, StoredIn
<1> QED BY <1>1, <1>2 DEF IdInv, DistinctIds

(* No packet id under way is given to another request as long as the       *)
(* application makes no more requests than there are ids, and none that    *)
(* the store refuses: the three theorems before hold of such a session     *)
(* without a condition (client_set_packet_id, lmqtt_store_append).         *)
THEOREM IdsStayDistinct ==
  ASSUME EnoughIds
  PROVE  SSpec => [](IdsDistinct /\ OutAtMostOnce /\ SuccessIsPublished
                       /\ PublishedInOrder)
<1>1. SInit => SessionInv /\ IdInv
  BY InitSession, InitIds
<1>2. SessionInv /\ IdInv /\ [SNext]_svars => (SessionInv /\ IdInv)'
  BY NextSession, NextIds
<1>3. SessionInv /\ IdInv => IdsDistinct
  BY DistinctInStore DEF IdInv
<1>4. SSpec => []IdsDistinct
  BY <1>1, <1>2, <1>3, PTL DEF SSpec
<1> QED BY <1>4, PublishedAtMostOnce, SuccessMeansPublished,
           FirstPublishedInOrder, PTL
=============================================================================
