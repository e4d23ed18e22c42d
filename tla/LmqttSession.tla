---------------------------- MODULE LmqttSession ----------------------------
(***************************************************************************)
(* A client and its broker, with connections between them that break.      *)
(* Every connection asks for the session to be kept, so both sides resume  *)
(* what was under way when the next connection is up.                      *)
(*                                                                         *)
(* The steps of the client are those of LmqttClient, packet by packet.     *)
(* Broker and network are not part of the program: the broker is an MQTT   *)
(* 3.1.1 server as far as the client relies on it, the network a stream in *)
(* each direction, which delivers a prefix of what was written to it.      *)
(***************************************************************************)
EXTENDS LmqttClient

CONSTANTS
  SessionKinds,   \* the requests the application makes
  NumInbound,     \* bound: messages that the broker has for the client
  InboundQos,     \* their qualities of service
  RetriesWhenFull,  \* does the application call while main_store is full?
  MaxBreaks,      \* bound: connections that break or time out
  MaxForgets      \* bound: times that the broker loses the session

ASSUME SessionAssumption ==
  /\ CleanSessions = {FALSE}
  /\ SessionKinds \subseteq RequestKinds
  /\ SplitKinds \subseteq {"CONNECT", "SUBSCRIBE"}
  /\ NumInbound \in Nat /\ MaxBreaks \in Nat /\ MaxForgets \in Nat
  /\ InboundQos \subseteq {1, 2} /\ RetriesWhenFull \in BOOLEAN

VARIABLES
  up,          \* the connection is established, as the network sees it
  breaks,
  c2b, b2c,    \* packets under way to the broker, and to the client
  greeted,     \* the broker has answered the CONNECT of this connection
  srv_ids,     \* ids of QoS 2 messages the broker has and may get again
  out,         \* what the broker knows of each of its messages
  on_wire,     \* those of them sent over this connection
  forgets,     \* how often the broker has lost the session
  stale,       \* history: ids the client has kept for a lost session
  log,         \* history: the client's messages the broker has published
  got,         \* history: how often the application got each message
  kind_of      \* history: the kind of each accepted request

net    == <<up, breaks, c2b, b2c>>
lost   == <<forgets, stale>>
broker == <<greeted, srv_ids, out, on_wire, log, lost>>
svars  == <<vars, net, broker, got, kind_of>>

Inbound == 1 .. NumInbound

Packet(type, kind, id, msg) ==
  [type |-> type, kind |-> kind, id |-> id, msg |-> msg]
Response(p) == Packet("response", p.kind, p.id, None)
PublishTo(m, o) == Packet("publish", o.qos, o.id, m)
PubrelTo(m, o) == Packet("pubrel", o.qos, o.id, m)

SInit ==
  /\ Init
  /\ up = FALSE /\ breaks = 0 /\ c2b = <<>> /\ b2c = <<>>
  /\ greeted = FALSE /\ srv_ids = {} /\ on_wire = {} /\ log = <<>>
  /\ out = [m \in Inbound |-> [st |-> "new", qos |-> 0, id |-> 0]]
  /\ forgets = 0 /\ stale = {}
  /\ got = [m \in Inbound |-> 0]
  /\ kind_of = [r \in Requests |-> "NONE"]

-----------------------------------------------------------------------------
(* The client and its application.                                         *)

Internal == UNCHANGED <<net, broker, got>>

(* The application opens a new connection and calls lmqtt_client_connect.  *)
Open ==
  /\ Connect(FALSE)
  /\ up' = TRUE /\ c2b' = <<>> /\ b2c' = <<>>
  /\ greeted' = FALSE /\ on_wire' = {}
  /\ UNCHANGED <<breaks, srv_ids, out, log, lost, got, kind_of>>

Ask ==
  \E kind \in SessionKinds :
    /\ RetriesWhenFull \/ IsQueueable(main_store, Capacity)
    /\ Request(kind)
    /\ kind_of' = IF accepted' > accepted
                    THEN [kind_of EXCEPT ![accepted'] = kind] ELSE kind_of
    /\ Internal

Prepare == (Encode \/ Reset) /\ Internal /\ UNCHANGED kind_of

Send ==
  /\ up /\ write_buf # <<>>
  /\ Write(Head(write_buf))
  /\ c2b' = Append(c2b, Head(write_buf))
  /\ UNCHANGED <<up, breaks, b2c, broker, got, kind_of>>

(* A packet, when all of it has arrived.                                   *)
Receive ==
  /\ b2c # <<>>
  /\ b2c' = Tail(b2c)
  /\ LET p == Head(b2c) IN
       \/ /\ p.type = "response"
          /\ Respond(p.kind, p.id) \/ Unexpected(p.kind, p.id)
          /\ UNCHANGED got
       \/ /\ p.type = "publish"
          /\ ReceivePublish(p.kind, p.id, TRUE)
          /\ got' = IF Delivers(p.kind, p.id)
                      THEN [got EXCEPT ![p.msg] = @ + 1] ELSE got
       \/ /\ p.type = "pubrel"
          /\ ReceivePubrel(p.id)
          /\ UNCHANGED got
  /\ UNCHANGED <<up, breaks, c2b, broker, kind_of>>

(* CONNACK and SUBACK have bytes after the point where the decoder takes   *)
(* the entry out of its store.  They may arrive in two parts, and the rest *)
(* only as long as the connection is up.                                   *)
ReceivePart ==
  /\ b2c # <<>>
  /\ Head(b2c).type = "response"
  /\ BeginResponse(Head(b2c).kind, Head(b2c).id)
  /\ b2c' = Tail(b2c)
  /\ UNCHANGED <<up, breaks, c2b, broker, got, kind_of>>

ReceiveRest ==
  /\ up
  /\ FinishResponse
  /\ Internal /\ UNCHANGED kind_of

(* The client finds the connection closed, or in error.                    *)
NoticeBreak ==
  /\ ~up
  /\ Eof \/ Fail
  /\ Internal /\ UNCHANGED kind_of

(* The answer was only late: the client drops a connection that is up.     *)
LateAnswer ==
  /\ breaks < MaxBreaks
  /\ Timeout
  /\ breaks' = breaks + 1
  /\ UNCHANGED <<up, c2b, b2c, broker, got, kind_of>>

-----------------------------------------------------------------------------
(* The network.  What it has not delivered is lost with the connection.    *)
Break ==
  /\ up /\ breaks < MaxBreaks
  /\ up' = FALSE /\ breaks' = breaks + 1
  /\ c2b' = <<>> /\ b2c' = <<>>
  /\ UNCHANGED <<vars, broker, got, kind_of>>

-----------------------------------------------------------------------------
(* The broker.                                                             *)

(* The message, if any, that an acknowledgement with this id is about.     *)
InFlight(id, st) == {m \in Inbound : out[m].id = id /\ out[m].st = st}

Advanced(ms, st) ==
  [m \in Inbound |-> IF m \in ms THEN [out[m] EXCEPT !.st = st] ELSE out[m]]

(* A packet from the client: what the broker publishes, and its answer.    *)
Publishes(p) ==
  \/ p.kind \in {"PUBLISH_0", "PUBLISH_1"}
  \/ p.kind = "PUBLISH_2" /\ p.id \notin srv_ids

BrokerReceive ==
  /\ up /\ c2b # <<>>
  /\ c2b' = Tail(c2b)
  /\ LET p == Head(c2b) IN
       /\ log' = IF Publishes(p) THEN Append(log, p.val) ELSE log
       /\ srv_ids' = CASE p.kind = "PUBLISH_2" -> srv_ids \cup {p.id}
                       [] p.kind = "PUBREL" -> srv_ids \ {p.id}
                       [] OTHER -> srv_ids
       /\ greeted' = (greeted \/ p.kind = "CONNECT")
       /\ \/ /\ p.kind \in ResponseKinds
             /\ b2c' = Append(b2c, Response(p))
             /\ UNCHANGED out
          \/ /\ p.kind = "PUBLISH_0"
             /\ UNCHANGED <<b2c, out>>
          \/ /\ p.kind \in {"PUBACK", "PUBCOMP"}
             /\ LET st == IF p.kind = "PUBACK" THEN "sent" ELSE "released"
                    qos == IF p.kind = "PUBACK" THEN 1 ELSE 2
                IN out' = Advanced({m \in InFlight(p.id, st) :
                                      out[m].qos = qos}, "done")
             /\ UNCHANGED b2c
          \/ /\ p.kind = "PUBREC"
             /\ LET ms == {m \in InFlight(p.id, "sent") : out[m].qos = 2} IN
                  /\ out' = Advanced(ms, "released")
                  /\ b2c' = b2c \o SetToSeq({PubrelTo(m, out[m]) : m \in ms})
  /\ UNCHANGED <<vars, up, breaks, on_wire, lost, got, kind_of>>

(* A message goes out for the first time, in order, with an id that is not *)
(* in use; or, once per connection, what is not yet acknowledged again.    *)
BrokerSend(m) ==
  /\ up /\ greeted
  /\ m \notin on_wire /\ on_wire' = on_wire \cup {m}
  /\ \/ /\ out[m].st = "new"
        /\ \A n \in Inbound : n < m => out[n].st # "new"
        /\ \E qos \in InboundQos, id \in InboundIds :
             /\ InFlight(id, "sent") \cup InFlight(id, "released") = {}
             /\ out' = [out EXCEPT ![m] =
                          [st |-> "sent", qos |-> qos, id |-> id]]
        /\ b2c' = Append(b2c, PublishTo(m, out'[m]))
     \/ /\ out[m].st = "sent"
        /\ b2c' = Append(b2c, PublishTo(m, out[m]))
        /\ UNCHANGED out
     \/ /\ out[m].st = "released"
        /\ b2c' = Append(b2c, PubrelTo(m, out[m]))
        /\ UNCHANGED out
  /\ UNCHANGED <<vars, up, breaks, c2b, greeted, srv_ids, log, lost>>
  /\ UNCHANGED <<got, kind_of>>

(* The ids of the PUBRECs that the client still has to send.               *)
StalePubrecs ==
  {id \in InboundIds : \E i \in 1 .. Count(main_store) :
     main_store.entries[i].kind = "PUBREC" /\ main_store.entries[i].id = id}

(* Between two connections the broker loses the session, and says so in    *)
(* the next CONNACK, where the client does not look.  What it had under    *)
(* way is gone, its ids are free again.                                    *)
Forget ==
  /\ ~up /\ forgets < MaxForgets /\ forgets' = forgets + 1
  /\ srv_ids' = {}
  /\ out' = Advanced({m \in Inbound : out[m].st \in {"sent", "released"}},
                     "lost")
  /\ stale' = stale \cup id_set \cup StalePubrecs
  /\ UNCHANGED <<vars, net, greeted, on_wire, log, got, kind_of>>

-----------------------------------------------------------------------------
SNext ==
  \/ Open \/ Ask \/ Prepare \/ Send
  \/ Receive \/ ReceivePart \/ ReceiveRest
  \/ NoticeBreak \/ LateAnswer \/ Break \/ Forget
  \/ BrokerReceive
  \/ \E m \in Inbound : BrokerSend(m)

SSpec == SInit /\ [][SNext]_svars

(* The application calls lmqtt_client_run_once whenever there is something *)
(* to read or room to write, and reconnects when the connection is gone;   *)
(* the broker answers.  Nothing is assumed of requests, breaks, timeouts,  *)
(* and of the broker's memory.                                             *)
SFairness ==
  /\ WF_svars(Open) /\ WF_svars(Prepare) /\ WF_svars(Send)
  /\ WF_svars(Receive) /\ WF_svars(ReceiveRest) /\ WF_svars(NoticeBreak)
  /\ WF_svars(BrokerReceive)
  /\ \A m \in Inbound : WF_svars(BrokerSend(m))

FairSpec == SSpec /\ SFairness

-----------------------------------------------------------------------------
(* Properties.                                                             *)

Occurrences(r) == Cardinality({i \in 1 .. Len(log) : log[i] = r})

(* The broker publishes a QoS 2 message of the client no more than once,   *)
(* whatever is sent again after a break (rx_buffer_finish_packet turns the *)
(* entry into a PUBREL, client_cleanup_stores keeps it), and once more for *)
(* each session that it has lost.                                          *)
OutAtMostOnce ==
  \A r \in Requests :
    kind_of[r] = "PUBLISH_2" => Occurrences(r) <= 1 + forgets

(* When the callback of a QoS 1 or QoS 2 message says that it succeeded,   *)
(* the broker has published it.                                            *)
SuccessIsPublished ==
  \A r \in Requests :
    calls[r] = <<TRUE>> /\ kind_of[r] \in {"PUBLISH_1", "PUBLISH_2"} =>
      Occurrences(r) >= 1

(* The broker sees the client's messages for the first time in the order   *)
(* in which the application made the requests.                             *)
PublishedInOrder ==
  \A i \in 1 .. Len(log) :
    (\A k \in 1 .. i - 1 : log[k] # log[i]) =>
      \A k \in 1 .. i - 1 : log[k] < log[i]

(* The application gets a QoS 2 message no more than once (id_set).        *)
InAtMostOnce ==
  \A m \in Inbound : out[m].qos = 2 => got[m] <= 1

(* The broker is told that a QoS 2 message has arrived only when the       *)
(* application has got it (rx_buffer_decode_publish, lmqtt_store_append).  *)
(* When it has lost the session, an id that the client still remembers, or *)
(* answers with a PUBREC that it still has to send, swallows a message:    *)
(* client_on_connack does not look at session_present.                     *)
AckedIsDelivered ==
  \A m \in Inbound :
    out[m].qos = 2 /\ out[m].st \in {"released", "done"} /\ got[m] = 0 =>
      out[m].id \in stale

(* A correct broker never triggers NO_CORRESPONDING_REQUEST: what it       *)
(* answers is still marked in the current store (rx_buffer_pop_packet).    *)
AnswersFindRequests ==
  \A i \in 1 .. Len(b2c) :
    Running /\ b2c[i].type = "response" =>
      Matching(CurrentStore, b2c[i].kind, b2c[i].id) # {}

(* A message that the broker has sent over this connection is either still *)
(* under way, or its acknowledgement is: queued, encoded or sent.          *)
Acknowledges(m) ==
  LET kinds == IF out[m].st = "released" THEN {"PUBCOMP"}
               ELSE {"PUBACK", "PUBREC"}
      In(s) ==
        \E i \in 1 .. Len(s) : s[i].kind \in kinds /\ s[i].id = out[m].id
  IN In(main_store.entries) \/ In(write_buf) \/ In(c2b)
EveryMessageIsAnswered ==
  Running /\ up =>
    \A m \in on_wire : out[m].st \in {"sent", "released"} =>
      \/ \E i \in 1 .. Len(b2c) : b2c[i].type # "response" /\ b2c[i].msg = m
      \/ Acknowledges(m)

(* A SUBSCRIBE that nothing will send, answer or report any more.          *)
LostSubscribe(r) ==
  kind_of[r] = "SUBSCRIBE" /\ Pending(r) /\ Places(r) = 0

(* Once accepted, every request succeeds: breaks only delay it.  Only a    *)
(* SUBSCRIBE may instead be lost, where the connection breaks inside its   *)
(* SUBACK (rx_buffer_pop_packet, client_set_state_connecting).             *)
RequestsSucceed ==
  \A r \in Requests :
    (r <= accepted) ~> (calls[r] = <<TRUE>> \/ LostSubscribe(r))

(* Every message the broker has begun to send is acknowledged in the end,  *)
(* unless it has itself forgotten it.                                      *)
MessagesComplete ==
  \A m \in Inbound : (out[m].st = "sent") ~> (out[m].st \in {"done", "lost"})
=============================================================================
